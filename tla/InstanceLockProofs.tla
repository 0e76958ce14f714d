------------------------- MODULE InstanceLockProofs -------------------------
(***************************************************************************)
(* InstanceLock for every set of processes, connections and requests.      *)
(*                                                                         *)
(* The registry counts the references that exist and the kernel's lock     *)
(* follows the count (ReferencesAccounted).  With it, exclusion between    *)
(* processes is exclusion by the kernel: two holders of one lock in two    *)
(* processes would make it two processes' at once.  The count is preserved *)
(* because a reference is only taken where the process has the lock or the *)
(* kernel grants it: a replacement copies from a connection of its own     *)
(* process, and a request retains only results that are still held         *)
(* (RequestsAreBacked).                                                    *)
(***************************************************************************)
EXTENDS InstanceLock, FiniteSetTheorems, TLAPS

NewHoldsNothing == \A c \in Conns : phase[c] = "new" => holds[c] = {}

SlotsAreLocal ==
  \A s \in Procs \X Homes : live[s] # Nobody => ProcOf[live[s]] = s[1]

\* A request at work was sent by a started connection of its own process; what
\* it was promised and has not been revoked, that connection still holds; on
\* the wire it has leases on all of it, its identity's lock among them.
RequestsAreBacked ==
  \A w \in Workers :
    /\ req[w].stage = "leasing" =>
         /\ req[w].by \in Conns
         /\ ProcOf[req[w].by] = ProcOf[w]
         /\ phase[req[w].by] \notin {"new", "starting"}
         /\ (req[w].asked \ req[w].revoked) \ Unlockable \subseteq holds[req[w].by]
    /\ req[w].stage \in {"leasing", "http"} =>
         req[w].for \in Users /\ IdentityLock(req[w].for) \in req[w].asked
    /\ req[w].stage = "http" => req[w].asked \subseteq holds[w]

Inv == TypeOK /\ ReferencesAccounted /\ NewHoldsNothing /\ SlotsAreLocal /\ RequestsAreBacked

-----------------------------------------------------------------------------
\* Whoever holds a lock, its process has the kernel's.
LEMMA HolderOwns ==
  ASSUME TypeOK, ReferencesAccounted, NEW h \in Holders, NEW x \in holds[h], x \notin Unlockable
  PROVE  owner[x] = ProcOf[h] /\ refs[ProcOf[h]][x] > 0
<1> DEFINE p == ProcOf[h]
<1>1. p \in Procs /\ x \in Paths \ Unlockable
  BY HoldersAssumption DEF TypeOK
<1>2. IsFiniteSet(Referrers(p, x))
  BY HoldersAssumption, FS_Subset DEF Referrers
<1>3. h \in Referrers(p, x)
  BY DEF Referrers
<1>4. Cardinality(Referrers(p, x)) \in Nat /\ Cardinality(Referrers(p, x)) # 0
  BY <1>2, <1>3, FS_CardinalityType, FS_EmptySet
<1> QED
  BY <1>1, <1>4 DEF ReferencesAccounted

\* Taking references where the process has the lock, or nobody has, keeps the
\* registry's count right.
LEMMA TakeAccounted ==
  ASSUME TypeOK, ReferencesAccounted, NEW h \in Holders, NEW S \in SUBSET Paths,
         S \cap holds[h] = {},
         \A x \in S \ Unlockable : refs[ProcOf[h]][x] > 0 \/ owner[x] = Nobody,
         Take(h, S)
  PROVE  /\ ReferencesAccounted'
         /\ owner' \in [Paths -> Procs \cup {Nobody}]
         /\ refs' \in [Procs -> [Paths -> Nat]]
         /\ holds' \in [Holders -> SUBSET Paths]
<1>1. ProcOf[h] \in Procs /\ Nobody \notin Procs
  BY HoldersAssumption
<1>2. /\ owner' \in [Paths -> Procs \cup {Nobody}]
      /\ refs' \in [Procs -> [Paths -> Nat]]
      /\ holds' \in [Holders -> SUBSET Paths]
  BY <1>1 DEF Take, TypeOK
<1>3. ASSUME NEW p \in Procs, NEW x \in Paths \ Unlockable
      PROVE  /\ refs'[p][x] = Cardinality(Referrers(p, x)')
             /\ owner'[x] = p <=> refs'[p][x] > 0
  <2>1. IsFiniteSet(Referrers(p, x)) /\ refs[p][x] = Cardinality(Referrers(p, x))
    BY HoldersAssumption, FS_Subset DEF Referrers, ReferencesAccounted
  <2>2. refs[p][x] \in Nat /\ (owner[x] = p <=> refs[p][x] > 0)
    BY DEF TypeOK, ReferencesAccounted
  <2>3. CASE p = ProcOf[h] /\ x \in S
    <3>1. Referrers(p, x)' = Referrers(p, x) \cup {h}
      BY <2>3 DEF Referrers, Take, TypeOK
    <3>2. h \notin Referrers(p, x)
      BY <2>3 DEF Referrers
    <3>3. Cardinality(Referrers(p, x)') = Cardinality(Referrers(p, x)) + 1
      BY <2>1, <3>1, <3>2, FS_AddElement
    <3>4. refs'[p][x] = refs[p][x] + 1 /\ owner'[x] = p
      BY <2>3, <1>1 DEF Take, TypeOK
    <3> QED
      BY <2>1, <2>2, <3>3, <3>4
  <2>4. CASE x \in S /\ p # ProcOf[h]
    <3>1. Referrers(p, x)' = Referrers(p, x)
      BY <2>4 DEF Referrers, Take, TypeOK
    <3>2. refs'[p][x] = refs[p][x] /\ owner'[x] = ProcOf[h]
      BY <2>4, <1>1 DEF Take, TypeOK
    <3>3. refs[ProcOf[h]][x] \in Nat /\ (owner[x] = ProcOf[h] <=> refs[ProcOf[h]][x] > 0)
      BY <1>1 DEF TypeOK, ReferencesAccounted
    <3>4. owner[x] # p
      BY <2>4, <3>3, <1>1
    <3> QED
      BY <2>1, <2>2, <2>4, <3>1, <3>2, <3>4
  <2>5. CASE x \notin S
    <3>1. Referrers(p, x)' = Referrers(p, x)
      BY <2>5 DEF Referrers, Take, TypeOK
    <3>2. refs'[p][x] = refs[p][x] /\ owner'[x] = owner[x]
      BY <2>5, <1>1 DEF Take, TypeOK
    <3> QED
      BY <2>1, <2>2, <3>1, <3>2
  <2> QED
    BY <2>3, <2>4, <2>5
<1> QED
  BY <1>2, <1>3 DEF ReferencesAccounted

\* So does giving references back.
LEMMA ReleaseAccounted ==
  ASSUME TypeOK, ReferencesAccounted, NEW h \in Holders, NEW S \in SUBSET holds[h], Release(h, S)
  PROVE  /\ ReferencesAccounted'
         /\ owner' \in [Paths -> Procs \cup {Nobody}]
         /\ refs' \in [Procs -> [Paths -> Nat]]
         /\ holds' \in [Holders -> SUBSET Paths]
<1>1. ProcOf[h] \in Procs /\ Nobody \notin Procs /\ S \subseteq Paths
  BY HoldersAssumption DEF TypeOK
<1>2. \A x \in S \ Unlockable : refs[ProcOf[h]][x] \in Nat \ {0} /\ owner[x] = ProcOf[h]
  BY <1>1, HolderOwns DEF TypeOK
<1>3. /\ owner' \in [Paths -> Procs \cup {Nobody}]
      /\ holds' \in [Holders -> SUBSET Paths]
  BY <1>1 DEF Release, TypeOK
<1>4. refs' \in [Procs -> [Paths -> Nat]]
  <2>1. [x \in Paths |-> IF x \in S \ Unlockable THEN refs[ProcOf[h]][x] - 1
                                                 ELSE refs[ProcOf[h]][x]] \in [Paths -> Nat]
    BY <1>1, <1>2 DEF TypeOK
  <2> QED
    BY <1>1, <2>1 DEF Release, TypeOK
<1>5. ASSUME NEW p \in Procs, NEW x \in Paths \ Unlockable
      PROVE  /\ refs'[p][x] = Cardinality(Referrers(p, x)')
             /\ owner'[x] = p <=> refs'[p][x] > 0
  <2>1. IsFiniteSet(Referrers(p, x)) /\ refs[p][x] = Cardinality(Referrers(p, x))
    BY HoldersAssumption, FS_Subset DEF Referrers, ReferencesAccounted
  <2>2. refs[p][x] \in Nat /\ (owner[x] = p <=> refs[p][x] > 0)
    BY DEF TypeOK, ReferencesAccounted
  <2>3. CASE p = ProcOf[h] /\ x \in S
    <3>1. Referrers(p, x)' = Referrers(p, x) \ {h}
      BY <2>3 DEF Referrers, Release, TypeOK
    <3>2. h \in Referrers(p, x)
      BY <2>3 DEF Referrers
    <3>3. Cardinality(Referrers(p, x)') = Cardinality(Referrers(p, x)) - 1
      BY <2>1, <3>1, <3>2, FS_RemoveElement
    <3>4. refs'[p][x] = refs[p][x] - 1
      BY <2>3, <1>1 DEF Release, TypeOK
    <3>5. owner'[x] = IF refs[p][x] = 1 THEN Nobody ELSE owner[x]
      BY <2>3 DEF Release
    <3>6. refs[p][x] > 0
      BY <1>2, <2>3, <2>2
    <3> QED
      BY <1>1, <2>1, <2>2, <3>3, <3>4, <3>5, <3>6
  <2>4. CASE x \in S /\ p # ProcOf[h]
    <3>1. Referrers(p, x)' = Referrers(p, x)
      BY <2>4 DEF Referrers, Release, TypeOK
    <3>2. refs'[p][x] = refs[p][x] /\ owner'[x] \in {owner[x], Nobody}
      BY <2>4, <1>1 DEF Release, TypeOK
    <3>3. owner[x] # p
      BY <1>2, <2>4
    <3> QED
      BY <1>1, <2>1, <2>2, <3>1, <3>2, <3>3
  <2>5. CASE x \notin S
    <3>1. Referrers(p, x)' = Referrers(p, x)
      BY <2>5 DEF Referrers, Release, TypeOK
    <3>2. refs'[p][x] = refs[p][x] /\ owner'[x] = owner[x]
      BY <2>5, <1>1 DEF Release, TypeOK
    <3> QED
      BY <2>1, <2>2, <3>1, <3>2
  <2> QED
    BY <2>3, <2>4, <2>5
<1> QED
  BY <1>3, <1>4, <1>5 DEF ReferencesAccounted

-----------------------------------------------------------------------------
LEMMA InitInv == Init => Inv
<1> SUFFICES ASSUME Init PROVE Inv
  OBVIOUS
<1>1. TypeOK
  BY HoldersAssumption DEF Init, TypeOK, NoReq
<1>2. ReferencesAccounted
  <2>1. \A p \in Procs, x \in Paths : Referrers(p, x) = {}
    BY DEF Init, Referrers
  <2>2. Cardinality({}) = 0
    BY FS_EmptySet
  <2>3. \A p \in Procs, x \in Paths : refs[p][x] = 0 /\ owner[x] = Nobody /\ p # Nobody
    BY HoldersAssumption DEF Init
  <2> QED
    BY <2>1, <2>2, <2>3 DEF ReferencesAccounted
<1>3. NewHoldsNothing /\ SlotsAreLocal
  BY DEF Init, NewHoldsNothing, SlotsAreLocal, Holders
<1>4. RequestsAreBacked
  BY DEF Init, RequestsAreBacked, NoReq
<1> QED
  BY <1>1, <1>2, <1>3, <1>4 DEF Inv

\* The conjuncts that no step below touches follow from these.
LEMMA SameReferences ==
  ASSUME ReferencesAccounted, UNCHANGED <<owner, refs, holds>>
  PROVE  ReferencesAccounted'
BY DEF ReferencesAccounted, Referrers

\* Revoking the results a connection gives back keeps the requests honest.
LEMMA RevokedStayBacked ==
  ASSUME TypeOK, RequestsAreBacked, NEW c \in Conns, NEW S \in SUBSET holds[c],
         Release(c, S), Revoke(c, S), UNCHANGED phase
  PROVE  RequestsAreBacked' /\ req' \in [Workers -> [stage : {"idle", "leasing", "http", "done"},
                          by : Conns \cup {Nobody}, for : Users \cup {NoUser},
                          as : Users \cup {NoUser}, asked : SUBSET Paths,
                          revoked : SUBSET Paths]]
<1>1. S \subseteq Paths /\ c \in Holders
  BY DEF TypeOK, Holders
<1>2. \A h \in Holders : holds'[h] = IF h = c THEN holds[c] \ S ELSE holds[h]
  BY <1>1 DEF Release, TypeOK
<1>3. \A w \in Workers : w \in Holders /\ w # c /\ holds'[w] = holds[w]
  BY <1>2, HoldersAssumption DEF Holders
<1>4. \A w \in Workers :
        req'[w] = IF req[w].by = c THEN [req[w] EXCEPT !.revoked = @ \cup S] ELSE req[w]
  BY DEF Revoke
<1>5. req' \in [Workers -> [stage : {"idle", "leasing", "http", "done"},
                          by : Conns \cup {Nobody}, for : Users \cup {NoUser},
                          as : Users \cup {NoUser}, asked : SUBSET Paths,
                          revoked : SUBSET Paths]]
  <2>1. \A w \in Workers : req[w].revoked \cup S \in SUBSET Paths
    BY <1>1 DEF TypeOK
  <2> DEFINE R == [stage : {"idle", "leasing", "http", "done"},
                   by : Conns \cup {Nobody}, for : Users \cup {NoUser},
                   as : Users \cup {NoUser}, asked : SUBSET Paths, revoked : SUBSET Paths]
  <2>2. \A r \in R, T \in SUBSET Paths : [r EXCEPT !.revoked = T] \in R
    OBVIOUS
  <2>3. req \in [Workers -> R]
    BY DEF TypeOK
  <2> DEFINE next(w) == IF req[w].by = c THEN [req[w] EXCEPT !.revoked = @ \cup S] ELSE req[w]
  <2>4. \A w \in Workers : next(w) \in R
    BY <2>1, <2>2, <2>3
  <2>5. req' = [w \in Workers |-> next(w)]
    BY DEF Revoke
  <2> HIDE DEF next, R
  <2>6. req' \in [Workers -> R]
    BY <2>4, <2>5
  <2> QED
    BY <2>6 DEF R
<1>6. \A w \in Workers : /\ req'[w].stage = req[w].stage /\ req'[w].by = req[w].by
                         /\ req'[w].for = req[w].for /\ req'[w].asked = req[w].asked
                         /\ req'[w].revoked = IF req[w].by = c THEN req[w].revoked \cup S
                                                              ELSE req[w].revoked
  <2> DEFINE R == [stage : {"idle", "leasing", "http", "done"},
                   by : Conns \cup {Nobody}, for : Users \cup {NoUser},
                   as : Users \cup {NoUser}, asked : SUBSET Paths, revoked : SUBSET Paths]
  <2>1. ASSUME NEW r \in R, NEW T
        PROVE  /\ [r EXCEPT !.revoked = T].stage = r.stage
               /\ [r EXCEPT !.revoked = T].by = r.by
               /\ [r EXCEPT !.revoked = T].for = r.for
               /\ [r EXCEPT !.revoked = T].asked = r.asked
               /\ [r EXCEPT !.revoked = T].revoked = T
    OBVIOUS
  <2>2. \A w \in Workers : req[w] \in R
    BY DEF TypeOK
  <2> HIDE DEF R
  <2> QED
    <3> TAKE w \in Workers
    <3>1. CASE req[w].by = c
      <4> DEFINE T == req[w].revoked \cup S
      <4>1. req[w] \in R /\ req'[w] = [req[w] EXCEPT !.revoked = T]
        BY <1>4, <2>2, <3>1
      <4>2. /\ req'[w].stage = req[w].stage /\ req'[w].by = req[w].by
            /\ req'[w].for = req[w].for /\ req'[w].asked = req[w].asked
            /\ req'[w].revoked = T
        <5> HIDE DEF T
        <5> QED
          BY <2>1, <4>1
      <4> QED
        BY <3>1, <4>2
    <3>2. CASE req[w].by # c
      BY <1>4, <3>2
    <3> QED
      BY <3>1, <3>2
<1>7. ASSUME NEW w \in Workers
      PROVE  /\ req'[w].stage = "leasing" =>
                  /\ req'[w].by \in Conns
                  /\ ProcOf[req'[w].by] = ProcOf[w]
                  /\ phase'[req'[w].by] \notin {"new", "starting"}
                  /\ (req'[w].asked \ req'[w].revoked) \ Unlockable \subseteq holds'[req'[w].by]
             /\ req'[w].stage \in {"leasing", "http"} =>
                  req'[w].for \in Users /\ IdentityLock(req'[w].for) \in req'[w].asked
             /\ req'[w].stage = "http" => req'[w].asked \subseteq holds'[w]
  <2>1. ASSUME req[w].stage = "leasing"
        PROVE  /\ req[w].by \in Conns /\ req[w].by \in Holders
               /\ (req[w].asked \ req[w].revoked) \ Unlockable \subseteq holds[req[w].by]
    BY <2>1 DEF RequestsAreBacked, Holders
  <2>2. ASSUME req[w].stage = "leasing"
        PROVE  (req'[w].asked \ req'[w].revoked) \ Unlockable \subseteq holds'[req'[w].by]
    <3>1. CASE req[w].by = c
      BY <2>1, <2>2, <1>2, <1>6, <3>1
    <3>2. CASE req[w].by # c
      BY <2>1, <2>2, <1>2, <1>6, <3>2
    <3> QED
      BY <3>1, <3>2
  <2>3. /\ req'[w].stage = "leasing" =>
             /\ req'[w].by \in Conns
             /\ ProcOf[req'[w].by] = ProcOf[w]
             /\ phase'[req'[w].by] \notin {"new", "starting"}
        /\ req'[w].stage \in {"leasing", "http"} =>
             req'[w].for \in Users /\ IdentityLock(req'[w].for) \in req'[w].asked
        /\ req'[w].stage = "http" => req'[w].asked \subseteq holds'[w]
    BY <1>3, <1>6 DEF RequestsAreBacked
  <2> QED
    BY <2>2, <2>3, <1>6
<1> QED
  BY <1>5, <1>7 DEF RequestsAreBacked

LEMMA NextInv == Inv /\ [Next]_vars => Inv'
<1> SUFFICES ASSUME Inv, [Next]_vars PROVE Inv'
  OBVIOUS
<1> USE DEF Inv
<1>a. \A h \in Holders : ProcOf[h] \in Procs
  BY HoldersAssumption
<1>b. Conns \subseteq Holders /\ Workers \subseteq Holders /\ Conns \cap Workers = {}
  BY HoldersAssumption DEF Holders
<1>c. \A h \in Conns : HomeOf[h] \in Homes /\ Slot(h) \in Procs \X Homes /\ Slot(h)[1] = ProcOf[h]
  BY <1>a, <1>b, HoldersAssumption DEF Slot
<1>d. Nobody \notin Procs /\ Nobody \notin Conns
  BY HoldersAssumption
<1>1. ASSUME NEW c \in Conns, Start(c) PROVE Inv'
  <2>1. TypeOK'
    BY <1>1, <1>c DEF Start, TypeOK
  <2>2. ReferencesAccounted'
    BY <1>1, SameReferences DEF Start
  <2>3. NewHoldsNothing' /\ SlotsAreLocal'
    BY <1>1, <1>c DEF Start, NewHoldsNothing, SlotsAreLocal, TypeOK
  <2>4. RequestsAreBacked'
    BY <1>1 DEF Start, RequestsAreBacked, TypeOK
  <2> QED
    BY <2>1, <2>2, <2>3, <2>4
<1>2. ASSUME NEW c \in Conns, StartReplacing(c) PROVE Inv'
  <2> DEFINE d == live[Slot(c)]
  <2>1. d \in Conns /\ ProcOf[d] = ProcOf[c] /\ holds[d] \in SUBSET Paths
    BY <1>2, <1>b, <1>c DEF StartReplacing, TypeOK, SlotsAreLocal
  <2>2. holds[c] = {}
    BY <1>2 DEF StartReplacing, NewHoldsNothing
  <2>3. \A x \in holds[d] \ Unlockable : refs[ProcOf[c]][x] > 0
    BY <2>1, <1>b, HolderOwns
  <2>4. Take(c, holds[d])
    BY <1>2 DEF StartReplacing
  <2>5. /\ ReferencesAccounted'
        /\ owner' \in [Paths -> Procs \cup {Nobody}]
        /\ refs' \in [Procs -> [Paths -> Nat]]
        /\ holds' \in [Holders -> SUBSET Paths]
    BY <1>b, <2>1, <2>2, <2>3, <2>4, TakeAccounted
  <2>6. TypeOK'
    BY <1>2, <2>1, <2>5 DEF StartReplacing, TypeOK
  <2>7. \A h \in Holders : holds[h] \subseteq holds'[h] /\ (h # c => holds'[h] = holds[h])
    BY <2>4, <1>b DEF Take, TypeOK
  <2>8. NewHoldsNothing' /\ SlotsAreLocal'
    BY <1>2, <1>b, <2>7 DEF StartReplacing, NewHoldsNothing, SlotsAreLocal, TypeOK
  <2>9. RequestsAreBacked'
    BY <1>2, <1>b, <2>7 DEF StartReplacing, RequestsAreBacked, TypeOK
  <2> QED
    BY <2>5, <2>6, <2>8, <2>9
<1>3. ASSUME NEW c \in Conns, StartGoesOn(c) PROVE Inv'
  <2>1. TypeOK'
    BY <1>3, <1>c DEF StartGoesOn, TypeOK
  <2>2. ReferencesAccounted'
    BY <1>3, SameReferences DEF StartGoesOn
  <2>3. NewHoldsNothing' /\ SlotsAreLocal'
    BY <1>3, <1>c DEF StartGoesOn, NewHoldsNothing, SlotsAreLocal, TypeOK
  <2>4. RequestsAreBacked'
    BY <1>3 DEF StartGoesOn, RequestsAreBacked, TypeOK
  <2> QED
    BY <2>1, <2>2, <2>3, <2>4
<1>4. ASSUME NEW c \in Conns, StartCancelled(c) PROVE Inv'
  <2>1. Release(c, holds[c]) /\ c \in Holders
    BY <1>4, <1>b DEF StartCancelled
  <2>2. /\ ReferencesAccounted'
        /\ owner' \in [Paths -> Procs \cup {Nobody}]
        /\ refs' \in [Procs -> [Paths -> Nat]]
        /\ holds' \in [Holders -> SUBSET Paths]
    BY <2>1, ReleaseAccounted
  <2>3. TypeOK'
    BY <1>4, <2>2 DEF StartCancelled, TypeOK
  <2>4. \A h \in Holders : holds'[h] \subseteq holds[h] /\ (h # c => holds'[h] = holds[h])
    BY <2>1 DEF Release, TypeOK
  <2>5. NewHoldsNothing' /\ SlotsAreLocal'
    BY <1>4, <1>b, <2>4 DEF StartCancelled, NewHoldsNothing, SlotsAreLocal, TypeOK
  <2>6. RequestsAreBacked'
    BY <1>4, <1>b, <2>4 DEF StartCancelled, RequestsAreBacked, TypeOK
  <2> QED
    BY <2>2, <2>3, <2>5, <2>6
<1>5. ASSUME NEW c \in Conns, NEW S \in SUBSET Paths, S \cap holds[c] = {},
             \A x \in S : CanTake(c, x), Take(c, S),
             phase[c] # "new", NEW a \in {"activation", "ready"},
             phase' = [phase EXCEPT ![c] = a], UNCHANGED <<user, live, prior, req>>
      PROVE  Inv'
  <2>1. /\ ReferencesAccounted'
        /\ owner' \in [Paths -> Procs \cup {Nobody}]
        /\ refs' \in [Procs -> [Paths -> Nat]]
        /\ holds' \in [Holders -> SUBSET Paths]
    BY <1>5, <1>b, TakeAccounted DEF CanTake
  <2>2. TypeOK'
    BY <1>5, <2>1 DEF TypeOK
  <2>3. \A h \in Holders : holds[h] \subseteq holds'[h] /\ (h # c => holds'[h] = holds[h])
    BY <1>5, <1>b DEF Take, TypeOK
  <2>4. NewHoldsNothing' /\ SlotsAreLocal'
    BY <1>5, <1>b, <2>3 DEF NewHoldsNothing, SlotsAreLocal, TypeOK
  <2>5. RequestsAreBacked'
    BY <1>5, <1>b, <2>3 DEF RequestsAreBacked, TypeOK
  <2> QED
    BY <2>1, <2>2, <2>4, <2>5
<1>6. ASSUME NEW c \in Conns, TakeProfile(c) PROVE Inv'
  <2> DEFINE S == {ProfileLock(HomeOf[c])} \ holds[c]
  <2>1. S \in SUBSET Paths
    BY <1>c DEF Paths
  <2>2. (\A x \in S : CanTake(c, x)) /\ Take(c, S) /\ S \cap holds[c] = {} /\ phase[c] = "profile"
    BY <1>6 DEF TakeProfile
  <2>3. phase' = [phase EXCEPT ![c] = "activation"] /\ UNCHANGED <<user, live, prior, req>>
    BY <1>6 DEF TakeProfile
  <2> HIDE DEF S
  <2> QED
    BY <2>1, <2>2, <2>3, <1>5
<1>7. ASSUME NEW c \in Conns, TakeIdentity(c) PROVE Inv'
  <2> DEFINE S == Identity(user[c]) \ holds[c]
  <2>1. S \in SUBSET Paths
    BY DEF Paths, Identity
  <2>2. (\A x \in S : CanTake(c, x)) /\ Take(c, S) /\ S \cap holds[c] = {} /\ phase[c] = "identity"
    BY <1>7 DEF TakeIdentity
  <2>3. phase' = [phase EXCEPT ![c] = "ready"] /\ UNCHANGED <<user, live, prior, req>>
    BY <1>7 DEF TakeIdentity
  <2> HIDE DEF S
  <2> QED
    BY <2>1, <2>2, <2>3, <1>5
<1>8. ASSUME NEW c \in Conns, NEW S \in SUBSET holds[c], Release(c, S), Revoke(c, S),
             UNCHANGED <<phase, user, live, prior>>
      PROVE  Inv'
  <2>1. /\ ReferencesAccounted'
        /\ owner' \in [Paths -> Procs \cup {Nobody}]
        /\ refs' \in [Procs -> [Paths -> Nat]]
        /\ holds' \in [Holders -> SUBSET Paths]
    BY <1>8, <1>b, ReleaseAccounted
  <2>2. RequestsAreBacked' /\ TypeOK'
    BY <1>8, <2>1, RevokedStayBacked DEF TypeOK
  <2>3. \A h \in Holders : holds'[h] \subseteq holds[h]
    BY <1>8, <1>b DEF Release, TypeOK
  <2>4. NewHoldsNothing' /\ SlotsAreLocal'
    BY <1>8, <1>b, <2>3 DEF NewHoldsNothing, SlotsAreLocal, TypeOK
  <2> QED
    BY <2>1, <2>2, <2>4
<1>9. ASSUME NEW c \in Conns, DropIdentity(c) PROVE Inv'
  <2> DEFINE S == {IdentityLock(u) : u \in Users \ {user[c]}} \cap holds[c]
  <2>1. Release(c, S) /\ Revoke(c, S) /\ S \in SUBSET holds[c]
    BY <1>9 DEF DropIdentity
  <2>2. UNCHANGED <<phase, user, live, prior>>
    BY <1>9 DEF DropIdentity
  <2> HIDE DEF S
  <2> QED
    BY <2>1, <2>2, <1>8
<1>10. ASSUME NEW c \in Conns, StopReleases(c) PROVE Inv'
  <2>1. PICK x \in holds[c] : Release(c, {x}) /\ Revoke(c, {x}) /\ UNCHANGED <<phase, user, live, prior>>
    BY <1>10 DEF StopReleases
  <2>2. {x} \in SUBSET holds[c]
    OBVIOUS
  <2> QED
    BY <2>1, <2>2, <1>8
<1>11. ASSUME NEW c \in Conns, WaitIdentity(c) \/ Loop(c) \/ StopBegins(c) PROVE Inv'
  <2>1. PICK a \in {"identity", "activation", "stopping"} :
          /\ phase[c] \notin {"new", "starting"} /\ phase' = [phase EXCEPT ![c] = a]
          /\ UNCHANGED <<owner, refs, holds, user, live, prior, req>>
    BY <1>11 DEF WaitIdentity, Loop, StopBegins, Running
  <2>2. TypeOK'
    BY <2>1 DEF TypeOK
  <2>3. ReferencesAccounted'
    BY <2>1, SameReferences
  <2>4. NewHoldsNothing' /\ SlotsAreLocal'
    BY <2>1 DEF NewHoldsNothing, SlotsAreLocal, TypeOK
  <2>5. RequestsAreBacked'
    BY <2>1 DEF RequestsAreBacked, TypeOK
  <2> QED
    BY <2>2, <2>3, <2>4, <2>5
<1>12. ASSUME NEW c \in Conns, StopEnds(c) PROVE Inv'
  <2>1. TypeOK'
    <3>1. live' \in [Procs \X Homes -> Conns \cup {Nobody}]
      BY <1>12, <1>c DEF StopEnds, TypeOK
    <3>2. phase' \in [Conns -> {"new", "starting", "profile", "activation", "identity", "ready",
                                "stopping", "stopped"}]
      BY <1>12 DEF StopEnds, TypeOK
    <3> QED
      BY <1>12, <3>1, <3>2 DEF StopEnds, TypeOK
  <2>2. ReferencesAccounted'
    BY <1>12, SameReferences DEF StopEnds
  <2>3. \A s \in Procs \X Homes : live'[s] # Nobody => live'[s] = live[s]
    BY <1>12, <1>c DEF StopEnds, TypeOK
  <2>4. NewHoldsNothing' /\ SlotsAreLocal'
    BY <1>12, <2>3 DEF StopEnds, NewHoldsNothing, SlotsAreLocal, TypeOK
  <2>5. RequestsAreBacked'
    BY <1>12 DEF StopEnds, RequestsAreBacked, TypeOK
  <2> QED
    BY <2>1, <2>2, <2>4, <2>5
<1>13. ASSUME NEW c \in Conns, NEW u \in Users \cup {NoUser}, Adopt(c, u) PROVE Inv'
  <2>1. TypeOK'
    BY <1>13 DEF Adopt, TypeOK
  <2>2. ReferencesAccounted'
    BY <1>13, SameReferences DEF Adopt
  <2>3. NewHoldsNothing' /\ SlotsAreLocal' /\ RequestsAreBacked'
    BY <1>13 DEF Adopt, NewHoldsNothing, SlotsAreLocal, RequestsAreBacked
  <2> QED
    BY <2>1, <2>2, <2>3
<1>14. ASSUME NEW w \in Workers, NEW c \in Conns, Ask(w, c) PROVE Inv'
  <2>1. PICK u \in Users \cup {NoUser} :
          /\ user' = [user EXCEPT ![c] = u]
          /\ req' = [req EXCEPT ![w] = [stage |-> "leasing", by |-> c, for |-> user[c], as |-> u,
                                        asked |-> holds[c], revoked |-> {}]]
    BY <1>14 DEF Ask, Adopted, TypeOK
  <2>2. UNCHANGED <<owner, refs, holds, phase, live, prior>>
    BY <1>14 DEF Ask
  <2>3. holds[c] \in SUBSET Paths /\ user[c] \in Users
    BY <1>14, <1>b DEF Ask, TypeOK
  <2>4. IdentityLock(user[c]) \in holds[c] /\ phase[c] \notin {"new", "starting"} /\ ProcOf[w] = ProcOf[c]
    BY <1>14, <2>3 DEF Ask, Ready, Running, Identity
  <2>5. TypeOK'
    BY <2>1, <2>2, <2>3 DEF TypeOK
  <2>6. ReferencesAccounted'
    BY <2>2, SameReferences
  <2>7. NewHoldsNothing' /\ SlotsAreLocal'
    BY <2>2 DEF NewHoldsNothing, SlotsAreLocal
  <2>8. RequestsAreBacked'
    BY <2>1, <2>2, <2>3, <2>4 DEF RequestsAreBacked, TypeOK
  <2> QED
    BY <2>5, <2>6, <2>7, <2>8
<1>15. ASSUME NEW w \in Workers, NEW x \in Paths, Lease(w, x) PROVE Inv'
  <2>1. /\ req[w].stage = "leasing" /\ x \in req[w].asked /\ x \notin holds[w]
        /\ x \notin Unlockable => x \notin req[w].revoked
        /\ Take(w, {x}) /\ UNCHANGED <<phase, user, live, prior, req>>
    BY <1>15 DEF Lease
  <2>2. x \notin Unlockable => refs[ProcOf[w]][x] > 0
    <3> SUFFICES ASSUME x \notin Unlockable PROVE refs[ProcOf[w]][x] > 0
      OBVIOUS
    <3>1. req[w].by \in Conns /\ ProcOf[req[w].by] = ProcOf[w] /\ x \in holds[req[w].by]
      BY <2>1 DEF RequestsAreBacked
    <3> QED
      BY <3>1, <1>b, HolderOwns
  <2>3. /\ ReferencesAccounted'
        /\ owner' \in [Paths -> Procs \cup {Nobody}]
        /\ refs' \in [Procs -> [Paths -> Nat]]
        /\ holds' \in [Holders -> SUBSET Paths]
    BY <2>1, <2>2, <1>b, TakeAccounted
  <2>4. TypeOK'
    BY <2>1, <2>3 DEF TypeOK
  <2>5. \A h \in Holders : holds[h] \subseteq holds'[h] /\ (h # w => holds'[h] = holds[h])
    BY <2>1, <1>b DEF Take, TypeOK
  <2>6. NewHoldsNothing' /\ SlotsAreLocal'
    BY <2>1, <1>b, <2>5 DEF NewHoldsNothing, SlotsAreLocal
  <2>7. RequestsAreBacked'
    BY <2>1, <1>b, <2>5 DEF RequestsAreBacked
  <2> QED
    BY <2>3, <2>4, <2>6, <2>7
<1>16. ASSUME NEW w \in Workers, Refused(w) \/ Respond(w) \/ Request(w) \/ Finish(w) PROVE Inv'
  <2>1. UNCHANGED <<owner, refs, holds, phase, user, live, prior>>
    BY <1>16 DEF Refused, Respond, Request, Finish
  <2>2. \/ req' = [req EXCEPT ![w] = [@ EXCEPT !.stage = "done"]]
        \/ /\ req[w].stage = "leasing" /\ req[w].asked \subseteq holds[w]
           /\ req' = [req EXCEPT ![w] = [@ EXCEPT !.stage = "http"]]
        \/ req' = [req EXCEPT ![w] = NoReq]
    BY <1>16 DEF Refused, Respond, Request, Finish
  <2> DEFINE Request_ == [stage : {"idle", "leasing", "http", "done"},
                          by : Conns \cup {Nobody}, for : Users \cup {NoUser},
                          as : Users \cup {NoUser}, asked : SUBSET Paths, revoked : SUBSET Paths]
  <2>3. TypeOK'
    <3>1. req[w] \in Request_ /\ NoReq \in Request_
      BY DEF TypeOK, NoReq
    <3>2. /\ [req[w] EXCEPT !.stage = "done"] \in Request_
          /\ [req[w] EXCEPT !.stage = "http"] \in Request_
      BY <3>1
    <3>3. req \in [Workers -> Request_]
      BY DEF TypeOK
    <3>4. req' = [req EXCEPT ![w] = req'[w]] /\ req'[w] \in Request_
      BY <2>2, <3>1, <3>2, <3>3
    <3>5. req' \in [Workers -> Request_]
      BY <3>3, <3>4
    <3> QED
      BY <2>1, <3>5 DEF TypeOK
  <2>4. ReferencesAccounted'
    BY <2>1, SameReferences
  <2>5. NewHoldsNothing' /\ SlotsAreLocal'
    BY <2>1 DEF NewHoldsNothing, SlotsAreLocal
  <2>6. RequestsAreBacked'
    <3>1. \A v \in Workers \ {w} : req'[v] = req[v]
      BY <2>2 DEF TypeOK
    <3>2. \/ req'[w].stage \in {"done", "idle"}
          \/ /\ req[w].stage = "leasing" /\ req[w].asked \subseteq holds[w]
             /\ req'[w].stage = "http" /\ req'[w].for = req[w].for
             /\ req'[w].asked = req[w].asked
      BY <2>2 DEF TypeOK, NoReq
    <3> QED
      BY <2>1, <3>1, <3>2 DEF RequestsAreBacked
  <2> QED
    BY <2>3, <2>4, <2>5, <2>6
<1>17. ASSUME NEW w \in Workers, Unlease(w) PROVE Inv'
  <2>1. PICK x \in holds[w] : /\ req[w].stage = "done" /\ Release(w, {x})
                              /\ UNCHANGED <<phase, user, live, prior, req>>
    BY <1>17 DEF Unlease
  <2>2. /\ ReferencesAccounted'
        /\ owner' \in [Paths -> Procs \cup {Nobody}]
        /\ refs' \in [Procs -> [Paths -> Nat]]
        /\ holds' \in [Holders -> SUBSET Paths]
    BY <2>1, <1>b, ReleaseAccounted
  <2>3. TypeOK'
    BY <2>1, <2>2 DEF TypeOK
  <2>4. \A h \in Holders : h # w => holds'[h] = holds[h]
    BY <2>1, <1>b DEF Release, TypeOK
  <2>5. NewHoldsNothing' /\ SlotsAreLocal'
    BY <2>1, <1>b, <2>4 DEF NewHoldsNothing, SlotsAreLocal
  <2>6. RequestsAreBacked'
    BY <2>1, <1>b, <2>4 DEF RequestsAreBacked
  <2> QED
    BY <2>2, <2>3, <2>5, <2>6
<1>18. ASSUME NEW p \in Procs, Crash(p) PROVE Inv'
  <2>1. TypeOK'
    BY <1>18, <1>a, <1>b DEF Crash, TypeOK, NoReq
  <2>2. ReferencesAccounted'
    <3>1. ASSUME NEW q \in Procs, NEW x \in Paths \ Unlockable
          PROVE  /\ refs'[q][x] = Cardinality(Referrers(q, x)')
                 /\ owner'[x] = q <=> refs'[q][x] > 0
      <4>1. CASE q = p
        <5>1. Referrers(q, x)' = {}
          BY <1>18, <4>1 DEF Crash, Referrers
        <5>2. refs'[q][x] = 0 /\ owner'[x] # q
          BY <1>18, <4>1, <1>d DEF Crash, TypeOK
        <5> QED
          BY <5>1, <5>2, FS_EmptySet
      <4>2. CASE q # p
        <5>1. Referrers(q, x)' = Referrers(q, x)
          BY <1>18, <4>2 DEF Crash, Referrers
        <5>2. refs'[q][x] = refs[q][x] /\ (owner'[x] = q <=> owner[x] = q)
          BY <1>18, <4>2, <1>d DEF Crash, TypeOK
        <5> QED
          BY <5>1, <5>2 DEF ReferencesAccounted
      <4> QED
        BY <4>1, <4>2
    <3> QED
      BY <3>1 DEF ReferencesAccounted
  <2>3. NewHoldsNothing'
    BY <1>18, <1>b DEF Crash, NewHoldsNothing, TypeOK
  <2>4. SlotsAreLocal'
    BY <1>18 DEF Crash, SlotsAreLocal, TypeOK
  <2>5. RequestsAreBacked'
    BY <1>18, <1>b DEF Crash, RequestsAreBacked, NoReq, TypeOK
  <2> QED
    BY <2>1, <2>2, <2>3, <2>4, <2>5
<1>19. CASE UNCHANGED vars
  <2>1. TypeOK' /\ NewHoldsNothing' /\ SlotsAreLocal' /\ RequestsAreBacked'
    BY <1>19 DEF vars, TypeOK, NewHoldsNothing, SlotsAreLocal, RequestsAreBacked
  <2>2. ReferencesAccounted'
    BY <1>19, SameReferences DEF vars
  <2> QED
    BY <2>1, <2>2
<1> QED
  BY <1>1, <1>2, <1>3, <1>4, <1>6, <1>7, <1>9, <1>10, <1>11, <1>12, <1>13, <1>14, <1>15, <1>16,
     <1>17, <1>18, <1>19
  DEF Adopted, Next, Starting, Locking, Stopping, Work

\* The registry's references are counted exactly, and the kernel's lock follows
\* them, for every set of processes, connections and requests.
THEOREM LocksAccounted == Spec => [](TypeOK /\ ReferencesAccounted)
<1>1. Inv => TypeOK /\ ReferencesAccounted
  BY DEF Inv
<1> QED
  BY <1>1, InitInv, NextInv, PTL DEF Spec

\* Two processes never refresh one identity's tokens at the same time: the
\* worker's lease on the identity's lock outlives its connection, and the
\* kernel's lock is one process's.
THEOREM RefreshesExclude == Spec => []OneRefreshPerIdentity
<1>1. Inv => OneRefreshPerIdentity
  <2> SUFFICES ASSUME Inv, NEW v \in Workers, NEW w \in Workers, ProcOf[v] # ProcOf[w],
                      req[v].stage = "http", req[w].stage = "http", req[v].for = req[w].for,
                      IdentityLock(req[v].for) \notin Unlockable
               PROVE  FALSE
    BY DEF OneRefreshPerIdentity
  <2>1. IdentityLock(req[v].for) \in holds[v] /\ IdentityLock(req[v].for) \in holds[w]
    BY DEF Inv, RequestsAreBacked
  <2> QED
    BY <2>1, HolderOwns DEF Inv, Holders
<1> QED
  BY <1>1, InitInv, NextInv, PTL DEF Spec

\* Requests on the wire in two processes share no lock.
THEOREM RequestsExclude == Spec => []LeasesExclude
<1>1. Inv => LeasesExclude
  BY HolderOwns DEF Inv, LeasesExclude, Holders
<1> QED
  BY <1>1, InitInv, NextInv, PTL DEF Spec

\* Two processes' connections are never both ready under one profile home or
\* one identity whose file can be locked.
THEOREM ReadyExclude == Spec => []OneReadyPerLock
<1>1. Inv => OneReadyPerLock
  <2> SUFFICES ASSUME Inv, NEW c \in Conns, NEW d \in Conns, ProcOf[c] # ProcOf[d],
                      Ready(c), Ready(d)
               PROVE  /\ HomeOf[c] = HomeOf[d] => ProfileLock(HomeOf[c]) \in Unlockable
                      /\ user[c] = user[d] =>
                           user[c] = NoUser \/ IdentityLock(user[c]) \in Unlockable
    BY DEF OneReadyPerLock
  <2>1. c \in Holders /\ d \in Holders
    BY DEF Holders
  <2>2. \A x \in holds[c] \cap holds[d] : x \in Unlockable
    BY <2>1, HolderOwns DEF Inv
  <2>3. user[c] # NoUser => IdentityLock(user[c]) \in holds[c]
    BY DEF Inv, TypeOK, Ready, Identity
  <2>4. user[d] # NoUser => IdentityLock(user[d]) \in holds[d]
    BY DEF Inv, TypeOK, Ready, Identity
  <2> QED
    BY <2>2, <2>3, <2>4 DEF Ready
<1> QED
  BY <1>1, InitInv, NextInv, PTL DEF Spec


\* Every variable keeps its type (runtime_registry.py, the registry's tables).
THEOREM LockTypes == Spec => []TypeOK
<1>1. TypeOK /\ ReferencesAccounted => TypeOK
  OBVIOUS
<1> QED BY <1>1, LocksAccounted, PTL

\* The exclusion of processes, at the locks, at the refreshes and at READY,
\* for any number of processes, homes, identities and requests.
THEOREM ProcessesExclude == Spec => []Exclusion
<1>1. LeasesExclude /\ OneRefreshPerIdentity /\ OneReadyPerLock => Exclusion
  BY DEF Exclusion
<1> QED BY <1>1, RequestsExclude, RefreshesExclude, ReadyExclude, PTL
=============================================================================
