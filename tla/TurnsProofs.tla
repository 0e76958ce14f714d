------------------------------ MODULE TurnsProofs ------------------------------
(***************************************************************************)
(* Proofs about what becomes a turn of the host.  The journal of claimed   *)
(* messages, for any number of messages, maintenance runs, lost links,     *)
(* crashes and failures: a message is given to the host under one nonce, a *)
(* calm run gives the messages in the order of the ledger, and a cut-off   *)
(* turn is reported once.  The batches of a group, for any number of       *)
(* messages, changes and failures: what is held is flushed, one batch at a *)
(* time, under the newest setting.  The confirmations of the owner: a call *)
(* that was asked about runs on the answer to its own card.  The first     *)
(* greeting after a pairing, which a turn marks only as its own.  And the  *)
(* maintenance of the history, for any number of messages, blocks, plans   *)
(* and faults: the summary only grows, without gaps, and a session taken   *)
(* for informed has been shown all that came before.                       *)
(***************************************************************************)
EXTENDS HeldJournal, FiniteSetTheorems, TLAPS, WellFoundedInduction

USE DEF dbVars, drainVars, procVars, hostVars, countVars

-----------------------------------------------------------------------------
(* The inductive invariant. *)

\* A message that is being dispatched has its row open and is in the hands of
\* its lane, where no recall comes between, or of the drain that waits for it.
RunInv == \A m \in Msgs :
    /\ run[m].at = "idle" \/ run[m].by = "nobody" => run[m] = Idle
    /\ run[m] # Idle => row[m] = "dispatching"
    /\ run[m].by = "lane" => m \notin recalled
    /\ run[m].by = "drain" => drain.on /\ drain.cur = m

\* The ledger names each message once, and those that have a row.
LedgerInv ==
    /\ \A m \in Msgs : m \in ToSet(claimed) <=> row[m] # "none"
    /\ \A k, l \in DOMAIN claimed : claimed[k] = claimed[l] => k = l
    /\ \A i \in DOMAIN took : row[took[i].msg] # "none"

\* The nonce of an offer is the one in the snapshot, which stands as long as
\* the message may be given to the host again.
NonceInv == \A m \in Msgs :
    /\ run[m].at \in {"offered", "taken"} => run[m].nonce >= 1
    /\ run[m].at = "offered" /\ m \notin blind => run[m].nonce = snap[m]
    /\ row[m] # "dispatched" /\ m \notin blind =>
         \A i \in DOMAIN took : took[i].msg = m => took[i].nonce = snap[m]

\* What was told is marked, and its row does not open again.
ToldInv == \A m \in Msgs :
    told[m] > 0 => told[m] = 1 /\ m \in notified /\ row[m] = "dispatched"

\* Nothing failed, was lost or was cut short.
Calm == fails + drops + crashes = 0 /\ ~late

\* In calm every open row has somebody: its dispatch, the maintenance that holds
\* it, or a drain, which leaves no row behind that it tried.
OwnedInv ==
    /\ link = "up"
    /\ \A m \in Msgs : row[m] = "dispatching" => run[m] # Idle
    /\ \A m \in Msgs : row[m] = "held" => blocked \/ Draining
    /\ \A m \in drain.tried : drain.on => row[m] = "dispatched" \/ drain.cur = m

Ahead(a, b) == \A k, l \in DOMAIN claimed : claimed[k] = a /\ claimed[l] = b => k < l
Taken(m) == \E i \in DOMAIN took : took[i].msg = m
ToCome(m) == Open(m) /\ run[m].at # "taken"

\* In calm what is still to come was claimed after what the host has taken, and
\* what is being dispatched is the first of it.
FirstInv ==
    /\ \A a, b \in Msgs : Taken(a) /\ ToCome(b) => Ahead(a, b)
    /\ \A a, b \in Msgs : ToCome(a) /\ run[a] # Idle /\ ToCome(b) /\ a # b => Ahead(a, b)

CalmInv == Calm => OwnedInv /\ FirstInv

IInv ==
    /\ TypeOK /\ RunInv /\ LedgerInv /\ NonceInv /\ ToldInv /\ CalmInv
    /\ HandedOnce /\ LedgerOrder

-----------------------------------------------------------------------------
(* The types, in parts. *)

RunsUpTo(i, n) == [by : {"nobody", "lane", "drain"}, inst : 0..i, nonce : 0..n,
                   at : {"idle", "route", "prep", "offered", "taken"}]

LedgerTypes ==
    /\ claimed \in Seq(Msgs) /\ recalled \subseteq Msgs /\ notified \subseteq Msgs
    /\ row \in [Msgs -> {"none", "held", "dispatching", "dispatched"}]
    /\ snap \in [Msgs -> 0..nonces] /\ hand \in [Msgs -> 0..proc]
    /\ term \in [Msgs -> {"none", "success", "other"}]
    /\ proc \in Nat \ {0} /\ nonces \in Nat

TaskTypes ==
    /\ inst \in Nat \ {0} /\ link \in {"up", "away", "dead"}
    /\ blocked \in BOOLEAN /\ notice \in BOOLEAN /\ waiting \in BOOLEAN
    /\ wake \in BOOLEAN /\ late \in BOOLEAN
    /\ drain \in [on : BOOLEAN, tried : SUBSET Msgs, cur : Msgs \cup {NoMsg}]
    /\ run \in [Msgs -> RunsUpTo(inst, nonces)]

HostTypes ==
    /\ took \in Seq([msg : Msgs, nonce : 1..nonces]) /\ hosting \subseteq Msgs
    /\ told \in [Msgs -> Nat] /\ blind \subseteq Msgs
    /\ blocks \in Nat /\ drops \in Nat /\ crashes \in Nat /\ fails \in Nat

LEMMA TypeParts == TypeOK <=> LedgerTypes /\ TaskTypes /\ HostTypes
BY DEF TypeOK, LedgerTypes, TaskTypes, HostTypes, RunsUpTo

LEMMA TypesAssembled ==
  ASSUME LedgerTypes', TaskTypes', HostTypes'
  PROVE  TypeOK'
BY DEF TypeOK, LedgerTypes, TaskTypes, HostTypes, RunsUpTo

LEMMA RunsGrow ==
  ASSUME NEW i \in Nat, NEW n \in Nat, NEW j \in Nat, NEW o \in Nat, i <= j, n <= o,
         NEW r \in RunsUpTo(i, n)
  PROVE  r \in RunsUpTo(j, o)
BY DEF RunsUpTo

LEMMA IdleIsRun ==
  ASSUME NEW i \in Nat, NEW n \in Nat
  PROVE  Idle \in RunsUpTo(i, n)
BY DEF Idle, RunsUpTo

LEMMA DrainTypes ==
  ASSUME NEW m \in Msgs,
         drain \in [on : BOOLEAN, tried : SUBSET Msgs, cur : Msgs \cup {NoMsg}]
  PROVE  {DrainOff, [drain EXCEPT !.tried = @ \cup {m}],
          [drain EXCEPT !.tried = @ \cup {m}, !.cur = m]}
           \subseteq [on : BOOLEAN, tried : SUBSET Msgs, cur : Msgs \cup {NoMsg}]
<1> DEFINE T == [on : BOOLEAN, tried : SUBSET Msgs, cur : Msgs \cup {NoMsg}]
<1>1. DrainOff \in T
  BY DEF DrainOff
<1>2. [drain EXCEPT !.tried = @ \cup {m}] \in T
  OBVIOUS
<1>3. [drain EXCEPT !.tried = @ \cup {m}, !.cur = m] \in T
  OBVIOUS
<1> HIDE DEF T
<1> QED
  BY <1>1, <1>2, <1>3 DEF T

LEMMA WiderSequence ==
  ASSUME NEW S, NEW T, S \subseteq T, NEW s \in Seq(S)
  PROVE  s \in Seq(T)
<1>1. \A i \in 1..Len(s) : s[i] \in T
  OBVIOUS
<1> QED
  BY <1>1

LEMMA AppendIndexes ==
  ASSUME NEW S, NEW s \in Seq(S), NEW e \in S
  PROVE  /\ Append(s, e) \in Seq(S)
         /\ ToSet(Append(s, e)) = ToSet(s) \cup {e}
         /\ Len(Append(s, e)) = Len(s) + 1 /\ Append(s, e)[Len(s) + 1] = e
         /\ DOMAIN Append(s, e) = DOMAIN s \cup {Len(s) + 1}
         /\ \A i \in DOMAIN s : i \in Nat /\ i < Len(s) + 1 /\ Append(s, e)[i] = s[i]
BY DEF ToSet

LEMMA LeastIndex ==
  ASSUME NEW S \in SUBSET Nat, S # {}
  PROVE  Min(S) \in S /\ \A k \in S : Min(S) <= k
<1>1. PICK x \in S : \A y \in S : ~(<<y, x>> \in OpToRel(<, Nat))
  BY NatLessThanWellFounded, WFMin, Zenon
<1>2. ASSUME NEW y \in S, y < x PROVE FALSE
  <2>1. <<y, x>> \in Nat \X Nat /\ <<y, x>>[1] < <<y, x>>[2]
    BY <1>2
  <2>2. <<y, x>> \in OpToRel(<, Nat)
    BY <2>1, Zenon DEF OpToRel
  <2> QED
    BY <1>1, <2>2
<1>3. \A y \in S : x <= y
  BY <1>2
<1> QED
  BY <1>3 DEF Min

\* What the drain tries next is the first open row of the ledger it has not tried.
LEMMA NextRowIsFirst ==
  ASSUME JournalConstants, TypeOK, NextRow # NoMsg
  PROVE  /\ NextRow \in Msgs /\ Open(NextRow) /\ NextRow \notin drain.tried
         /\ \E k \in DOMAIN claimed : claimed[k] = NextRow
              /\ \A l \in DOMAIN claimed :
                   Open(claimed[l]) /\ claimed[l] \notin drain.tried => k <= l
<1>1. claimed \in Seq(Msgs)
  BY DEF TypeOK
<1>2. Untried \in SUBSET Nat /\ Untried # {}
  BY <1>1 DEF Untried, NextRow
<1>3. Min(Untried) \in Untried /\ \A k \in Untried : Min(Untried) <= k
  BY <1>2, LeastIndex
<1>4. NextRow = claimed[Min(Untried)]
  BY <1>2 DEF NextRow
<1> DEFINE k == Min(Untried)
<1>5. k \in DOMAIN claimed /\ Open(claimed[k]) /\ claimed[k] \notin drain.tried
  BY <1>3 DEF Untried
<1>6. \A l \in DOMAIN claimed : Open(claimed[l]) /\ claimed[l] \notin drain.tried => k <= l
  BY <1>3 DEF Untried
<1>7. claimed[k] \in Msgs
  BY <1>1, <1>5
<1> QED
  BY <1>4, <1>5, <1>6, <1>7

LEMMA NoRowIsLeft ==
  ASSUME JournalConstants, TypeOK, NextRow = NoMsg, NEW m \in ToSet(claimed), Open(m)
  PROVE  m \in drain.tried
<1>1. claimed \in Seq(Msgs)
  BY DEF TypeOK
<1>2. ASSUME Untried # {} PROVE FALSE
  <2>1. Min(Untried) \in DOMAIN claimed
    BY <1>1, <1>2, LeastIndex DEF Untried
  <2> QED
    BY <1>1, <1>2, <2>1 DEF NextRow, JournalConstants
<1> QED
  BY <1>2 DEF Untried, ToSet

-----------------------------------------------------------------------------
(* The dispatch of a message. *)

\* The end of a dispatch: nobody has the message, and a drain that waited for it
\* goes on or stops.
LEMMA EndRunEnds ==
  ASSUME TypeOK, RunInv, NEW m \in Msgs, EndRun(m)
  PROVE  /\ run' = [run EXCEPT ![m] = Idle] /\ waiting' = waiting
         /\ wake' \in BOOLEAN
         /\ drain' \in [on : BOOLEAN, tried : SUBSET Msgs, cur : Msgs \cup {NoMsg}]
         /\ drain.on => drain'.on \/ blocked
         /\ drain'.on => drain.on /\ drain'.tried = drain.tried
              /\ (drain'.cur = drain.cur \/ (drain.cur = m /\ run[m].by = "drain" /\ ~blocked))
         /\ \A k \in Msgs : run'[k].by = "drain" => drain'.on /\ drain'.cur = k
<1> DEFINE r == run[m]
<1>1. /\ run' = [run EXCEPT ![m] = Idle] /\ waiting' = waiting /\ wake' \in BOOLEAN
  BY DEF EndRun, TypeOK
<1>2. /\ r.by # "drain" => drain' = drain
      /\ r.by = "drain" => drain.on /\ drain.cur = m
           /\ drain' = IF blocked THEN DrainOff ELSE [drain EXCEPT !.cur = NoMsg]
  BY DEF EndRun, AfterRun, RunInv
<1>3. drain \in [on : BOOLEAN, tried : SUBSET Msgs, cur : Msgs \cup {NoMsg}]
  BY DEF TypeOK
<1>4. DrainOff \in [on : BOOLEAN, tried : SUBSET Msgs, cur : Msgs \cup {NoMsg}]
        /\ ~DrainOff.on
  BY DEF DrainOff
<1>5. ASSUME NEW k \in Msgs, run'[k].by = "drain" PROVE drain'.on /\ drain'.cur = k
  <2>1. run \in [Msgs -> RunsUpTo(inst, nonces)]
    BY DEF TypeOK, RunsUpTo
  <2>2. k # m /\ run[k].by = "drain"
    BY <1>1, <1>5, <2>1 DEF Idle
  <2>3. drain.on /\ drain.cur = k
    BY <2>2 DEF RunInv
  <2> QED
    BY <1>2, <2>2, <2>3
<1> HIDE DEF r
<1>6. /\ drain' \in [on : BOOLEAN, tried : SUBSET Msgs, cur : Msgs \cup {NoMsg}]
      /\ drain.on => drain'.on \/ blocked
      /\ drain'.on => drain.on /\ drain'.tried = drain.tried
           /\ (drain'.cur = drain.cur \/ (drain.cur = m /\ r.by = "drain" /\ ~blocked))
  BY <1>2, <1>3, <1>4
<1> QED
  BY <1>1, <1>5, <1>6 DEF r

\* A dispatch goes on: its record changes, nothing is decided.
Goes(m) ==
    /\ run[m] # Idle
    /\ \E r \in RunsUpTo(inst, nonces') :
         run' = [run EXCEPT ![m] = r] /\ r.by = run[m].by /\ r.at # "idle"
    /\ nonces' \in Nat /\ nonces <= nonces'
    /\ UNCHANGED <<claimed, recalled, row, term, hand, notified, drainVars, procVars, countVars,
                   told>>

\* A dispatch ends: its row stays, waits for the maintenance, or is finished.
Ends(m) ==
    /\ run[m] # Idle /\ EndRun(m)
    /\ \/ UNCHANGED row /\ (fails' > 0 \/ link # "up")
       \/ row' = [row EXCEPT ![m] = "held"] /\ blocked /\ run[m].at = "route"
       \/ row' = [row EXCEPT ![m] = "dispatched"]
    /\ UNCHANGED <<claimed, recalled, procVars, hostVars, nonces, blocks, drops, crashes, late,
                   blind, told>>

LEMMA RunsTyped ==
  ASSUME TypeOK, NEW m \in Msgs
  PROVE  /\ run \in [Msgs -> RunsUpTo(inst, nonces)] /\ run[m] \in RunsUpTo(inst, nonces)
         /\ inst \in Nat /\ nonces \in Nat
BY DEF TypeOK, RunsUpTo

LEMMA EnterIs ==
  ASSUME TypeOK, NEW m \in Msgs, Enter(m)
  PROVE  Goes(m) \/ Ends(m)
<1>1. run[m] # Idle
  BY DEF Enter, Idle
<1>2. CASE m \in recalled
  BY <1>1, <1>2 DEF Enter, Ends, Retire
<1>3. CASE m \notin recalled /\ Ready /\ blocked
  BY <1>1, <1>3 DEF Enter, Ends
<1>4. CASE m \notin recalled /\ ~(Ready /\ blocked)
  <2> DEFINE i == IF Ready THEN inst ELSE run[m].inst
             r == [run[m] EXCEPT !.at = "prep", !.inst = i]
  <2>0. i \in 0..inst
    BY RunsTyped DEF RunsUpTo
  <2>1. run' = [run EXCEPT ![m] = r] /\ UNCHANGED <<row, snap, drainVars>>
    BY <1>4, RunsTyped DEF Enter, RunsUpTo
  <2> HIDE DEF i
  <2>2. r \in RunsUpTo(inst, nonces) /\ r.by = run[m].by /\ r.at # "idle"
    BY <2>0, RunsTyped DEF RunsUpTo
  <2> HIDE DEF r
  <2>3. UNCHANGED <<claimed, recalled, term, hand, notified, nonces, procVars, countVars, told>>
    BY DEF Enter
  <2>4. r \in RunsUpTo(inst, nonces') /\ nonces' \in Nat /\ nonces <= nonces'
    BY <2>2, <2>3, RunsTyped
  <2> QED
    BY <1>1, <2>1, <2>2, <2>3, <2>4 DEF Goes
<1> QED
  BY <1>2, <1>3, <1>4

LEMMA OfferIs ==
  ASSUME TypeOK, NEW m \in Msgs, Offer(m)
  PROVE  Goes(m) \/ Ends(m)
<1>1. run[m] # Idle
  BY DEF Offer, Idle
<1>2. CASE m \in recalled
  BY <1>1, <1>2 DEF Offer, Ends, Retire
<1>3. CASE m \notin recalled
  <2> DEFINE r == [run[m] EXCEPT !.at = "offered", !.nonce = Nonce(m)]
  <2>1. /\ run' = [run EXCEPT ![m] = r] /\ UNCHANGED <<row, drainVars>>
        /\ nonces' = IF Nonce(m) > nonces THEN Nonce(m) ELSE nonces
    BY <1>3, RunsTyped DEF Offer, RunsUpTo
  <2>2. Nonce(m) \in Nat
    <3>1. snap[m] \in 0..nonces /\ nonces \in Nat
      BY TypeParts DEF LedgerTypes
    <3> QED
      BY <3>1 DEF Nonce
  <2>3. nonces' \in Nat /\ nonces <= nonces' /\ Nonce(m) <= nonces'
    BY <2>1, <2>2, RunsTyped
  <2> DEFINE n == Nonce(m)
  <2>4. n \in 0..nonces'
    BY <2>2, <2>3
  <2> HIDE DEF n
  <2>5. [run[m] EXCEPT !.at = "offered", !.nonce = n] \in RunsUpTo(inst, nonces')
    BY <2>3, <2>4, RunsTyped DEF RunsUpTo
  <2>6. r \in RunsUpTo(inst, nonces') /\ r.by = run[m].by /\ r.at # "idle"
    BY <2>5, RunsTyped DEF RunsUpTo, n
  <2> HIDE DEF r
  <2>7. UNCHANGED <<claimed, recalled, term, hand, notified, procVars, countVars, told>>
    BY DEF Offer
  <2> QED
    BY <1>1, <2>1, <2>3, <2>6, <2>7 DEF Goes
<1> QED
  BY <1>2, <1>3

LEMMA TakesIs ==
  ASSUME TypeOK, NEW m \in Msgs, HostTakes(m)
  PROVE  Goes(m)
<1> DEFINE r == [run[m] EXCEPT !.at = "taken"]
<1>1. run[m] # Idle /\ run' = [run EXCEPT ![m] = r]
  BY RunsTyped DEF HostTakes, Idle, RunsUpTo
<1>2. r \in RunsUpTo(inst, nonces) /\ r.by = run[m].by /\ r.at # "idle"
  BY RunsTyped DEF RunsUpTo
<1> HIDE DEF r
<1>3. UNCHANGED <<dbVars, drainVars, procVars, nonces, countVars, told>>
  BY DEF HostTakes
<1>4. r \in RunsUpTo(inst, nonces') /\ nonces' \in Nat /\ nonces <= nonces'
  BY <1>2, <1>3, RunsTyped
<1> QED
  BY <1>1, <1>2, <1>3, <1>4 DEF Goes

LEMMA RecordIs ==
  ASSUME TypeOK, NEW m \in Msgs, Record(m)
  PROVE  Ends(m)
BY DEF Record, Ends, Idle, Ready

LEMMA FailIs ==
  ASSUME TypeOK, NEW m \in Msgs, FailRun(m)
  PROVE  Ends(m)
<1>1. run[m] # Idle
  BY DEF FailRun, Idle
<1>2. fails \in Nat
  BY TypeParts DEF HostTypes
<1>3. fails' > 0
  BY <1>2 DEF FailRun
<1> QED
  BY <1>1, <1>3 DEF FailRun, Ends

LEMMA GoesTyped ==
  ASSUME TypeOK, NEW m \in Msgs, Goes(m)
  PROVE  /\ run' \in [Msgs -> RunsUpTo(inst', nonces')]
         /\ row' \in [Msgs -> {"none", "held", "dispatching", "dispatched"}]
<1>1. PICK r \in RunsUpTo(inst, nonces') : run' = [run EXCEPT ![m] = r]
  BY DEF Goes
<1>2. inst' = inst /\ nonces' \in Nat /\ nonces <= nonces'
  BY RunsTyped DEF Goes
<1>3. \A k \in Msgs : run[k] \in RunsUpTo(inst, nonces')
  BY <1>2, RunsTyped, RunsGrow
<1>4. row' = row /\ row \in [Msgs -> {"none", "held", "dispatching", "dispatched"}]
  BY DEF Goes, TypeOK
<1> QED
  BY <1>1, <1>2, <1>3, <1>4, RunsTyped

LEMMA EndsTyped ==
  ASSUME TypeOK, RunInv, NEW m \in Msgs, Ends(m)
  PROVE  /\ run' \in [Msgs -> RunsUpTo(inst', nonces')]
         /\ row' \in [Msgs -> {"none", "held", "dispatching", "dispatched"}]
         /\ wake' \in BOOLEAN /\ waiting' \in BOOLEAN
         /\ drain' \in [on : BOOLEAN, tried : SUBSET Msgs, cur : Msgs \cup {NoMsg}]
<1>1. run' = [run EXCEPT ![m] = Idle] /\ inst' = inst /\ nonces' = nonces /\ waiting' = waiting
  BY EndRunEnds DEF Ends
<1>2. waiting \in BOOLEAN
  BY DEF TypeOK
<1>3. row' \in [Msgs -> {"none", "held", "dispatching", "dispatched"}]
  BY TypeParts DEF Ends, LedgerTypes
<1> QED
  BY <1>1, <1>2, <1>3, RunsTyped, IdleIsRun, EndRunEnds DEF Ends

-----------------------------------------------------------------------------
(* The types are kept. *)

LEMMA TypesKept ==
  ASSUME JournalConstants, IInv, [Next]_vars
  PROVE  TypeOK'
<1>1. ASSUME NEW m \in Msgs, Claim(m) PROVE TypeOK'
  <2>5. [by |-> "lane", at |-> "route", inst |-> inst, nonce |-> 0] \in RunsUpTo(inst, nonces)
    BY RunsTyped, TypeParts DEF IInv, RunsUpTo, TaskTypes, LedgerTypes
  <2>1. LedgerTypes'
    BY <1>1, TypeParts, AppendIndexes DEF LedgerTypes, IInv, Claim
  <2>2. TaskTypes'
    BY <1>1, TypeParts, <2>5 DEF TaskTypes, IInv, Claim
  <2>3. HostTypes'
    BY <1>1, TypeParts DEF HostTypes, IInv, Claim
  <2> QED
    BY <2>1, <2>2, <2>3, TypesAssembled
<1>2. ASSUME NEW m \in Msgs, Recall(m) PROVE TypeOK'
  <2>1. LedgerTypes'
    BY <1>2, TypeParts DEF LedgerTypes, IInv, Recall
  <2>2. TaskTypes'
    BY <1>2, TypeParts DEF TaskTypes, IInv, Recall
  <2>3. HostTypes'
    BY <1>2, TypeParts DEF HostTypes, IInv, Recall
  <2> QED
    BY <2>1, <2>2, <2>3, TypesAssembled
<1>3. ASSUME NEW m \in Msgs, ClaimThenCrash(m) PROVE TypeOK'
  <2>5. Idle \in RunsUpTo(inst, nonces)
    BY TypeParts, IdleIsRun DEF IInv, LedgerTypes, TaskTypes
  <2>1. LedgerTypes'
    BY <1>3, TypeParts, AppendIndexes DEF LedgerTypes, IInv, ClaimThenCrash
  <2>2. TaskTypes'
    BY <1>3, TypeParts, <2>5 DEF TaskTypes, IInv, ClaimThenCrash, Close, DrainOff, LedgerTypes
  <2>3. HostTypes'
    BY <1>3, TypeParts DEF HostTypes, IInv, ClaimThenCrash, MayHappen
  <2> QED
    BY <2>1, <2>2, <2>3, TypesAssembled
<1>4. ASSUME NEW m \in Msgs, Enter(m) PROVE TypeOK'
  <2>4. Goes(m) \/ Ends(m)
    BY <1>4, EnterIs DEF IInv
  <2>5. run' \in [Msgs -> RunsUpTo(inst', nonces')] /\ wake' \in BOOLEAN /\ waiting' \in BOOLEAN
        /\ drain' \in [on : BOOLEAN, tried : SUBSET Msgs, cur : Msgs \cup {NoMsg}]
        /\ row' \in [Msgs -> {"none", "held", "dispatching", "dispatched"}]
    <3>1. wake \in BOOLEAN /\ waiting \in BOOLEAN
          /\ drain \in [on : BOOLEAN, tried : SUBSET Msgs, cur : Msgs \cup {NoMsg}]
      BY DEF IInv, TypeOK
    <3>2. CASE Goes(m)
      BY <3>1, <3>2, GoesTyped DEF IInv, Goes
    <3> QED
      BY <2>4, <3>2, EndsTyped DEF IInv
  <2>6. snap' \in [Msgs -> 0..nonces] /\ nonces' = nonces
    <3>1. snap \in [Msgs -> 0..nonces] /\ nonces \in Nat
      BY TypeParts DEF IInv, LedgerTypes
    <3>2. snap' = snap \/ snap' = [snap EXCEPT ![m] = 0]
      BY <1>4 DEF Enter, Retire
    <3> QED
      BY <1>4, <3>1, <3>2 DEF Enter
  <2>1. LedgerTypes'
    BY <1>4, TypeParts, <2>5, <2>6 DEF LedgerTypes, IInv, Enter
  <2>2. TaskTypes'
    BY <1>4, TypeParts, <2>5 DEF TaskTypes, IInv, Enter
  <2>3. HostTypes'
    BY <1>4, TypeParts DEF HostTypes, IInv, Enter
  <2> QED
    BY <2>1, <2>2, <2>3, TypesAssembled
<1>5. ASSUME NEW m \in Msgs, Offer(m) PROVE TypeOK'
  <2>4. Goes(m) \/ Ends(m)
    BY <1>5, OfferIs DEF IInv
  <2>5. run' \in [Msgs -> RunsUpTo(inst', nonces')] /\ wake' \in BOOLEAN /\ waiting' \in BOOLEAN
        /\ drain' \in [on : BOOLEAN, tried : SUBSET Msgs, cur : Msgs \cup {NoMsg}]
        /\ row' \in [Msgs -> {"none", "held", "dispatching", "dispatched"}]
    <3>1. wake \in BOOLEAN /\ waiting \in BOOLEAN
          /\ drain \in [on : BOOLEAN, tried : SUBSET Msgs, cur : Msgs \cup {NoMsg}]
      BY DEF IInv, TypeOK
    <3>2. CASE Goes(m)
      BY <3>1, <3>2, GoesTyped DEF IInv, Goes
    <3> QED
      BY <2>4, <3>2, EndsTyped DEF IInv
  <2>6. snap' \in [Msgs -> 0..nonces'] /\ nonces' \in Nat /\ nonces <= nonces'
    <3>1. snap \in [Msgs -> 0..nonces] /\ nonces \in Nat
      BY TypeParts DEF IInv, LedgerTypes
    <3>2. Nonce(m) \in Nat
      BY <3>1 DEF Nonce
    <3>3. CASE m \in recalled
      BY <1>5, <3>1, <3>3 DEF Offer, Retire
    <3>4. CASE m \notin recalled
      <4>1. nonces' = IF Nonce(m) > nonces THEN Nonce(m) ELSE nonces
        BY <1>5, <3>4 DEF Offer
      <4>2. snap' = snap \/ snap' = [snap EXCEPT ![m] = Nonce(m)]
        BY <1>5, <3>4 DEF Offer
      <4> QED
        BY <3>1, <3>2, <4>1, <4>2
    <3> QED
      BY <3>3, <3>4
  <2>1. LedgerTypes'
    BY <1>5, TypeParts, <2>5, <2>6 DEF LedgerTypes, IInv, Offer
  <2>2. TaskTypes'
    BY <1>5, TypeParts, <2>5 DEF TaskTypes, IInv, Offer
  <2>3. HostTypes'
    <3>1. HostTypes /\ nonces \in Nat
      BY TypeParts DEF IInv, LedgerTypes
    <3>2. took' = took /\ blind' \subseteq Msgs
      BY <1>5, <3>1 DEF Offer, HostTypes
    <3>3. took \in Seq([msg : Msgs, nonce : 1..nonces'])
      <4>1. [msg : Msgs, nonce : 1..nonces] \subseteq [msg : Msgs, nonce : 1..nonces']
        BY <2>6, <3>1
      <4> QED
        BY <3>1, <4>1, WiderSequence DEF HostTypes
    <3> QED
      BY <1>5, <3>1, <3>2, <3>3 DEF HostTypes, Offer
  <2> QED
    BY <2>1, <2>2, <2>3, TypesAssembled
<1>6. ASSUME NEW m \in Msgs, HostTakes(m) PROVE TypeOK'
  <2>4. Goes(m) \/ Ends(m)
    BY <1>6, TakesIs DEF IInv
  <2>5. run' \in [Msgs -> RunsUpTo(inst', nonces')] /\ wake' \in BOOLEAN /\ waiting' \in BOOLEAN
        /\ drain' \in [on : BOOLEAN, tried : SUBSET Msgs, cur : Msgs \cup {NoMsg}]
        /\ row' \in [Msgs -> {"none", "held", "dispatching", "dispatched"}]
    <3>1. wake \in BOOLEAN /\ waiting \in BOOLEAN
          /\ drain \in [on : BOOLEAN, tried : SUBSET Msgs, cur : Msgs \cup {NoMsg}]
      BY DEF IInv, TypeOK
    <3>2. CASE Goes(m)
      BY <3>1, <3>2, GoesTyped DEF IInv, Goes
    <3> QED
      BY <2>4, <3>2, EndsTyped DEF IInv
  <2>6. run[m].nonce \in 1..nonces
    BY <1>6, RunsTyped DEF IInv, NonceInv, HostTakes, RunsUpTo
  <2>1. LedgerTypes'
    BY <1>6, TypeParts DEF LedgerTypes, IInv, HostTakes
  <2>2. TaskTypes'
    BY <1>6, TypeParts, <2>5 DEF TaskTypes, IInv, HostTakes
  <2>3. HostTypes'
    BY <1>6, TypeParts, <2>6, AppendIndexes DEF HostTypes, IInv, HostTakes
  <2> QED
    BY <2>1, <2>2, <2>3, TypesAssembled
<1>7. ASSUME NEW m \in Msgs, Record(m) PROVE TypeOK'
  <2>4. Goes(m) \/ Ends(m)
    BY <1>7, RecordIs DEF IInv
  <2>5. run' \in [Msgs -> RunsUpTo(inst', nonces')] /\ wake' \in BOOLEAN /\ waiting' \in BOOLEAN
        /\ drain' \in [on : BOOLEAN, tried : SUBSET Msgs, cur : Msgs \cup {NoMsg}]
        /\ row' \in [Msgs -> {"none", "held", "dispatching", "dispatched"}]
    <3>1. wake \in BOOLEAN /\ waiting \in BOOLEAN
          /\ drain \in [on : BOOLEAN, tried : SUBSET Msgs, cur : Msgs \cup {NoMsg}]
      BY DEF IInv, TypeOK
    <3>2. CASE Goes(m)
      BY <3>1, <3>2, GoesTyped DEF IInv, Goes
    <3> QED
      BY <2>4, <3>2, EndsTyped DEF IInv
  <2>6. hand' \in [Msgs -> 0..proc] /\ term' \in [Msgs -> {"none", "success", "other"}]
        /\ notified' \subseteq Msgs
    <3>1. /\ hand \in [Msgs -> 0..proc] /\ term \in [Msgs -> {"none", "success", "other"}]
          /\ notified \subseteq Msgs /\ proc \in Nat
      BY TypeParts DEF IInv, LedgerTypes
    <3>2. hand' = hand \/ hand' = [hand EXCEPT ![m] = proc]
      BY <1>7 DEF Record
    <3>3. \/ term' = term
          \/ term' = [term EXCEPT ![m] = IF @ = "success" THEN @ ELSE "none"]
      BY <1>7 DEF Record
    <3>4. notified' \subseteq notified
      BY <1>7 DEF Record
    <3> QED
      BY <3>1, <3>2, <3>3, <3>4
  <2>1. LedgerTypes'
    BY <1>7, TypeParts, <2>5, <2>6 DEF LedgerTypes, IInv, Record
  <2>2. TaskTypes'
    BY <1>7, TypeParts, <2>5 DEF TaskTypes, IInv, Record
  <2>3. HostTypes'
    BY <1>7, TypeParts DEF HostTypes, IInv, Record
  <2> QED
    BY <2>1, <2>2, <2>3, TypesAssembled
<1>8. ASSUME NEW m \in Msgs, FailRun(m) PROVE TypeOK'
  <2>4. Goes(m) \/ Ends(m)
    BY <1>8, FailIs DEF IInv
  <2>5. run' \in [Msgs -> RunsUpTo(inst', nonces')] /\ wake' \in BOOLEAN /\ waiting' \in BOOLEAN
        /\ drain' \in [on : BOOLEAN, tried : SUBSET Msgs, cur : Msgs \cup {NoMsg}]
        /\ row' \in [Msgs -> {"none", "held", "dispatching", "dispatched"}]
    <3>1. wake \in BOOLEAN /\ waiting \in BOOLEAN
          /\ drain \in [on : BOOLEAN, tried : SUBSET Msgs, cur : Msgs \cup {NoMsg}]
      BY DEF IInv, TypeOK
    <3>2. CASE Goes(m)
      BY <3>1, <3>2, GoesTyped DEF IInv, Goes
    <3> QED
      BY <2>4, <3>2, EndsTyped DEF IInv
  <2>1. LedgerTypes'
    BY <1>8, TypeParts DEF LedgerTypes, IInv, FailRun
  <2>2. TaskTypes'
    BY <1>8, TypeParts, <2>5 DEF TaskTypes, IInv, FailRun
  <2>3. HostTypes'
    BY <1>8, TypeParts DEF HostTypes, IInv, FailRun
  <2> QED
    BY <2>1, <2>2, <2>3, TypesAssembled
<1>9. ASSUME NEW m \in hosting, NEW o \in {"success", "other"}, HostEnds(m, o) PROVE TypeOK'
  <2>1. LedgerTypes'
    BY <1>9, TypeParts DEF LedgerTypes, IInv, HostEnds
  <2>2. TaskTypes'
    BY <1>9, TypeParts DEF TaskTypes, IInv, HostEnds
  <2>3. HostTypes'
    BY <1>9, TypeParts DEF HostTypes, IInv, HostEnds
  <2> QED
    BY <2>1, <2>2, <2>3, TypesAssembled
<1>10. CASE DrainStarts
  <2>1. LedgerTypes'
    BY <1>10, TypeParts DEF LedgerTypes, IInv, DrainStarts
  <2>2. TaskTypes'
    BY <1>10, TypeParts DEF TaskTypes, IInv, DrainStarts, DrainOff
  <2>3. HostTypes'
    BY <1>10, TypeParts DEF HostTypes, IInv, DrainStarts
  <2> QED
    BY <2>1, <2>2, <2>3, TypesAssembled
<1>11. CASE DrainStep
  <2>5. CASE blocked \/ NextRow = NoMsg
    <3>1. LedgerTypes'
      BY <1>11, <2>5, TypeParts DEF IInv, DrainStep, LedgerTypes
    <3>2. TaskTypes'
      <4>1. TaskTypes /\ drain' = DrainOff
        BY <1>11, <2>5, TypeParts DEF IInv, DrainStep
      <4>2. drain' \in [on : BOOLEAN, tried : SUBSET Msgs, cur : Msgs \cup {NoMsg}]
        BY <4>1 DEF DrainOff
      <4> QED
        BY <1>11, <2>5, <4>1, <4>2 DEF DrainStep, TaskTypes
    <3>3. HostTypes'
      BY <1>11, <2>5, TypeParts DEF IInv, DrainStep, HostTypes
    <3> QED
      BY <3>1, <3>2, <3>3, TypesAssembled
  <2> SUFFICES ASSUME ~blocked, NextRow # NoMsg PROVE TypeOK'
    BY <2>5
  <2> DEFINE m == NextRow
  <2>8. m \in Msgs /\ DrainRow(m)
    BY <1>11, NextRowIsFirst DEF IInv, DrainStep
  <2> HIDE DEF m
  <2>6. /\ row' \in [Msgs -> {"none", "held", "dispatching", "dispatched"}]
        /\ snap' \in [Msgs -> 0..nonces]
    <3>1. /\ row \in [Msgs -> {"none", "held", "dispatching", "dispatched"}]
          /\ snap \in [Msgs -> 0..nonces] /\ nonces \in Nat
      BY TypeParts DEF IInv, LedgerTypes
    <3>2. /\ \/ row' = row \/ row' = [row EXCEPT ![m] = "dispatched"]
             \/ row' = [row EXCEPT ![m] = "dispatching"]
          /\ snap' = snap \/ snap' = [snap EXCEPT ![m] = 0]
      BY <2>8 DEF DrainRow, Retire
    <3> QED
      BY <2>8, <3>1, <3>2
  <2>7. /\ drain' \in [on : BOOLEAN, tried : SUBSET Msgs, cur : Msgs \cup {NoMsg}]
        /\ run' \in [Msgs -> RunsUpTo(inst, nonces)] /\ waiting' \in BOOLEAN
    <3>1. /\ drain \in [on : BOOLEAN, tried : SUBSET Msgs, cur : Msgs \cup {NoMsg}]
          /\ run \in [Msgs -> RunsUpTo(inst, nonces)] /\ waiting \in BOOLEAN
      BY TypeParts DEF IInv, TaskTypes
    <3> DEFINE r == [by |-> "drain", at |-> "route", inst |-> inst, nonce |-> 0]
    <3>2. r \in RunsUpTo(inst, nonces)
      BY RunsTyped, TypeParts DEF IInv, RunsUpTo, TaskTypes, LedgerTypes
    <3>3. /\ run' = run \/ run' = [run EXCEPT ![m] = r]
          /\ waiting' = waiting \/ waiting' = TRUE
          /\ \/ drain' = DrainOff
             \/ drain' = [drain EXCEPT !.tried = @ \cup {m}]
             \/ drain' = [drain EXCEPT !.tried = @ \cup {m}, !.cur = m]
      BY <2>8 DEF DrainRow, Retire, Tried
    <3> HIDE DEF r
    <3>4. drain' \in [on : BOOLEAN, tried : SUBSET Msgs, cur : Msgs \cup {NoMsg}]
      BY <2>8, <3>1, <3>3, DrainTypes
    <3>5. run' \in [Msgs -> RunsUpTo(inst, nonces)]
      BY <2>8, <3>1, <3>2, <3>3
    <3> QED
      BY <3>1, <3>3, <3>4, <3>5
  <2>1. LedgerTypes'
    BY <1>11, TypeParts, <2>6 DEF LedgerTypes, IInv, DrainStep
  <2>2. TaskTypes'
    BY <1>11, TypeParts, <2>7 DEF TaskTypes, IInv, DrainStep
  <2>3. HostTypes'
    BY <1>11, TypeParts DEF HostTypes, IInv, DrainStep
  <2> QED
    BY <2>1, <2>2, <2>3, TypesAssembled
<1>12. CASE Block
  <2>1. LedgerTypes'
    BY <1>12, TypeParts DEF LedgerTypes, IInv, Block
  <2>2. TaskTypes'
    BY <1>12, TypeParts DEF TaskTypes, IInv, Block
  <2>3. HostTypes'
    BY <1>12, TypeParts DEF HostTypes, IInv, Block
  <2> QED
    BY <2>1, <2>2, <2>3, TypesAssembled
<1>13. CASE Unblock
  <2>1. LedgerTypes'
    BY <1>13, TypeParts DEF LedgerTypes, IInv, Unblock
  <2>2. TaskTypes'
    BY <1>13, TypeParts DEF TaskTypes, IInv, Unblock, DrainOff
  <2>3. HostTypes'
    BY <1>13, TypeParts DEF HostTypes, IInv, Unblock
  <2> QED
    BY <2>1, <2>2, <2>3, TypesAssembled
<1>14. CASE Deadline
  <2>1. LedgerTypes'
    BY <1>14, TypeParts DEF LedgerTypes, IInv, Deadline
  <2>2. TaskTypes'
    BY <1>14, TypeParts DEF TaskTypes, IInv, Deadline
  <2>3. HostTypes'
    BY <1>14, TypeParts DEF HostTypes, IInv, Deadline
  <2> QED
    BY <2>1, <2>2, <2>3, TypesAssembled
<1>15. CASE LinkDrops
  <2>1. LedgerTypes'
    BY <1>15, TypeParts DEF LedgerTypes, IInv, LinkDrops
  <2>2. TaskTypes'
    BY <1>15, TypeParts, IdleIsRun DEF TaskTypes, IInv, LinkDrops, Close, DrainOff, LedgerTypes
  <2>3. HostTypes'
    BY <1>15, TypeParts DEF HostTypes, IInv, LinkDrops
  <2> QED
    BY <2>1, <2>2, <2>3, TypesAssembled
<1>16. CASE Crash
  <2>1. LedgerTypes'
    BY <1>16, TypeParts DEF LedgerTypes, IInv, Crash
  <2>2. TaskTypes'
    BY <1>16, TypeParts, IdleIsRun DEF TaskTypes, IInv, Crash, Close, DrainOff, LedgerTypes
  <2>3. HostTypes'
    BY <1>16, TypeParts DEF HostTypes, IInv, Crash
  <2> QED
    BY <2>1, <2>2, <2>3, TypesAssembled
<1>17. CASE LinkUp
  <2>1. LedgerTypes'
    BY <1>17, TypeParts DEF LedgerTypes, IInv, LinkUp
  <2>2. TaskTypes'
    BY <1>17, TypeParts, RunsGrow DEF TaskTypes, IInv, LinkUp, LedgerTypes
  <2>3. HostTypes'
    BY <1>17, TypeParts DEF HostTypes, IInv, LinkUp
  <2> QED
    BY <2>1, <2>2, <2>3, TypesAssembled
<1>18. CASE CheckInterrupted
  <2>1. LedgerTypes'
    BY <1>18, TypeParts DEF LedgerTypes, IInv, CheckInterrupted, Interrupted
  <2>2. TaskTypes'
    BY <1>18, TypeParts DEF TaskTypes, IInv, CheckInterrupted
  <2>3. HostTypes'
    BY <1>18, TypeParts DEF HostTypes, IInv, CheckInterrupted, Interrupted
  <2> QED
    BY <2>1, <2>2, <2>3, TypesAssembled
<1>19. CASE UNCHANGED vars
  <2>1. LedgerTypes'
    BY <1>19, TypeParts DEF LedgerTypes, IInv, vars
  <2>2. TaskTypes'
    BY <1>19, TypeParts DEF TaskTypes, IInv, vars
  <2>3. HostTypes'
    BY <1>19, TypeParts DEF HostTypes, IInv, vars
  <2> QED
    BY <2>1, <2>2, <2>3, TypesAssembled
<1> QED
  BY <1>1, <1>2, <1>3, <1>4, <1>5, <1>6, <1>7, <1>8, <1>9, <1>10, <1>11, <1>12, <1>13, <1>14,
     <1>15, <1>16, <1>17, <1>18, <1>19 DEF Next


-----------------------------------------------------------------------------
(* A message is dispatched by one task, with its row open. *)

LEMMA GoesKeepsRuns ==
  ASSUME TypeOK, RunInv, NEW m \in Msgs, Goes(m)
  PROVE  RunInv'
<1>1. PICK r \in RunsUpTo(inst, nonces') :
        run' = [run EXCEPT ![m] = r] /\ r.by = run[m].by /\ r.at # "idle"
  BY DEF Goes
<1>2. UNCHANGED <<row, recalled, drain>> /\ run[m] # Idle /\ run[m].by # "nobody"
  BY DEF Goes, RunInv
<1>3. run \in [Msgs -> RunsUpTo(inst, nonces)]
  BY RunsTyped
<1> SUFFICES ASSUME NEW k \in Msgs
             PROVE  /\ run'[k].at = "idle" \/ run'[k].by = "nobody" => run'[k] = Idle
                    /\ run'[k] # Idle => row'[k] = "dispatching"
                    /\ run'[k].by = "lane" => k \notin recalled'
                    /\ run'[k].by = "drain" => drain'.on /\ drain'.cur = k
  BY DEF RunInv
<1>4. run'[k].by = run[k].by /\ (k # m => run'[k] = run[k]) /\ (k = m => run'[k].at # "idle")
  BY <1>1, <1>3
<1> QED
  BY <1>2, <1>4 DEF RunInv

LEMMA EndsKeepsRuns ==
  ASSUME TypeOK, RunInv, NEW m \in Msgs, Ends(m)
  PROVE  RunInv'
<1>1. run' = [run EXCEPT ![m] = Idle] /\ run \in [Msgs -> RunsUpTo(inst, nonces)]
  BY EndRunEnds, RunsTyped DEF Ends
<1>2. recalled' = recalled /\ \A k \in Msgs \ {m} : row'[k] = row[k]
  BY DEF Ends, TypeOK
<1> SUFFICES ASSUME NEW k \in Msgs
             PROVE  /\ run'[k].at = "idle" \/ run'[k].by = "nobody" => run'[k] = Idle
                    /\ run'[k] # Idle => row'[k] = "dispatching"
                    /\ run'[k].by = "lane" => k \notin recalled'
                    /\ run'[k].by = "drain" => drain'.on /\ drain'.cur = k
  BY DEF RunInv
<1>3. run'[k] = IF k = m THEN Idle ELSE run[k]
  BY <1>1
<1>4. run'[k].by = "drain" => drain'.on /\ drain'.cur = k
  BY EndRunEnds DEF Ends
<1> QED
  BY <1>2, <1>3, <1>4 DEF RunInv, Idle

LEMMA RunsKept ==
  ASSUME JournalConstants, IInv, [Next]_vars
  PROVE  RunInv'
<1>1. ASSUME NEW m \in Msgs, Claim(m) PROVE RunInv'
  <2>1. row[m] = "none" /\ run[m] = Idle /\ m \notin recalled
    BY <1>1 DEF Claim, IInv, LedgerInv, RunInv
  <2>2. row \in [Msgs -> {"none", "held", "dispatching", "dispatched"}]
        /\ run \in [Msgs -> RunsUpTo(inst, nonces)]
    BY TypeParts DEF IInv, LedgerTypes, TaskTypes
  <2>3. recalled' = recalled /\ drain' = drain
    BY <1>1 DEF Claim
  <2>4. CASE run' = run
    BY <1>1, <2>1, <2>2, <2>3, <2>4 DEF Claim, IInv, RunInv
  <2>5. CASE /\ row' = [row EXCEPT ![m] = "dispatching"]
             /\ run' = [run EXCEPT ![m] = [by |-> "lane", at |-> "route", inst |-> inst,
                                           nonce |-> 0]]
    BY <2>1, <2>2, <2>3, <2>5 DEF IInv, RunInv, Idle
  <2> QED
    BY <1>1, <2>4, <2>5 DEF Claim
<1>2. ASSUME NEW m \in Msgs, Recall(m) PROVE RunInv'
  BY <1>2 DEF IInv, RunInv, Recall, LaneFree
<1>3. ASSUME NEW m \in Msgs, ClaimThenCrash(m) PROVE RunInv'
  BY <1>3 DEF RunInv, ClaimThenCrash, Idle
<1>4. ASSUME NEW m \in Msgs, Enter(m) PROVE RunInv'
  BY <1>4, EnterIs, GoesKeepsRuns, EndsKeepsRuns DEF IInv
<1>5. ASSUME NEW m \in Msgs, Offer(m) PROVE RunInv'
  BY <1>5, OfferIs, GoesKeepsRuns, EndsKeepsRuns DEF IInv
<1>6. ASSUME NEW m \in Msgs, HostTakes(m) PROVE RunInv'
  BY <1>6, TakesIs, GoesKeepsRuns, EndsKeepsRuns DEF IInv
<1>7. ASSUME NEW m \in Msgs, Record(m) PROVE RunInv'
  BY <1>7, RecordIs, GoesKeepsRuns, EndsKeepsRuns DEF IInv
<1>8. ASSUME NEW m \in Msgs, FailRun(m) PROVE RunInv'
  BY <1>8, FailIs, GoesKeepsRuns, EndsKeepsRuns DEF IInv
<1>9. ASSUME NEW m \in hosting, NEW o \in {"success", "other"}, HostEnds(m, o) PROVE RunInv'
  BY <1>9 DEF IInv, RunInv, HostEnds
<1>10. CASE DrainStarts
  BY <1>10 DEF IInv, RunInv, DrainStarts
<1>11. CASE DrainStep
  <2>1. \A k \in Msgs : run[k].by # "drain"
    BY <1>11 DEF DrainStep, IInv, RunInv, JournalConstants
  <2>2. CASE blocked \/ NextRow = NoMsg
    BY <1>11, <2>1, <2>2 DEF DrainStep, IInv, RunInv
  <2>3. CASE ~blocked /\ NextRow # NoMsg
    <3> DEFINE m == NextRow
    <3>1. m \in Msgs /\ DrainRow(m) /\ recalled' = recalled
      BY <1>11, <2>3, NextRowIsFirst DEF IInv, DrainStep
    <3> HIDE DEF m
    <3>2. /\ row \in [Msgs -> {"none", "held", "dispatching", "dispatched"}]
          /\ drain \in [on : BOOLEAN, tried : SUBSET Msgs, cur : Msgs \cup {NoMsg}]
          /\ run \in [Msgs -> RunsUpTo(inst, nonces)]
      BY TypeParts DEF IInv, LedgerTypes, TaskTypes
    <3>3. CASE UNCHANGED run
      <4>1. row' = row \/ (run[m] = Idle /\ \A k \in Msgs \ {m} : row'[k] = row[k])
        <5>1. CASE m \in recalled
          <6>1. run[m].by \in {"nobody", "lane", "drain"}
            BY <3>1, <3>2 DEF RunsUpTo
          <6>2. run[m] = Idle
            BY <2>1, <3>1, <5>1, <6>1 DEF IInv, RunInv
          <6> QED
            BY <3>1, <3>2, <5>1, <6>2 DEF DrainRow, Retire
        <5>2. CASE m \notin recalled
          BY <3>1, <3>2, <5>2 DEF DrainRow
        <5> QED
          BY <5>1, <5>2
      <4> QED
        BY <2>1, <3>1, <3>3, <4>1 DEF IInv, RunInv, Idle
    <3>4. CASE /\ run' = [run EXCEPT ![m] = [by |-> "drain", at |-> "route", inst |-> inst,
                                             nonce |-> 0]]
               /\ row' = [row EXCEPT ![m] = "dispatching"]
               /\ drain' = [drain EXCEPT !.tried = @ \cup {m}, !.cur = m]
      <4>1. drain'.on /\ drain'.cur = m
        BY <1>11, <3>2, <3>4 DEF DrainStep
      <4> QED
        BY <2>1, <3>1, <3>2, <3>4, <4>1 DEF IInv, RunInv, Idle
    <3> QED
      BY <3>1, <3>3, <3>4 DEF DrainRow, Retire
  <2> QED
    BY <2>2, <2>3
<1>12. CASE Block
  BY <1>12 DEF IInv, RunInv, Block
<1>13. CASE Unblock
  BY <1>13 DEF IInv, RunInv, Unblock
<1>14. CASE Deadline
  BY <1>14 DEF IInv, RunInv, Deadline
<1>15. CASE LinkDrops
  BY <1>15 DEF IInv, RunInv, LinkDrops, Idle
<1>16. CASE Crash
  BY <1>16 DEF RunInv, Crash, Idle
<1>17. CASE LinkUp
  BY <1>17 DEF IInv, RunInv, LinkUp
<1>18. CASE CheckInterrupted
  BY <1>18 DEF IInv, RunInv, CheckInterrupted
<1>19. CASE UNCHANGED vars
  BY <1>19 DEF IInv, RunInv, vars
<1> QED
  BY <1>1, <1>2, <1>3, <1>4, <1>5, <1>6, <1>7, <1>8, <1>9, <1>10, <1>11, <1>12, <1>13, <1>14,
     <1>15, <1>16, <1>17, <1>18, <1>19 DEF Next


-----------------------------------------------------------------------------
(* The ledger names what has a row. *)

LEMMA LedgerStays ==
  ASSUME LedgerInv, claimed' = claimed, took' = took,
         \A k \in Msgs : row'[k] = "none" <=> row[k] = "none",
         \A i \in DOMAIN took : took[i].msg \in Msgs
  PROVE  LedgerInv'
BY DEF LedgerInv

LEMMA TookTyped ==
  ASSUME TypeOK
  PROVE  /\ \A i \in DOMAIN took :
              took[i].msg \in Msgs /\ took[i].nonce \in Nat /\ took[i].nonce >= 1
         /\ claimed \in Seq(Msgs)
         /\ row \in [Msgs -> {"none", "held", "dispatching", "dispatched"}]
<1>1. took \in Seq([msg : Msgs, nonce : 1..nonces]) /\ nonces \in Nat
  BY DEF TypeOK
<1> DEFINE T == [msg : Msgs, nonce : 1..nonces]
<1>2. \A t \in T : t.msg \in Msgs /\ t.nonce \in Nat /\ t.nonce >= 1
  BY <1>1
<1> HIDE DEF T
<1>3. \A i \in DOMAIN took : took[i] \in T
  <2>1. took \in Seq(T)
    BY <1>1 DEF T
  <2> QED
    BY <2>1
<1>4. claimed \in Seq(Msgs) /\ row \in [Msgs -> {"none", "held", "dispatching", "dispatched"}]
  BY DEF TypeOK
<1> QED
  BY <1>2, <1>3, <1>4

LEMMA ClaimKeepsLedger ==
  ASSUME TypeOK, LedgerInv, NEW m \in Msgs, m \notin ToSet(claimed),
         claimed' = Append(claimed, m), took' = took,
         NEW st \in {"held", "dispatching"}, row' = [row EXCEPT ![m] = st]
  PROVE  LedgerInv'
<1>1. /\ ToSet(claimed') = ToSet(claimed) \cup {m}
      /\ DOMAIN claimed' = DOMAIN claimed \cup {Len(claimed) + 1}
      /\ claimed'[Len(claimed) + 1] = m
      /\ \A i \in DOMAIN claimed : claimed'[i] = claimed[i] /\ claimed[i] # m
  BY TookTyped, AppendIndexes DEF ToSet
<1>2. \A k \in Msgs : row'[k] = IF k = m THEN st ELSE row[k]
  BY TookTyped
<1>3. \A k \in Msgs : k \in ToSet(claimed') <=> row'[k] # "none"
  BY <1>1, <1>2 DEF LedgerInv
<1>4. \A k, l \in DOMAIN claimed' : claimed'[k] = claimed'[l] => k = l
  BY <1>1 DEF LedgerInv
<1>5. \A i \in DOMAIN took : row'[took[i].msg] # "none"
  BY <1>2, TookTyped DEF LedgerInv
<1> QED
  BY <1>3, <1>4, <1>5 DEF LedgerInv

LEMMA EndsKeepsLedger ==
  ASSUME TypeOK, RunInv, LedgerInv, NEW m \in Msgs, Ends(m)
  PROVE  LedgerInv'
<1>1. claimed' = claimed /\ took' = took /\ row[m] = "dispatching"
  BY DEF Ends, RunInv
<1>2. \A k \in Msgs : row'[k] = "none" <=> row[k] = "none"
  BY <1>1, TookTyped DEF Ends
<1> QED
  BY <1>1, <1>2, LedgerStays, TookTyped

LEMMA LedgerKept ==
  ASSUME JournalConstants, IInv, [Next]_vars
  PROVE  LedgerInv'
<1>1. ASSUME NEW m \in Msgs, Claim(m) PROVE LedgerInv'
  <2>1. PICK st \in {"held", "dispatching"} : row' = [row EXCEPT ![m] = st]
    BY <1>1 DEF Claim
  <2> QED
    BY <1>1, <2>1, ClaimKeepsLedger DEF IInv, Claim
<1>2. ASSUME NEW m \in Msgs, Recall(m) PROVE LedgerInv'
  BY <1>2, LedgerStays, TookTyped DEF IInv, Recall
<1>3. ASSUME NEW m \in Msgs, ClaimThenCrash(m) PROVE LedgerInv'
  BY <1>3, ClaimKeepsLedger DEF IInv, ClaimThenCrash
<1>4. ASSUME NEW m \in Msgs, Enter(m) PROVE LedgerInv'
  <2>1. CASE Goes(m)
    <3>1. claimed' = claimed /\ took' = took /\ row' = row
      BY <1>4, <2>1 DEF Goes, Enter
    <3> QED
      BY <3>1, LedgerStays, TookTyped DEF IInv
  <2> QED
    BY <1>4, <2>1, EnterIs, EndsKeepsLedger DEF IInv
<1>5. ASSUME NEW m \in Msgs, Offer(m) PROVE LedgerInv'
  <2>1. CASE Goes(m)
    <3>1. claimed' = claimed /\ took' = took /\ row' = row
      BY <1>5, <2>1 DEF Goes, Offer
    <3> QED
      BY <3>1, LedgerStays, TookTyped DEF IInv
  <2> QED
    BY <1>5, <2>1, OfferIs, EndsKeepsLedger DEF IInv
<1>6. ASSUME NEW m \in Msgs, HostTakes(m) PROVE LedgerInv'
  <2>1. row[m] = "dispatching" /\ row' = row /\ claimed' = claimed
    BY <1>6 DEF IInv, RunInv, HostTakes, Idle
  <2>2. took' = Append(took, [msg |-> m, nonce |-> run[m].nonce])
    BY <1>6 DEF HostTakes
  <2>3. took \in Seq([msg : Msgs, nonce : 1..nonces])
    BY DEF IInv, TypeOK
  <2>4. \A i \in DOMAIN took' : took'[i].msg = m \/ (i \in DOMAIN took /\ took'[i] = took[i])
    BY <2>2, <2>3
  <2> QED
    BY <2>1, <2>4 DEF IInv, LedgerInv
<1>7. ASSUME NEW m \in Msgs, Record(m) PROVE LedgerInv'
  BY <1>7, RecordIs, EndsKeepsLedger DEF IInv
<1>8. ASSUME NEW m \in Msgs, FailRun(m) PROVE LedgerInv'
  BY <1>8, FailIs, EndsKeepsLedger DEF IInv
<1>9. ASSUME NEW m \in hosting, NEW o \in {"success", "other"}, HostEnds(m, o) PROVE LedgerInv'
  BY <1>9, LedgerStays, TookTyped DEF IInv, HostEnds
<1>10. CASE DrainStarts
  BY <1>10, LedgerStays, TookTyped DEF IInv, DrainStarts
<1>11. CASE DrainStep
  <2>1. claimed' = claimed /\ took' = took
    BY <1>11 DEF DrainStep
  <2>2. CASE row' = row
    BY <2>1, <2>2, LedgerStays, TookTyped DEF IInv
  <2>3. CASE row' # row
    <3>1. NextRow # NoMsg /\ DrainRow(NextRow)
      BY <1>11, <2>3 DEF DrainStep
    <3>2. PICK m \in Msgs, st \in {"dispatching", "dispatched"} :
            Open(m) /\ row' = [row EXCEPT ![m] = st]
      BY <2>3, <3>1, NextRowIsFirst DEF IInv, DrainRow, Retire
    <3>3. \A k \in Msgs : row'[k] = "none" <=> row[k] = "none"
      BY <3>2, TookTyped DEF Open, IInv
    <3> QED
      BY <2>1, <3>3, LedgerStays, TookTyped DEF IInv
  <2> QED
    BY <2>2, <2>3
<1>12. CASE Block
  BY <1>12, LedgerStays, TookTyped DEF IInv, Block
<1>13. CASE Unblock
  BY <1>13, LedgerStays, TookTyped DEF IInv, Unblock
<1>14. CASE Deadline
  BY <1>14, LedgerStays, TookTyped DEF IInv, Deadline
<1>15. CASE LinkDrops
  BY <1>15, LedgerStays, TookTyped DEF IInv, LinkDrops
<1>16. CASE Crash
  BY <1>16, LedgerStays, TookTyped DEF IInv, Crash
<1>17. CASE LinkUp
  BY <1>17, LedgerStays, TookTyped DEF IInv, LinkUp
<1>18. CASE CheckInterrupted
  BY <1>18, LedgerStays, TookTyped DEF IInv, CheckInterrupted
<1>19. CASE UNCHANGED vars
  BY <1>19, LedgerStays, TookTyped DEF IInv, vars
<1> QED
  BY <1>1, <1>2, <1>3, <1>4, <1>5, <1>6, <1>7, <1>8, <1>9, <1>10, <1>11, <1>12, <1>13, <1>14,
     <1>15, <1>16, <1>17, <1>18, <1>19 DEF Next


-----------------------------------------------------------------------------
(* One nonce for all that is given to the host of a message. *)

\* Nothing of the message that a later offer could differ in has changed.
Steady(k) ==
    \/ /\ snap'[k] = snap[k]
       /\ run'[k].at \in {"offered", "taken"} => run'[k] = run[k]
       /\ row'[k] # "dispatched" => row[k] # "dispatched"
    \/ row'[k] = "dispatched" /\ run'[k].at \notin {"offered", "taken"}

LEMMA NonceStays ==
  ASSUME NonceInv, HandedOnce, UNCHANGED <<took, blind>>, \A k \in Msgs : Steady(k)
  PROVE  NonceInv' /\ HandedOnce'
<1>1. HandedOnce'
  BY DEF HandedOnce
<1> SUFFICES ASSUME NEW k \in Msgs
             PROVE  /\ run'[k].at \in {"offered", "taken"} => run'[k].nonce >= 1
                    /\ run'[k].at = "offered" /\ k \notin blind => run'[k].nonce = snap'[k]
                    /\ row'[k] # "dispatched" /\ k \notin blind =>
                         \A i \in DOMAIN took : took[i].msg = k => took[i].nonce = snap'[k]
  BY <1>1 DEF NonceInv
<1> QED
  BY DEF NonceInv, Steady

LEMMA EndsKeepsNonces ==
  ASSUME TypeOK, RunInv, NonceInv, HandedOnce, NEW m \in Msgs, Ends(m), snap' = snap \/ Retire(m)
  PROVE  NonceInv' /\ HandedOnce'
<1>1. run' = [run EXCEPT ![m] = Idle] /\ run \in [Msgs -> RunsUpTo(inst, nonces)]
  BY EndRunEnds, RunsTyped DEF Ends
<1>2. row \in [Msgs -> {"none", "held", "dispatching", "dispatched"}] /\ row[m] = "dispatching"
  BY DEF RunInv, TypeOK, Ends
<1>3. snap \in [Msgs -> 0..nonces]
  BY DEF TypeOK
<1>4. ASSUME NEW k \in Msgs, k # m PROVE Steady(k)
  <2>1. run'[k] = run[k] /\ row'[k] = row[k] /\ snap'[k] = snap[k]
    BY <1>1, <1>2, <1>3, <1>4 DEF Ends, Retire
  <2> QED
    BY <2>1 DEF Steady
<1>5. Steady(m)
  <2>1. run'[m].at = "idle"
    BY <1>1 DEF Idle
  <2>2. CASE snap' = snap
    BY <1>2, <2>1, <2>2 DEF Steady
  <2>3. CASE Retire(m)
    BY <1>2, <2>1, <2>3 DEF Steady, Retire
  <2> QED
    BY <2>2, <2>3
<1> QED
  BY <1>4, <1>5, NonceStays DEF Ends

LEMMA NoncesKept ==
  ASSUME JournalConstants, IInv, [Next]_vars
  PROVE  NonceInv' /\ HandedOnce'
<1>1. ASSUME NEW m \in Msgs, Claim(m) PROVE NonceInv' /\ HandedOnce'
  <2>1. row \in [Msgs -> {"none", "held", "dispatching", "dispatched"}]
        /\ run \in [Msgs -> RunsUpTo(inst, nonces)]
    BY TypeParts DEF IInv, LedgerTypes, TaskTypes
  <2>2. row[m] = "none"
    BY <1>1 DEF Claim, IInv, LedgerInv
  <2>3. ASSUME NEW k \in Msgs PROVE Steady(k)
    BY <1>1, <2>1, <2>2 DEF Steady, Claim
  <2> QED
    BY <1>1, <2>3, NonceStays DEF IInv, Claim
<1>2. ASSUME NEW m \in Msgs, Recall(m) PROVE NonceInv' /\ HandedOnce'
  BY <1>2, NonceStays DEF IInv, Steady, Recall
<1>3. ASSUME NEW m \in Msgs, ClaimThenCrash(m) PROVE NonceInv' /\ HandedOnce'
  <2>1. row \in [Msgs -> {"none", "held", "dispatching", "dispatched"}]
    BY TypeParts DEF IInv, LedgerTypes
  <2>2. row[m] = "none"
    BY <1>3 DEF ClaimThenCrash, IInv, LedgerInv
  <2>3. ASSUME NEW k \in Msgs PROVE Steady(k)
    BY <1>3, <2>1, <2>2 DEF Steady, ClaimThenCrash, Idle
  <2> QED
    BY <1>3, <2>3, NonceStays DEF IInv, ClaimThenCrash
<1>4. ASSUME NEW m \in Msgs, Enter(m) PROVE NonceInv' /\ HandedOnce'
  <2>1. CASE m \in recalled \/ (Ready /\ blocked)
    <3>1. run[m] # Idle /\ EndRun(m) /\ (snap' = snap \/ Retire(m))
      BY <1>4, <2>1 DEF Enter, Idle
    <3>2. Ends(m)
      BY <1>4, <2>1, <3>1 DEF Enter, Ends, Retire
    <3> QED
      BY <3>1, <3>2, EndsKeepsNonces DEF IInv
  <2>2. CASE m \notin recalled /\ ~(Ready /\ blocked)
    <3>1. UNCHANGED <<row, snap, took, blind>> /\ \A k \in Msgs \ {m} : run'[k] = run[k]
      BY <1>4, <2>2, RunsTyped DEF Enter, IInv
    <3>2. run'[m].at = "prep"
      BY <1>4, <2>2, RunsTyped DEF Enter, IInv, RunsUpTo
    <3>3. ASSUME NEW k \in Msgs PROVE Steady(k)
      BY <3>1, <3>2 DEF Steady
    <3> QED
      BY <3>1, <3>3, NonceStays DEF IInv
  <2> QED
    BY <2>1, <2>2
<1>5. ASSUME NEW m \in Msgs, Offer(m) PROVE NonceInv' /\ HandedOnce'
  <2>1. CASE m \in recalled
    <3>1. run[m] # Idle /\ EndRun(m) /\ Retire(m)
      BY <1>5, <2>1 DEF Offer, Idle
    <3>2. Ends(m)
      BY <1>5, <2>1, <3>1 DEF Offer, Ends, Retire
    <3> QED
      BY <3>1, <3>2, EndsKeepsNonces DEF IInv
  <2>2. CASE m \notin recalled
    <3>1. /\ UNCHANGED <<row, took>>
          /\ \A k \in Msgs \ {m} :
               run'[k] = run[k] /\ snap'[k] = snap[k] /\ (k \in blind' <=> k \in blind)
      BY <1>5, <2>2, RunsTyped DEF Offer, IInv, TypeOK
    <3>2. run'[m].at = "offered" /\ run'[m].nonce = Nonce(m)
      BY <1>5, <2>2, RunsTyped DEF Offer, IInv, RunsUpTo
    <3>3. Nonce(m) >= 1
      <4>1. snap[m] \in 0..nonces /\ nonces \in Nat
        BY TypeParts DEF LedgerTypes, IInv
      <4> QED
        BY <4>1 DEF Nonce
    <3>4. m \notin blind' => Ready /\ m \notin blind /\ snap'[m] = Nonce(m)
      BY <1>5, <2>2 DEF Offer, IInv, TypeOK
    <3>5. ASSUME m \notin blind', NEW i \in DOMAIN took, took[i].msg = m
          PROVE  took[i].nonce = snap'[m]
      <4>1. row[m] = "dispatching"
        BY <1>5 DEF IInv, RunInv, Offer, Idle
      <4>2. took[i].nonce = snap[m]
        BY <3>4, <3>5, <4>1 DEF IInv, NonceInv
      <4>3. snap[m] # 0
        BY <4>2, TookTyped DEF IInv
      <4> QED
        BY <3>4, <3>5, <4>2, <4>3 DEF Nonce
    <3>6. blind \subseteq blind'
      BY <1>5, <2>2 DEF Offer
    <3>7. HandedOnce'
      BY <3>1, <3>6 DEF IInv, HandedOnce
    <3>8. NonceInv'
      <4> SUFFICES ASSUME NEW k \in Msgs
                   PROVE  /\ run'[k].at \in {"offered", "taken"} => run'[k].nonce >= 1
                          /\ run'[k].at = "offered" /\ k \notin blind' => run'[k].nonce = snap'[k]
                          /\ row'[k] # "dispatched" /\ k \notin blind' =>
                               \A i \in DOMAIN took : took[i].msg = k => took[i].nonce = snap'[k]
        BY <3>1 DEF NonceInv
      <4>1. CASE k = m
        BY <3>2, <3>3, <3>4, <3>5, <4>1
      <4>2. CASE k # m
        BY <3>1, <4>2 DEF IInv, NonceInv
      <4> QED
        BY <4>1, <4>2
    <3> QED
      BY <3>7, <3>8
  <2> QED
    BY <2>1, <2>2
<1>6. ASSUME NEW m \in Msgs, HostTakes(m) PROVE NonceInv' /\ HandedOnce'
  <2> DEFINE e == [msg |-> m, nonce |-> run[m].nonce]
  <2>1. took' = Append(took, e) /\ UNCHANGED <<row, snap, blind>>
    BY <1>6 DEF HostTakes
  <2>2. /\ run'[m].at = "taken" /\ run'[m].nonce = run[m].nonce
        /\ \A k \in Msgs \ {m} : run'[k] = run[k]
    BY <1>6, RunsTyped DEF HostTakes, IInv, RunsUpTo
  <2>3. row[m] = "dispatching" /\ run[m].nonce >= 1 /\ (m \notin blind => run[m].nonce = snap[m])
    BY <1>6 DEF IInv, RunInv, NonceInv, HostTakes, Idle
  <2>4. took \in Seq([msg : Msgs, nonce : 1..nonces])
    BY DEF IInv, TypeOK
  <2>5. \A i \in DOMAIN took' : took'[i] = e \/ (i \in DOMAIN took /\ took'[i] = took[i])
    BY <2>1, <2>4
  <2>6. ASSUME m \notin blind, NEW i \in DOMAIN took', took'[i].msg = m
        PROVE  took'[i].nonce = snap[m]
    BY <2>3, <2>5, <2>6 DEF IInv, NonceInv
  <2>7. HandedOnce'
    BY <2>1, <2>5, <2>6 DEF IInv, HandedOnce
  <2>8. NonceInv'
    <3> SUFFICES ASSUME NEW k \in Msgs
                 PROVE  /\ run'[k].at \in {"offered", "taken"} => run'[k].nonce >= 1
                        /\ run'[k].at = "offered" /\ k \notin blind => run'[k].nonce = snap[k]
                        /\ row[k] # "dispatched" /\ k \notin blind =>
                             \A i \in DOMAIN took' : took'[i].msg = k => took'[i].nonce = snap[k]
      BY <2>1 DEF NonceInv
    <3>1. CASE k = m
      BY <2>2, <2>3, <2>6, <3>1
    <3>2. CASE k # m
      BY <2>2, <2>5, <3>2 DEF IInv, NonceInv
    <3> QED
      BY <3>1, <3>2
  <2> QED
    BY <2>7, <2>8
<1>7. ASSUME NEW m \in Msgs, Record(m) PROVE NonceInv' /\ HandedOnce'
  <2>1. snap' = snap
    BY <1>7 DEF Record
  <2> QED
    BY <1>7, <2>1, RecordIs, EndsKeepsNonces DEF IInv
<1>8. ASSUME NEW m \in Msgs, FailRun(m) PROVE NonceInv' /\ HandedOnce'
  <2>1. snap' = snap
    BY <1>8 DEF FailRun
  <2> QED
    BY <1>8, <2>1, FailIs, EndsKeepsNonces DEF IInv
<1>9. ASSUME NEW m \in hosting, NEW o \in {"success", "other"}, HostEnds(m, o)
      PROVE  NonceInv' /\ HandedOnce'
  BY <1>9, NonceStays DEF IInv, Steady, HostEnds
<1>10. CASE DrainStarts
  BY <1>10, NonceStays DEF IInv, Steady, DrainStarts
<1>11. CASE DrainStep
  <2>1. UNCHANGED <<took, blind>>
    BY <1>11 DEF DrainStep
  <2>2. CASE blocked \/ NextRow = NoMsg
    BY <1>11, <2>1, <2>2, NonceStays DEF DrainStep, IInv, Steady
  <2>3. CASE ~blocked /\ NextRow # NoMsg
    <3> DEFINE m == NextRow
    <3>1. m \in Msgs /\ DrainRow(m) /\ Open(m)
      BY <1>11, <2>3, NextRowIsFirst DEF IInv, DrainStep
    <3> HIDE DEF m
    <3>2. /\ row \in [Msgs -> {"none", "held", "dispatching", "dispatched"}]
          /\ snap \in [Msgs -> 0..nonces] /\ run \in [Msgs -> RunsUpTo(inst, nonces)]
      BY TypeParts DEF IInv, LedgerTypes, TaskTypes
    <3>3. run[m].at \in {"offered", "taken"} => m \notin recalled
      <4>1. run[m].by # "drain"
        BY <1>11, <3>1 DEF DrainStep, IInv, RunInv, JournalConstants
      <4>2. run[m].by \in {"nobody", "lane", "drain"}
        BY <3>1, <3>2 DEF RunsUpTo
      <4> QED
        BY <3>1, <4>1, <4>2 DEF IInv, RunInv, Idle
    <3>4. ASSUME NEW k \in Msgs PROVE Steady(k)
      <4>1. CASE m \in recalled
        BY <3>1, <3>2, <3>3, <4>1 DEF Steady, DrainRow, Retire
      <4>2. CASE m \notin recalled
        BY <3>1, <3>2, <4>2 DEF Steady, DrainRow, Open, Idle
      <4> QED
        BY <4>1, <4>2
    <3> QED
      BY <2>1, <3>4, NonceStays DEF IInv
  <2> QED
    BY <2>2, <2>3
<1>12. CASE Block
  BY <1>12, NonceStays DEF IInv, Steady, Block
<1>13. CASE Unblock
  BY <1>13, NonceStays DEF IInv, Steady, Unblock
<1>14. CASE Deadline
  BY <1>14, NonceStays DEF IInv, Steady, Deadline
<1>15. CASE LinkDrops
  <2>1. ASSUME NEW k \in Msgs PROVE Steady(k)
    BY <1>15 DEF Steady, LinkDrops, Idle
  <2> QED
    BY <1>15, <2>1, NonceStays DEF IInv, LinkDrops
<1>16. CASE Crash
  <2>1. ASSUME NEW k \in Msgs PROVE Steady(k)
    BY <1>16 DEF Steady, Crash, Idle
  <2> QED
    BY <1>16, <2>1, NonceStays DEF IInv, Crash
<1>17. CASE LinkUp
  BY <1>17, NonceStays DEF IInv, Steady, LinkUp
<1>18. CASE CheckInterrupted
  BY <1>18, NonceStays DEF IInv, Steady, CheckInterrupted
<1>19. CASE UNCHANGED vars
  BY <1>19, NonceStays DEF IInv, Steady, vars
<1> QED
  BY <1>1, <1>2, <1>3, <1>4, <1>5, <1>6, <1>7, <1>8, <1>9, <1>10, <1>11, <1>12, <1>13, <1>14,
     <1>15, <1>16, <1>17, <1>18, <1>19 DEF Next


-----------------------------------------------------------------------------
(* A cut-off turn is reported once. *)

LEMMA ToldStays ==
  ASSUME ToldInv, told' = told,
         \A k \in Msgs : row[k] = "dispatched" =>
           row'[k] = "dispatched" /\ (k \in notified => k \in notified')
  PROVE  ToldInv'
BY DEF ToldInv

LEMMA EndsKeepsTold ==
  ASSUME TypeOK, RunInv, ToldInv, NEW m \in Msgs, Ends(m), notified \ {m} \subseteq notified'
  PROVE  ToldInv'
<1>1. row[m] = "dispatching" /\ told' = told
  BY DEF RunInv, Ends
<1>2. \A k \in Msgs \ {m} : row'[k] = row[k]
  BY DEF Ends, TypeOK
<1> QED
  BY <1>1, <1>2, ToldStays

LEMMA ToldKept ==
  ASSUME JournalConstants, IInv, [Next]_vars
  PROVE  ToldInv'
<1>1. ASSUME NEW m \in Msgs, Claim(m) PROVE ToldInv'
  <2>1. row \in [Msgs -> {"none", "held", "dispatching", "dispatched"}] /\ row[m] = "none"
    BY <1>1, TypeParts DEF Claim, IInv, LedgerInv, LedgerTypes
  <2> QED
    BY <1>1, <2>1, ToldStays DEF IInv, Claim
<1>2. ASSUME NEW m \in Msgs, Recall(m) PROVE ToldInv'
  BY <1>2, ToldStays DEF IInv, Recall
<1>3. ASSUME NEW m \in Msgs, ClaimThenCrash(m) PROVE ToldInv'
  <2>1. row \in [Msgs -> {"none", "held", "dispatching", "dispatched"}] /\ row[m] = "none"
    BY <1>3, TypeParts DEF ClaimThenCrash, IInv, LedgerInv, LedgerTypes
  <2> QED
    BY <1>3, <2>1, ToldStays DEF IInv, ClaimThenCrash
<1>4. ASSUME NEW m \in Msgs, Enter(m) PROVE ToldInv'
  <2>1. notified' = notified /\ told' = told
    BY <1>4 DEF Enter
  <2>2. CASE Goes(m)
    BY <2>1, <2>2, ToldStays DEF IInv, Goes
  <2> QED
    BY <1>4, <2>1, <2>2, EnterIs, EndsKeepsTold DEF IInv
<1>5. ASSUME NEW m \in Msgs, Offer(m) PROVE ToldInv'
  <2>1. notified' = notified /\ told' = told
    BY <1>5 DEF Offer
  <2>2. CASE Goes(m)
    BY <2>1, <2>2, ToldStays DEF IInv, Goes
  <2> QED
    BY <1>5, <2>1, <2>2, OfferIs, EndsKeepsTold DEF IInv
<1>6. ASSUME NEW m \in Msgs, HostTakes(m) PROVE ToldInv'
  BY <1>6, ToldStays DEF IInv, HostTakes
<1>7. ASSUME NEW m \in Msgs, Record(m) PROVE ToldInv'
  <2>1. notified \ {m} \subseteq notified'
    BY <1>7 DEF Record
  <2> QED
    BY <1>7, <2>1, RecordIs, EndsKeepsTold DEF IInv
<1>8. ASSUME NEW m \in Msgs, FailRun(m) PROVE ToldInv'
  <2>1. notified \ {m} \subseteq notified'
    BY <1>8 DEF FailRun
  <2> QED
    BY <1>8, <2>1, FailIs, EndsKeepsTold DEF IInv
<1>9. ASSUME NEW m \in hosting, NEW o \in {"success", "other"}, HostEnds(m, o) PROVE ToldInv'
  BY <1>9, ToldStays DEF IInv, HostEnds
<1>10. CASE DrainStarts
  BY <1>10, ToldStays DEF IInv, DrainStarts
<1>11. CASE DrainStep
  <2>1. UNCHANGED <<told, notified>>
    BY <1>11 DEF DrainStep
  <2>2. ASSUME NEW k \in Msgs, row[k] = "dispatched" PROVE row'[k] = "dispatched"
    <3>1. CASE row' = row
      BY <2>2, <3>1
    <3>2. CASE row' # row
      <4>1. NextRow # NoMsg /\ DrainRow(NextRow)
        BY <1>11, <3>2 DEF DrainStep
      <4>2. PICK m \in Msgs, st \in {"dispatching", "dispatched"} :
              Open(m) /\ row' = [row EXCEPT ![m] = st]
        BY <3>2, <4>1, NextRowIsFirst DEF IInv, DrainRow, Retire
      <4> QED
        BY <2>2, <4>2, TookTyped DEF Open, IInv
    <3> QED
      BY <3>1, <3>2
  <2> QED
    BY <2>1, <2>2, ToldStays DEF IInv
<1>12. CASE Block
  BY <1>12, ToldStays DEF IInv, Block
<1>13. CASE Unblock
  BY <1>13, ToldStays DEF IInv, Unblock
<1>14. CASE Deadline
  BY <1>14, ToldStays DEF IInv, Deadline
<1>15. CASE LinkDrops
  BY <1>15, ToldStays DEF IInv, LinkDrops
<1>16. CASE Crash
  BY <1>16, ToldStays DEF IInv, Crash
<1>17. CASE LinkUp
  BY <1>17, ToldStays DEF IInv, LinkUp
<1>18. CASE CheckInterrupted
  <2>1. told \in [Msgs -> Nat] /\ row' = row
    BY <1>18 DEF CheckInterrupted, IInv, TypeOK
  <2>2. ASSUME NEW k \in Interrupted PROVE k \in Msgs /\ told[k] = 0 /\ row[k] = "dispatched"
    BY <2>1 DEF Interrupted, IInv, ToldInv
  <2>3. notified' = notified \cup Interrupted
    BY <1>18 DEF CheckInterrupted
  <2>4. CASE told' = told
    BY <2>1, <2>3, <2>4, ToldStays DEF IInv
  <2>5. ASSUME NEW k \in Interrupted, told' = [told EXCEPT ![k] = @ + 1] PROVE ToldInv'
    BY <2>1, <2>2, <2>3, <2>5 DEF IInv, ToldInv
  <2> QED
    BY <1>18, <2>4, <2>5 DEF CheckInterrupted
<1>19. CASE UNCHANGED vars
  BY <1>19, ToldStays DEF IInv, vars
<1> QED
  BY <1>1, <1>2, <1>3, <1>4, <1>5, <1>6, <1>7, <1>8, <1>9, <1>10, <1>11, <1>12, <1>13, <1>14,
     <1>15, <1>16, <1>17, <1>18, <1>19 DEF Next


-----------------------------------------------------------------------------
(* In calm every open row has somebody. *)

\* The steps in calm.
CalmStep ==
    \/ \E m \in Msgs : \/ Claim(m) \/ Recall(m) \/ Enter(m) \/ Offer(m) \/ HostTakes(m)
                       \/ Record(m)
    \/ \E m \in hosting, o \in {"success", "other"} : HostEnds(m, o)
    \/ DrainStarts \/ DrainStep \/ Block \/ Unblock \/ CheckInterrupted \/ UNCHANGED vars

LEMMA NoneIsLeft ==
  ASSUME NEW a \in Nat, NEW b \in Nat, NEW c \in Nat, a + b + c = 0
  PROVE  a = 0
OBVIOUS

LEMMA CalmSteps ==
  ASSUME IInv, [Next]_vars, Calm'
  PROVE  CalmStep /\ Calm /\ OwnedInv /\ FirstInv
<1>1. fails \in Nat /\ drops \in Nat /\ crashes \in Nat
  BY DEF IInv, TypeOK
<1>2. CASE CalmStep
  <2>1. UNCHANGED <<fails, drops, crashes, late>>
    BY <1>2 DEF CalmStep, Claim, Recall, Enter, Offer, HostTakes, Record, HostEnds, DrainStarts,
                DrainStep, Block, Unblock, CheckInterrupted, vars
  <2> QED
    BY <1>2, <2>1 DEF IInv, CalmInv, Calm
<1>3. CASE Deadline \/ LinkDrops \/ Crash \/ \E m \in Msgs : ClaimThenCrash(m) \/ FailRun(m)
  BY <1>1, <1>3 DEF Deadline, LinkDrops, Crash, ClaimThenCrash, FailRun, Calm
<1>4. CASE LinkUp
  <2>1. link # "up" /\ Calm
    BY <1>4 DEF LinkUp, Calm
  <2> QED
    BY <2>1 DEF IInv, CalmInv, OwnedInv
<1> QED
  BY <1>2, <1>3, <1>4 DEF Next, CalmStep

LEMMA GoesKeepsOwned ==
  ASSUME TypeOK, OwnedInv, NEW m \in Msgs, Goes(m)
  PROVE  OwnedInv'
<1>1. PICK r \in RunsUpTo(inst, nonces') : run' = [run EXCEPT ![m] = r] /\ r.at # "idle"
  BY DEF Goes
<1>2. \A k \in Msgs : run[k] # Idle => run'[k] # Idle
  BY <1>1, RunsTyped DEF Idle
<1> QED
  BY <1>2 DEF Goes, OwnedInv, Draining

LEMMA EndsKeepsOwned ==
  ASSUME TypeOK, RunInv, OwnedInv, NEW m \in Msgs, Ends(m), fails' = 0
  PROVE  OwnedInv'
<1>1. run' = [run EXCEPT ![m] = Idle] /\ run \in [Msgs -> RunsUpTo(inst, nonces)]
  BY EndRunEnds, RunsTyped DEF Ends
<1>2. row \in [Msgs -> {"none", "held", "dispatching", "dispatched"}] /\ row[m] = "dispatching"
  BY DEF RunInv, TypeOK, Ends
<1>3. /\ \A k \in Msgs \ {m} : row'[k] = row[k] /\ run'[k] = run[k]
      /\ (row'[m] = "held" /\ blocked) \/ row'[m] = "dispatched"
  <2>1. link = "up"
    BY DEF OwnedInv
  <2>2. \/ row' = [row EXCEPT ![m] = "held"] /\ blocked
        \/ row' = [row EXCEPT ![m] = "dispatched"]
    BY <2>1 DEF Ends
  <2> QED
    BY <1>1, <1>2, <2>2
<1>4. link' = link /\ blocked' = blocked /\ waiting' = waiting
  BY EndRunEnds DEF Ends
<1>5. drain.on => drain'.on \/ blocked
  BY EndRunEnds DEF Ends
<1>6. \A k \in Msgs : row'[k] = "held" => blocked' \/ Draining'
  BY <1>3, <1>4, <1>5 DEF OwnedInv, Draining
<1>7. ASSUME drain'.on, NEW k \in drain'.tried
      PROVE  row'[k] = "dispatched" \/ drain'.cur = k
  <2>1. /\ drain.on /\ drain'.tried = drain.tried
        /\ drain'.cur = drain.cur \/ (drain.cur = m /\ ~blocked)
    BY <1>7, EndRunEnds DEF Ends
  <2>2. k \in Msgs
    BY <1>7, <2>1 DEF TypeOK
  <2>3. row[k] = "dispatched" \/ drain.cur = k
    BY <1>7, <2>1 DEF OwnedInv
  <2> QED
    BY <1>2, <1>3, <2>1, <2>2, <2>3
<1> QED
  BY <1>2, <1>3, <1>4, <1>6, <1>7 DEF OwnedInv

LEMMA ClaimKeepsOwned ==
  ASSUME TypeOK, RunInv, LedgerInv, OwnedInv, NEW m \in Msgs, Claim(m)
  PROVE  OwnedInv'
<1>1. row[m] = "none" /\ row \in [Msgs -> {"none", "held", "dispatching", "dispatched"}]
      /\ run \in [Msgs -> RunsUpTo(inst, nonces)] /\ drain.tried \subseteq Msgs
  BY RunsTyped DEF Claim, LedgerInv, TypeOK
<1>2. UNCHANGED <<link, blocked, drain, waiting>>
  BY DEF Claim
<1>3. CASE blocked \/ Draining
  <2>1. row' = [row EXCEPT ![m] = "held"] /\ run' = run
    BY <1>3 DEF Claim
  <2> QED
    BY <1>1, <1>2, <1>3, <2>1 DEF OwnedInv, Draining
<1>4. CASE ~(blocked \/ Draining)
  <2>1. /\ row' = [row EXCEPT ![m] = "dispatching"]
        /\ run' = [run EXCEPT ![m] = [by |-> "lane", at |-> "route", inst |-> inst,
                                      nonce |-> 0]]
    BY <1>4 DEF Claim
  <2> QED
    BY <1>1, <1>2, <2>1 DEF OwnedInv, Draining, Idle
<1> QED
  BY <1>3, <1>4

LEMMA DrainKeepsOwned ==
  ASSUME JournalConstants, TypeOK, RunInv, LedgerInv, OwnedInv, DrainStep
  PROVE  OwnedInv'
<1>1. drain.on /\ drain.cur = NoMsg /\ link' = link /\ blocked' = blocked
  BY DEF DrainStep
<1>2. /\ row \in [Msgs -> {"none", "held", "dispatching", "dispatched"}]
      /\ run \in [Msgs -> RunsUpTo(inst, nonces)]
      /\ drain \in [on : BOOLEAN, tried : SUBSET Msgs, cur : Msgs \cup {NoMsg}]
  BY RunsTyped DEF TypeOK
<1>3. \A k \in drain.tried : k \in Msgs /\ row[k] = "dispatched"
  BY <1>1, <1>2 DEF OwnedInv, JournalConstants
<1>4. CASE blocked
  <2>1. drain' = DrainOff /\ UNCHANGED <<row, run>>
    BY <1>4 DEF DrainStep
  <2> QED
    BY <1>1, <1>4, <2>1 DEF OwnedInv, DrainOff
<1>5. CASE NextRow = NoMsg
  <2>1. drain' = DrainOff /\ UNCHANGED <<row, run>>
    BY <1>5 DEF DrainStep
  <2>2. \A k \in Msgs : ~Open(k)
    BY <1>3, <1>5, NoRowIsLeft DEF Open, LedgerInv
  <2> QED
    BY <1>1, <2>1, <2>2 DEF OwnedInv, DrainOff, Open
<1>6. CASE ~blocked /\ NextRow # NoMsg
  <2> DEFINE m == NextRow
  <2>1. m \in Msgs /\ DrainRow(m)
    BY <1>6, NextRowIsFirst DEF DrainStep
  <2> HIDE DEF m
  <2>3. CASE row' = [row EXCEPT ![m] = "dispatched"] /\ run' = run /\ Tried(m)
    <3>1. drain'.on /\ drain'.tried = drain.tried \cup {m}
      BY <1>1, <1>2, <2>3 DEF Tried
    <3> QED
      BY <1>1, <1>2, <1>3, <2>1, <2>3, <3>1 DEF OwnedInv, Draining
  <2>4. CASE /\ row' = [row EXCEPT ![m] = "dispatching"]
             /\ run' = [run EXCEPT ![m] = [by |-> "drain", at |-> "route", inst |-> inst,
                                           nonce |-> 0]]
             /\ drain' = [drain EXCEPT !.tried = @ \cup {m}, !.cur = m]
    <3>1. drain'.on /\ drain'.tried = drain.tried \cup {m} /\ drain'.cur = m
      BY <1>1, <1>2, <2>4
    <3> QED
      BY <1>1, <1>2, <1>3, <2>1, <2>4, <3>1 DEF OwnedInv, Draining, Idle
  <2>5. CASE drain' = DrainOff /\ waiting' = TRUE /\ UNCHANGED <<row, run>>
    BY <1>1, <2>5 DEF OwnedInv, DrainOff, Draining
  <2> QED
    BY <2>1, <2>3, <2>4, <2>5 DEF DrainRow, Retire
<1> QED
  BY <1>4, <1>5, <1>6

LEMMA OwnedKept ==
  ASSUME JournalConstants, IInv, CalmStep, Calm', OwnedInv
  PROVE  OwnedInv'
<1>1. fails' = 0
  <2>1. fails' \in Nat /\ drops' \in Nat /\ crashes' \in Nat
    BY DEF IInv, TypeOK, CalmStep, Claim, Recall, Enter, Offer, HostTakes, Record, HostEnds,
           DrainStarts, DrainStep, Block, Unblock, CheckInterrupted, vars
  <2>2. fails' + drops' + crashes' = 0
    BY DEF Calm
  <2> QED
    BY <2>1, <2>2, NoneIsLeft
<1>2. ASSUME NEW m \in Msgs, Claim(m) PROVE OwnedInv'
  BY <1>2, ClaimKeepsOwned DEF IInv
<1>3. ASSUME NEW m \in Msgs, Enter(m) \/ Offer(m) \/ HostTakes(m) \/ Record(m) PROVE OwnedInv'
  <2>1. Goes(m) \/ Ends(m)
    BY <1>3, EnterIs, OfferIs, TakesIs, RecordIs DEF IInv
  <2> QED
    BY <1>1, <2>1, GoesKeepsOwned, EndsKeepsOwned DEF IInv
<1>4. ASSUME NEW m \in Msgs, Recall(m) PROVE OwnedInv'
  BY <1>4 DEF Recall, OwnedInv, Draining
<1>5. ASSUME NEW m \in hosting, NEW o \in {"success", "other"}, HostEnds(m, o) PROVE OwnedInv'
  BY <1>5 DEF HostEnds, OwnedInv, Draining
<1>6. ASSUME DrainStarts \/ Unblock PROVE OwnedInv'
  <2>1. UNCHANGED <<row, run, link>> /\ drain'.on
    BY <1>6 DEF DrainStarts, Unblock, DrainOff
  <2>2. drain' = drain \/ drain'.tried = {}
    BY <1>6 DEF DrainStarts, Unblock, DrainOff
  <2> QED
    BY <2>1, <2>2 DEF OwnedInv, Draining
<1>7. CASE DrainStep
  BY <1>7, DrainKeepsOwned DEF IInv
<1>8. CASE Block
  BY <1>8 DEF Block, OwnedInv, Draining
<1>9. CASE CheckInterrupted \/ UNCHANGED vars
  BY <1>9 DEF CheckInterrupted, vars, OwnedInv, Draining
<1> QED
  BY <1>2, <1>3, <1>4, <1>5, <1>6, <1>7, <1>8, <1>9 DEF CalmStep

-----------------------------------------------------------------------------
(* In calm the host takes the messages in the order of the ledger. *)

LEMMA FirstStays ==
  ASSUME FirstInv, claimed' = claimed, took' = took,
         \A k \in Msgs : ToCome(k)' => ToCome(k) /\ (run'[k] # Idle => run[k] # Idle)
  PROVE  FirstInv'
<1>1. \A a, b \in Msgs : (Ahead(a, b)' <=> Ahead(a, b)) /\ (Taken(a)' <=> Taken(a))
  BY DEF Ahead, Taken
<1> QED
  BY <1>1 DEF FirstInv

LEMMA EndsKeepsFirst ==
  ASSUME TypeOK, RunInv, OwnedInv, FirstInv, NEW m \in Msgs, Ends(m), fails' = 0
  PROVE  FirstInv'
<1>1. run' = [run EXCEPT ![m] = Idle] /\ run \in [Msgs -> RunsUpTo(inst, nonces)]
  BY EndRunEnds, RunsTyped DEF Ends
<1>2. row \in [Msgs -> {"none", "held", "dispatching", "dispatched"}] /\ row[m] = "dispatching"
  BY DEF RunInv, TypeOK, Ends
<1>3. run[m] # Idle /\ claimed' = claimed /\ took' = took
  BY DEF Ends
<1>4. \/ row' = [row EXCEPT ![m] = "held"] /\ run[m].at = "route"
      \/ row' = [row EXCEPT ![m] = "dispatched"]
  BY DEF Ends, OwnedInv
<1>5. \A k \in Msgs : ToCome(k)' => ToCome(k) /\ (run'[k] # Idle => run[k] # Idle)
  BY <1>1, <1>2, <1>3, <1>4 DEF ToCome, Open
<1> QED
  BY <1>3, <1>5, FirstStays

LEMMA ClaimKeepsFirst ==
  ASSUME TypeOK, RunInv, LedgerInv, OwnedInv, FirstInv, NEW m \in Msgs, Claim(m)
  PROVE  FirstInv'
<1>1. /\ row[m] = "none" /\ m \notin ToSet(claimed) /\ took' = took /\ LaneFree
      /\ claimed' = Append(claimed, m) /\ run[m] = Idle
      /\ row \in [Msgs -> {"none", "held", "dispatching", "dispatched"}]
      /\ run \in [Msgs -> RunsUpTo(inst, nonces)] /\ claimed \in Seq(Msgs)
  BY RunsTyped DEF Claim, LedgerInv, TypeOK, RunInv
<1>2. /\ DOMAIN claimed' = DOMAIN claimed \cup {Len(claimed) + 1}
      /\ claimed'[Len(claimed) + 1] = m
      /\ \A i \in DOMAIN claimed : /\ i < Len(claimed) + 1
                                   /\ claimed'[i] = claimed[i] /\ claimed[i] # m
  BY <1>1, AppendIndexes DEF ToSet
<1>3. ASSUME NEW a \in Msgs, NEW b \in Msgs, a # m, b = m \/ Ahead(a, b) PROVE Ahead(a, b)'
  <2> SUFFICES ASSUME NEW k \in DOMAIN claimed', NEW l \in DOMAIN claimed',
                      claimed'[k] = a, claimed'[l] = b
               PROVE  k < l
    BY DEF Ahead
  <2>1. k \in DOMAIN claimed /\ claimed[k] = a
    BY <1>2, <1>3
  <2>2. CASE b = m
    BY <1>2, <2>1, <2>2
  <2>3. CASE b # m
    <3>1. l \in DOMAIN claimed /\ claimed[l] = b
      BY <1>2, <2>3
    <3> QED
      BY <1>3, <2>1, <2>3, <3>1 DEF Ahead
  <2> QED
    BY <2>2, <2>3
<1>4. \A a \in Msgs : Taken(a)' => Taken(a) /\ a # m
  BY <1>1, TookTyped DEF Taken, LedgerInv
<1>5. \A k \in Msgs \ {m} : row'[k] = row[k] /\ run'[k] = run[k]
  BY <1>1 DEF Claim
<1>6. \A k \in Msgs \ {m} : ToCome(k)' => ToCome(k)
  BY <1>5 DEF ToCome, Open
<1>7. \A a, b \in Msgs : Taken(a)' /\ ToCome(b)' => Ahead(a, b)'
  BY <1>3, <1>4, <1>6 DEF FirstInv
<1>8. ASSUME NEW a \in Msgs, NEW b \in Msgs, ToCome(a)', run'[a] # Idle, ToCome(b)', a # b
      PROVE  Ahead(a, b)'
  <2>1. CASE a = m
    <3>1. ~(blocked \/ Draining)
      BY <1>1, <1>8, <2>1 DEF Claim
    <3>2. Open(b) /\ run[b] # Idle
      BY <1>6, <1>8, <2>1, <3>1 DEF ToCome, Open, OwnedInv
    <3>3. run[b].by \in {"nobody", "lane", "drain"}
      BY <1>1 DEF RunsUpTo
    <3> QED
      BY <1>1, <3>1, <3>2, <3>3 DEF LaneFree, RunInv, Draining
  <2>2. CASE a # m
    <3>1. ToCome(a) /\ run[a] # Idle
      BY <1>5, <1>6, <1>8, <2>2
    <3>2. b = m \/ Ahead(a, b)
      BY <1>6, <1>8, <3>1 DEF FirstInv
    <3> QED
      BY <1>3, <2>2, <3>2
  <2> QED
    BY <2>1, <2>2
<1> QED
  BY <1>7, <1>8 DEF FirstInv

LEMMA TakesKeepsFirst ==
  ASSUME TypeOK, RunInv, LedgerInv, FirstInv, NEW m \in Msgs, HostTakes(m)
  PROVE  FirstInv'
<1>1. run[m] # Idle /\ row[m] = "dispatching" /\ ToCome(m)
  BY DEF HostTakes, Idle, RunInv, ToCome, Open
<1>2. UNCHANGED <<claimed, row>> /\ took' = Append(took, [msg |-> m, nonce |-> run[m].nonce])
  BY DEF HostTakes
<1>3. /\ run'[m].at = "taken" /\ \A k \in Msgs \ {m} : run'[k] = run[k]
  BY RunsTyped DEF HostTakes, RunsUpTo
<1>4. \A i \in DOMAIN took' : took'[i].msg = m \/ (i \in DOMAIN took /\ took'[i] = took[i])
  <2>1. took \in Seq([msg : Msgs, nonce : 1..nonces])
    BY DEF TypeOK
  <2> QED
    BY <1>2, <2>1
<1>5. \A k \in Msgs : ToCome(k)' => k # m /\ ToCome(k)
  BY <1>2, <1>3 DEF ToCome, Open
<1>6. \A k \in Msgs : Taken(k)' => k = m \/ Taken(k)
  BY <1>4 DEF Taken
<1>7. \A a, b \in Msgs : Ahead(a, b) => Ahead(a, b)'
  BY <1>2 DEF Ahead
<1>8. \A a, b \in Msgs : Taken(a)' /\ ToCome(b)' => Ahead(a, b)'
  BY <1>1, <1>5, <1>6, <1>7 DEF FirstInv
<1>9. \A a, b \in Msgs : ToCome(a)' /\ run'[a] # Idle /\ ToCome(b)' /\ a # b => Ahead(a, b)'
  BY <1>3, <1>5, <1>7 DEF FirstInv
<1> QED
  BY <1>8, <1>9 DEF FirstInv

LEMMA DrainKeepsFirst ==
  ASSUME JournalConstants, TypeOK, RunInv, LedgerInv, OwnedInv, FirstInv, DrainStep
  PROVE  FirstInv'
<1>1. drain.on /\ drain.cur = NoMsg /\ claimed' = claimed /\ took' = took
  BY DEF DrainStep
<1>2. /\ row \in [Msgs -> {"none", "held", "dispatching", "dispatched"}]
      /\ run \in [Msgs -> RunsUpTo(inst, nonces)] /\ drain.tried \subseteq Msgs
      /\ claimed \in Seq(Msgs)
  BY RunsTyped DEF TypeOK
<1>3. CASE UNCHANGED <<row, run>>
  BY <1>1, <1>3, FirstStays DEF ToCome, Open
<1>4. ASSUME NextRow # NoMsg, row' = [row EXCEPT ![NextRow] = "dispatched"], run' = run
      PROVE  FirstInv'
  <2>1. \A k \in Msgs : ToCome(k)' => ToCome(k)
    BY <1>2, <1>4 DEF ToCome, Open
  <2> QED
    BY <1>1, <1>4, <2>1, FirstStays
<1>5. ASSUME NextRow # NoMsg, run[NextRow] = Idle,
             row' = [row EXCEPT ![NextRow] = "dispatching"],
             run' = [run EXCEPT ![NextRow] = [by |-> "drain", at |-> "route", inst |-> inst,
                                              nonce |-> 0]]
      PROVE  FirstInv'
  <2> DEFINE m == NextRow
  <2>1. m \in Msgs /\ Open(m)
    BY <1>5, NextRowIsFirst
  <2>2. PICK n \in DOMAIN claimed : claimed[n] = m
          /\ \A l \in DOMAIN claimed : Open(claimed[l]) /\ claimed[l] \notin drain.tried => n <= l
    BY <1>5, NextRowIsFirst
  <2>3. /\ row' = [row EXCEPT ![m] = "dispatching"] /\ run[m] = Idle
        /\ run' = [run EXCEPT ![m] = [by |-> "drain", at |-> "route", inst |-> inst,
                                      nonce |-> 0]]
    BY <1>5
  <2> HIDE DEF m
  <2>4. \A k \in Msgs : (ToCome(k)' => ToCome(k)) /\ (k # m => run'[k] = run[k])
    BY <1>2, <2>1, <2>3 DEF ToCome, Open, Idle
  <2>5. \A a, b \in Msgs : (Ahead(a, b)' <=> Ahead(a, b)) /\ (Taken(a)' <=> Taken(a))
    BY <1>1 DEF Ahead, Taken
  <2>6. ASSUME NEW b \in Msgs, ToCome(b), b # m PROVE Ahead(m, b)
    <3>1. b \notin drain.tried
      BY <1>1, <2>6 DEF OwnedInv, ToCome, Open, JournalConstants
    <3> SUFFICES ASSUME NEW k \in DOMAIN claimed, NEW l \in DOMAIN claimed,
                        claimed[k] = m, claimed[l] = b
                 PROVE  k < l
      BY DEF Ahead
    <3>2. k = n /\ n <= l /\ n # l
      BY <2>2, <2>6, <3>1 DEF LedgerInv, ToCome
    <3>3. n \in Nat /\ l \in Nat
      BY <1>2
    <3> QED
      BY <3>2, <3>3
  <2>7. \A a, b \in Msgs : Taken(a)' /\ ToCome(b)' => Ahead(a, b)'
    BY <2>4, <2>5 DEF FirstInv
  <2>8. \A a, b \in Msgs : ToCome(a)' /\ run'[a] # Idle /\ ToCome(b)' /\ a # b => Ahead(a, b)'
    BY <2>4, <2>5, <2>6 DEF FirstInv
  <2> QED
    BY <2>7, <2>8 DEF FirstInv
<1>6. CASE blocked \/ NextRow = NoMsg
  BY <1>3, <1>6 DEF DrainStep
<1>7. CASE ~blocked /\ NextRow # NoMsg
  <2>1. DrainRow(NextRow)
    BY <1>7 DEF DrainStep
  <2> QED
    BY <1>3, <1>4, <1>5, <1>7, <2>1 DEF DrainRow, Retire
<1> QED
  BY <1>6, <1>7

LEMMA FirstKept ==
  ASSUME JournalConstants, IInv, CalmStep, Calm', OwnedInv, OwnedInv', FirstInv
  PROVE  FirstInv'
<1>1. fails' = 0
  <2>1. fails' \in Nat /\ drops' \in Nat /\ crashes' \in Nat
    BY DEF IInv, TypeOK, CalmStep, Claim, Recall, Enter, Offer, HostTakes, Record, HostEnds,
           DrainStarts, DrainStep, Block, Unblock, CheckInterrupted, vars
  <2>2. fails' + drops' + crashes' = 0
    BY DEF Calm
  <2> QED
    BY <2>1, <2>2, NoneIsLeft
<1>2. ASSUME NEW m \in Msgs, Claim(m) PROVE FirstInv'
  BY <1>2, ClaimKeepsFirst DEF IInv
<1>3. ASSUME NEW m \in Msgs, HostTakes(m) PROVE FirstInv'
  BY <1>3, TakesKeepsFirst DEF IInv
<1>4. ASSUME NEW m \in Msgs, Ends(m) PROVE FirstInv'
  BY <1>1, <1>4, EndsKeepsFirst DEF IInv
<1>5. ASSUME NEW m \in Msgs, Enter(m) \/ Offer(m), Goes(m) PROVE FirstInv'
  <2>1. run[m].at \in {"route", "prep"} /\ run[m] # Idle /\ UNCHANGED <<claimed, took, row>>
    BY <1>5 DEF Enter, Offer, Goes
  <2>2. \A k \in Msgs \ {m} : run'[k] = run[k]
    BY <1>5, RunsTyped DEF Goes, IInv
  <2>3. \A k \in Msgs : ToCome(k)' => ToCome(k) /\ (run'[k] # Idle => run[k] # Idle)
    BY <2>1, <2>2 DEF ToCome, Open
  <2> QED
    BY <2>1, <2>3, FirstStays
<1>6. ASSUME NEW m \in Msgs, Enter(m) \/ Offer(m) \/ Record(m) PROVE FirstInv'
  BY <1>4, <1>5, <1>6, EnterIs, OfferIs, RecordIs DEF IInv
<1>7. CASE DrainStep
  BY <1>7, DrainKeepsFirst DEF IInv
<1>8. ASSUME UNCHANGED <<claimed, took, row, run>> PROVE FirstInv'
  BY <1>8, FirstStays DEF ToCome, Open
<1>9. ASSUME NEW m \in Msgs, Recall(m) PROVE FirstInv'
  BY <1>8, <1>9 DEF Recall
<1>10. ASSUME NEW m \in hosting, NEW o \in {"success", "other"}, HostEnds(m, o) PROVE FirstInv'
  BY <1>8, <1>10 DEF HostEnds
<1>11. CASE DrainStarts \/ Block \/ Unblock \/ CheckInterrupted \/ UNCHANGED vars
  BY <1>8, <1>11 DEF DrainStarts, Block, Unblock, CheckInterrupted, vars
<1> QED
  BY <1>2, <1>3, <1>6, <1>7, <1>9, <1>10, <1>11 DEF CalmStep

LEMMA CalmKept ==
  ASSUME JournalConstants, IInv, [Next]_vars
  PROVE  CalmInv'
BY CalmSteps, OwnedKept, FirstKept DEF CalmInv

\* What the host takes was to come, so it was claimed after all it has taken.
LEMMA OrderKept ==
  ASSUME JournalConstants, IInv, [Next]_vars
  PROVE  LedgerOrder'
<1> SUFFICES ASSUME Calm',
                    NEW i \in DOMAIN took', NEW j \in DOMAIN took', i < j,
                    NEW k \in DOMAIN claimed', NEW l \in DOMAIN claimed',
                    took'[i].msg = claimed'[k], took'[j].msg = claimed'[l]
             PROVE  k < l
  BY DEF LedgerOrder, Calm
<1>1. CalmStep /\ Calm /\ FirstInv
  BY CalmSteps
<1>2. /\ took \in Seq([msg : Msgs, nonce : 1..nonces]) /\ claimed \in Seq(Msgs)
      /\ \A n \in DOMAIN took : took[n].msg \in ToSet(claimed) /\ took[n].msg \in Msgs
  BY TookTyped DEF IInv, LedgerInv, TypeOK
<1>3. \A a, b \in DOMAIN took : \A c, d \in DOMAIN claimed :
        a < b /\ took[a].msg = claimed[c] /\ took[b].msg = claimed[d] => c < d
  BY <1>1 DEF IInv, LedgerOrder, Calm
<1>4. CASE UNCHANGED <<claimed, took>>
  BY <1>3, <1>4
<1>5. ASSUME NEW m \in Msgs, Claim(m) PROVE k < l
  <2>1. m \notin ToSet(claimed) /\ claimed' = Append(claimed, m) /\ took' = took
    BY <1>5 DEF Claim
  <2>2. /\ DOMAIN claimed' = DOMAIN claimed \cup {Len(claimed) + 1}
        /\ claimed'[Len(claimed) + 1] = m
        /\ \A n \in DOMAIN claimed : claimed'[n] = claimed[n]
    BY <1>2, <2>1, AppendIndexes
  <2>3. took[i].msg # m /\ took[j].msg # m
    BY <1>2, <2>1
  <2>4. k \in DOMAIN claimed /\ l \in DOMAIN claimed
    BY <2>1, <2>2, <2>3
  <2> QED
    BY <1>3, <2>1, <2>2, <2>4
<1>6. ASSUME NEW m \in Msgs, HostTakes(m) PROVE k < l
  <2>1. run[m] # Idle /\ ToCome(m) /\ claimed' = claimed
    BY <1>6 DEF HostTakes, Idle, RunInv, ToCome, Open, IInv
  <2>2. took' = Append(took, [msg |-> m, nonce |-> run[m].nonce])
    BY <1>6 DEF HostTakes
  <2>3. /\ DOMAIN took' = DOMAIN took \cup {Len(took) + 1} /\ took'[Len(took) + 1].msg = m
        /\ \A n \in DOMAIN took : n < Len(took) + 1 /\ took'[n] = took[n] /\ n \in Nat
        /\ Len(took) \in Nat
    BY <1>2, <2>2
  <2>4. i \in DOMAIN took
    BY <2>3
  <2>5. CASE j \in DOMAIN took
    BY <1>3, <2>1, <2>3, <2>4, <2>5
  <2>6. CASE j = Len(took) + 1
    <3>1. Taken(claimed[k]) /\ claimed[k] \in Msgs /\ claimed[l] = m
      BY <1>2, <2>1, <2>3, <2>4, <2>6 DEF Taken
    <3>2. Ahead(claimed[k], m)
      BY <1>1, <2>1, <3>1 DEF FirstInv
    <3> QED
      BY <2>1, <3>1, <3>2 DEF Ahead
  <2> QED
    BY <2>3, <2>5, <2>6
<1>7. ASSUME NEW m \in Msgs, Recall(m) \/ Enter(m) \/ Offer(m) \/ Record(m) PROVE k < l
  BY <1>4, <1>7 DEF Recall, Enter, Offer, Record
<1>8. ASSUME NEW m \in hosting, NEW o \in {"success", "other"}, HostEnds(m, o) PROVE k < l
  BY <1>4, <1>8 DEF HostEnds
<1>9. CASE DrainStarts \/ DrainStep \/ Block \/ Unblock \/ CheckInterrupted \/ UNCHANGED vars
  BY <1>4, <1>9 DEF DrainStarts, DrainStep, Block, Unblock, CheckInterrupted, vars
<1> QED
  BY <1>1, <1>5, <1>6, <1>7, <1>8, <1>9 DEF CalmStep

-----------------------------------------------------------------------------
(* The theorems. *)

LEMMA InitInv ==
  ASSUME JournalConstants, Init
  PROVE  IInv
<1> USE DEF Init
<1>1. TypeOK
  <2>1. LedgerTypes
    BY DEF LedgerTypes
  <2>2. TaskTypes
    <3>1. Idle \in RunsUpTo(1, 0)
      BY IdleIsRun
    <3>2. run \in [Msgs -> RunsUpTo(inst, nonces)]
      BY <3>1
    <3>3. drain \in [on : BOOLEAN, tried : SUBSET Msgs, cur : Msgs \cup {NoMsg}]
      BY DEF DrainOff
    <3>4. inst \in Nat \ {0} /\ link \in {"up", "away", "dead"}
      OBVIOUS
    <3>5. blocked \in BOOLEAN /\ notice \in BOOLEAN /\ waiting \in BOOLEAN
      OBVIOUS
    <3>6. wake \in BOOLEAN /\ late \in BOOLEAN
      OBVIOUS
    <3> HIDE DEF Init
    <3> QED
      BY <3>2, <3>3, <3>4, <3>5, <3>6 DEF TaskTypes
  <2>3. HostTypes
    BY DEF HostTypes
  <2> QED
    BY <2>1, <2>2, <2>3, TypeParts
<1>2. RunInv /\ NonceInv /\ ToldInv
  BY DEF RunInv, NonceInv, ToldInv, Idle
<1>3. LedgerInv
  BY DEF LedgerInv, ToSet
<1>4. CalmInv
  BY DEF CalmInv, OwnedInv, FirstInv, Taken, ToCome, Open, DrainOff
<1>5. HandedOnce /\ LedgerOrder
  BY DEF HandedOnce, LedgerOrder
<1> QED
  BY <1>1, <1>2, <1>3, <1>4, <1>5 DEF IInv

LEMMA NextInv ==
  ASSUME JournalConstants
  PROVE  IInv /\ [Next]_vars => IInv'
BY TypesKept, RunsKept, LedgerKept, NoncesKept, ToldKept, CalmKept, OrderKept DEF IInv

\* Under any number of lanes' and drains' attempts, a message that was not
\* offered with the journal closed reaches the host under one nonce.
THEOREM HandedUnderOneNonce ==
  ASSUME JournalConstants
  PROVE  Spec => []HandedOnce
<1>1. Init => IInv
  BY InitInv
<1>2. IInv /\ [Next]_vars => IInv'
  BY NextInv
<1>3. IInv => HandedOnce
  BY DEF IInv
<1> QED
  BY <1>1, <1>2, <1>3, PTL DEF Spec

\* Without failures, lost links, crashes and deadlines the host takes the
\* messages in the order of the ledger, held ones before live ones.
THEOREM TakenInOrder ==
  ASSUME JournalConstants
  PROVE  Spec => []LedgerOrder
<1>1. Init => IInv
  BY InitInv
<1>2. IInv /\ [Next]_vars => IInv'
  BY NextInv
<1>3. IInv => LedgerOrder
  BY DEF IInv
<1> QED
  BY <1>1, <1>2, <1>3, PTL DEF Spec

\* A cut-off turn is reported once at most, whatever restarts and reconnections
\* follow.
THEOREM InterruptedToldOnce ==
  ASSUME JournalConstants
  PROVE  Spec => []ToldOnce
<1>1. Init => IInv
  BY InitInv
<1>2. IInv /\ [Next]_vars => IInv'
  BY NextInv
<1>3. IInv => ToldOnce
  <2> SUFFICES ASSUME IInv, NEW m \in Msgs PROVE told[m] <= 1
    BY DEF ToldOnce
  <2>1. told[m] \in Nat /\ (told[m] > 0 => told[m] = 1)
    BY DEF IInv, TypeOK, ToldInv
  <2> QED
    BY <2>1
<1> QED
  BY <1>1, <1>2, <1>3, PTL DEF Spec

-----------------------------------------------------------------------------
(* The batches of a group chat, with constants and variables of their own. *)

CONSTANTS
    ChatMsgs,    \* messages of the chat
    Mentions,    \* those that mention the agent
    Commands,    \* those that are admitted group commands
    Granted,     \* those whose speaker holds a grant (tool_grants is on)
    MaxMsgs,     \* how many of them come
    MaxChanges,  \* changes of the group's settings at the backend
    MaxReady,    \* times the connection becomes READY
    MaxFailures  \* dispatches that end in an exception

VARIABLES
    setting,     \* the backend's setting: "all", "mention" or "muted"
    unsignalled, \* a change whose agent.config.changed has not arrived
    changes,     \* changes so far
    ready,       \* times READY was reached
    seq,         \* _group_settings_fetch_seq
    fetch,       \* the fetches that run: sequence |-> its answer or "asked"
    applied,     \* GroupSettingsCache._max_applied_sequence
    cache,       \* the effective setting of the chat
    gate,        \* _group_settings_ready is set
    gaveUp,      \* history: the last refresh somebody waited five seconds for
    fresh,       \* new messages, in no particular order
    lane,        \* what the chat's lane does: a record, see LaneIdle
    pend,        \* _pending: the batch being collected
    idle,        \* an idle timer is armed
    maxwait,     \* a max-wait timer is armed
    waiter,      \* a busy waiter polls
    disp,        \* dispatches in progress: batches that are on their way to the host
    flag,        \* the chat is in _group_dispatching
    grantFlag,   \* _grant_group_grants of the chat
    turn,        \* the batch whose turn the host runs (<<>>: none)
    turnGrants,  \* that turn has a live snapshot with grants
    queued,      \* batches the host holds until its turn ends
    open,        \* the adapter is connected (FALSE after disconnect)
    failures,    \* dispatches that failed
    handed,      \* history: batches in the order the host took them
    ended,       \* history: messages dropped, failed or answered
    seen,        \* history: messages in the order they were enqueued
    forced       \* history: a flush was forced past a running turn

G == INSTANCE GroupBatches WITH Msgs <- ChatMsgs

Lanes == [msg : ChatMsgs, since : Nat, at : {"gate", "judge", "prep", "gather", "dispatch"}]
         \cup {G!LaneIdle}
Dispatches == [batch : Seq(ChatMsgs), by : {"lane", "timer"}, since : Nat,
               at : {"gate", "judge", "prep"}]

ChatBooleans == /\ gate \in BOOLEAN /\ idle \in BOOLEAN /\ maxwait \in BOOLEAN
                /\ waiter \in BOOLEAN /\ flag \in BOOLEAN /\ forced \in BOOLEAN

BatchTypes ==
  /\ lane \in Lanes /\ disp \subseteq Dispatches /\ pend \in Seq(ChatMsgs)
  /\ ChatBooleans
  /\ seq \in Nat /\ applied \in Nat /\ DOMAIN fetch \subseteq 1..seq

\* Whoever waits at the gate waits at a closed one.
GateInv == gate => lane.at # "gate" /\ \A d \in disp : d.at # "gate"

\* A dispatch that a lane waits for is its lane's, and is the only such one.
LaneInv ==
  /\ \A d \in disp : d.by = "lane" => lane.at = "dispatch"
  /\ \A d, e \in disp : d.by = "lane" /\ e.by = "lane" => d = e

\* Unless a flush was forced, the chat is marked busy while a batch is on its way.
BusyInv == forced \/ disp = {} \/ flag

\* What the newest refresh was answered is the setting, unless that has changed
\* and the signal is still to come.
AnswerInv ==
  /\ applied <= seq
  /\ seq \in DOMAIN fetch /\ fetch[seq] # "asked" /\ ~unsignalled => fetch[seq] = setting

BatchInv ==
  /\ BatchTypes /\ GateInv /\ LaneInv /\ BusyInv /\ AnswerInv
  /\ G!HeldHasFlusher /\ G!OneDispatch /\ G!GateIsNewest /\ G!CacheIsNewest

\* What concerns the settings, and what concerns the batches.
SettingsInv == /\ seq \in Nat /\ applied \in Nat /\ DOMAIN fetch \subseteq 1..seq
               /\ AnswerInv /\ G!CacheIsNewest
ChatInv == /\ lane \in Lanes /\ disp \subseteq Dispatches /\ pend \in Seq(ChatMsgs)
           /\ ChatBooleans
           /\ GateInv /\ LaneInv /\ BusyInv /\ G!HeldHasFlusher /\ G!OneDispatch

LEMMA BatchParts == BatchInv <=> SettingsInv /\ ChatInv /\ G!GateIsNewest
BY DEF BatchInv, SettingsInv, ChatInv, BatchTypes

LEMMA BatchAssembled == SettingsInv' /\ ChatInv' /\ G!GateIsNewest' => BatchInv'
BY DEF BatchInv, SettingsInv, ChatInv, BatchTypes

LEMMA BatchesStart == G!Init => BatchInv
<1> SUFFICES ASSUME G!Init PROVE BatchInv
  OBVIOUS
<1>1. SettingsInv /\ G!GateIsNewest
  BY DEF G!Init, SettingsInv, AnswerInv, G!CacheIsNewest, G!GateIsNewest
<1>2. lane \in Lanes
  BY DEF G!Init, Lanes, G!LaneIdle
<1>3. pend \in Seq(ChatMsgs) /\ ChatBooleans
  <2>1. pend \in Seq(ChatMsgs)
    BY DEF G!Init
  <2>2. ChatBooleans
    BY DEF G!Init, ChatBooleans
  <2> QED
    BY <2>1, <2>2
<1>4. /\ disp \subseteq Dispatches
      /\ GateInv /\ LaneInv /\ BusyInv /\ G!HeldHasFlusher /\ G!OneDispatch
  BY DEF G!Init, GateInv, LaneInv, BusyInv, G!HeldHasFlusher, G!OneDispatch
<1> QED
  BY <1>1, <1>2, <1>3, <1>4, BatchParts DEF ChatInv

-----------------------------------------------------------------------------
(* The settings. *)

LEMMA SettingsStay ==
  ASSUME SettingsInv, UNCHANGED G!settingVars
  PROVE  SettingsInv'
BY DEF SettingsInv, AnswerInv, G!CacheIsNewest, G!settingVars

LEMMA ChatStays ==
  ASSUME ChatInv, UNCHANGED <<gate, lane, pend, G!timerVars, G!dispVars, forced>>
  PROVE  ChatInv'
BY DEF ChatInv, ChatBooleans, GateInv, LaneInv, BusyInv, G!HeldHasFlusher, G!OneDispatch,
       G!timerVars, G!dispVars

LEMMA SpawnKeeps ==
  ASSUME BatchInv, G!SpawnRefresh, unsignalled' \in {unsignalled, FALSE},
         UNCHANGED <<setting, applied, cache, lane, pend, G!timerVars, G!dispVars, forced>>
  PROVE  BatchInv'
<1>1. seq' = seq + 1 /\ ~gate'
  BY DEF G!SpawnRefresh
<1>2. DOMAIN fetch' = DOMAIN fetch \cup {seq + 1} /\ fetch'[seq + 1] = "asked"
  BY DEF G!SpawnRefresh
<1>3. SettingsInv'
  BY <1>1, <1>2 DEF BatchInv, BatchTypes, SettingsInv, AnswerInv, G!CacheIsNewest
<1>4. G!GateIsNewest'
  BY <1>1 DEF G!GateIsNewest
<1>5. gate' \in BOOLEAN /\ GateInv'
  BY <1>1 DEF GateInv, G!SpawnRefresh
<1>6. ChatInv'
  BY <1>5, BatchParts DEF ChatInv, ChatBooleans, LaneInv, BusyInv, G!HeldHasFlusher,
     G!OneDispatch, G!timerVars, G!dispVars
<1> QED
  BY <1>3, <1>4, <1>6, BatchAssembled

LEMMA ReadyKeeps ==
  ASSUME BatchInv, G!BecomeReady \/ G!ConfigChanged
  PROVE  BatchInv'
BY SpawnKeeps DEF G!BecomeReady, G!ConfigChanged

LEMMA ChangeKeeps ==
  ASSUME BatchInv, G!ChangeSetting
  PROVE  BatchInv'
<1>1. SettingsInv'
  BY BatchParts DEF G!ChangeSetting, SettingsInv, AnswerInv, G!CacheIsNewest
<1>2. ChatInv'
  BY BatchParts, ChatStays DEF G!ChangeSetting
<1>3. G!GateIsNewest'
  BY BatchParts DEF G!ChangeSetting, G!GateIsNewest
<1> QED
  BY <1>1, <1>2, <1>3, BatchAssembled

LEMMA AnsweredKeeps ==
  ASSUME BatchInv, NEW n \in DOMAIN fetch, G!Answered(n)
  PROVE  BatchInv'
<1>1. /\ DOMAIN fetch' = DOMAIN fetch /\ fetch'[n] = setting
      /\ \A k \in DOMAIN fetch \ {n} : fetch'[k] = fetch[k]
  BY DEF G!Answered
<1>2. SettingsInv'
  BY <1>1, BatchParts DEF G!Answered, SettingsInv, AnswerInv, G!CacheIsNewest
<1>3. ChatInv'
  BY BatchParts, ChatStays DEF G!Answered
<1>4. G!GateIsNewest'
  BY <1>1, BatchParts DEF G!Answered, G!GateIsNewest
<1> QED
  BY <1>2, <1>3, <1>4, BatchAssembled

\* Who is woken goes on to judge; the rest of the chat stays.
LEMMA WakeKeeps ==
  ASSUME ChatInv, gate' = TRUE, G!WakeAll, UNCHANGED <<pend, G!timerVars, flag, forced>>
  PROVE  ChatInv'
<1>1. /\ lane' \in Lanes /\ lane'.at # "gate"
      /\ lane.at # "gate" => lane' = lane
      /\ lane.at = "gate" => lane'.at = "judge"
  BY DEF ChatInv, G!WakeAll, G!Woken, Lanes, G!LaneIdle
<1>2. \A d \in disp :
        /\ G!Woken(d) \in Dispatches /\ G!Woken(d).at # "gate"
        /\ G!Woken(d).by = d.by
  BY DEF ChatInv, G!Woken, Dispatches
<1>3. disp' = {G!Woken(d) : d \in disp}
  BY DEF G!WakeAll
<1>4. disp' \subseteq Dispatches /\ GateInv'
  BY <1>1, <1>2, <1>3 DEF GateInv
<1>5. LaneInv'
  BY <1>1, <1>2, <1>3 DEF ChatInv, LaneInv
<1>6. G!OneDispatch' /\ BusyInv'
  BY <1>3 DEF ChatInv, G!OneDispatch, BusyInv
<1>7. G!HeldHasFlusher'
  BY <1>1 DEF ChatInv, G!HeldHasFlusher, G!timerVars
<1> QED
  BY <1>1, <1>4, <1>5, <1>6, <1>7 DEF ChatInv, ChatBooleans, G!timerVars

LEMMA RefreshEndsKeeps ==
  ASSUME BatchInv, NEW n \in DOMAIN fetch, G!RefreshEnds(n)
  PROVE  BatchInv'
<1>1. /\ n \in 1..seq /\ seq \in Nat /\ applied \in Nat
      /\ DOMAIN fetch' = DOMAIN fetch \ {n} /\ \A k \in DOMAIN fetch' : fetch'[k] = fetch[k]
      /\ UNCHANGED <<setting, unsignalled, seq, gaveUp, pend, G!timerVars, flag, forced>>
  BY DEF G!RefreshEnds, BatchInv, BatchTypes
<1>2. SettingsInv'
  <2>1. /\ applied <= seq /\ (n = seq /\ fetch[n] # "asked" /\ ~unsignalled => fetch[n] = setting)
        /\ seq > 0 /\ applied = seq /\ ~unsignalled => cache = setting
    BY DEF BatchInv, AnswerInv, G!CacheIsNewest
  <2>2. AnswerInv' /\ applied' \in Nat
    BY <1>1, <2>1 DEF G!RefreshEnds, G!ApplyFetched, BatchInv, AnswerInv
  <2>3. G!CacheIsNewest'
    BY <1>1, <2>1 DEF G!RefreshEnds, G!ApplyFetched, G!CacheIsNewest
  <2> QED
    BY <1>1, <2>2, <2>3 DEF SettingsInv, BatchInv, BatchTypes
<1>3. CASE n = seq /\ gate' = TRUE /\ G!WakeAll
  <2>1. ChatInv'
    BY <1>1, <1>3, WakeKeeps, BatchParts
  <2>2. G!GateIsNewest'
    BY <1>1, <1>3 DEF G!GateIsNewest
  <2> QED
    BY <1>2, <2>1, <2>2, BatchAssembled
<1>4. CASE n # seq /\ UNCHANGED gate /\ G!Asleep
  <2>1. UNCHANGED <<gate, lane, pend, G!timerVars, G!dispVars, forced>>
    BY <1>4 DEF G!Asleep, G!RefreshEnds, G!dispVars
  <2>2. ChatInv'
    BY <2>1, ChatStays, BatchParts
  <2>3. G!GateIsNewest'
    BY <1>1, <1>4 DEF BatchInv, G!GateIsNewest
  <2> QED
    BY <1>2, <2>2, <2>3, BatchAssembled
<1> QED
  BY <1>3, <1>4 DEF G!RefreshEnds, G!ReleaseIfLatest

-----------------------------------------------------------------------------
(* The batches. *)

\* A step that leaves the settings and the gate alone.
LEMMA ChatSteps ==
  ASSUME BatchInv, UNCHANGED <<G!settingVars, gate, gaveUp>>, ChatInv'
  PROVE  BatchInv'
<1>1. SettingsInv'
  BY SettingsStay, BatchParts
<1>2. G!GateIsNewest'
  BY BatchParts DEF G!GateIsNewest, G!settingVars
<1> QED
  BY <1>1, <1>2, BatchAssembled

\* Somebody's five seconds at the gate are over.
LEMMA TimeoutKeeps ==
  ASSUME BatchInv, G!LaneGateTimeout \/ \E d \in disp : G!DispatchGateTimeout(d)
  PROVE  BatchInv'
<1>1. ~gate
  BY DEF G!LaneGateTimeout, G!DispatchGateTimeout, BatchInv, GateInv
<1>2. UNCHANGED <<G!settingVars, seq, fetch, pend, G!timerVars, flag, forced>>
  BY DEF G!LaneGateTimeout, G!DispatchGateTimeout, G!settingVars
<1>3. SettingsInv'
  BY <1>2, SettingsStay, BatchParts
<1>4. CASE gate' = TRUE /\ G!WakeAll /\ gaveUp' = seq
  <2>1. ChatInv'
    BY <1>2, <1>4, WakeKeeps, BatchParts
  <2>2. G!GateIsNewest'
    BY <1>2, <1>4 DEF G!GateIsNewest
  <2> QED
    BY <1>3, <2>1, <2>2, BatchAssembled
<1>5. CASE UNCHANGED <<gate, disp>> /\ lane.at = "gate" /\ lane' = G!Woken(lane)
  <2>1. lane' \in Lanes /\ lane'.at = "judge"
    BY <1>5, BatchParts DEF ChatInv, G!Woken, Lanes, G!LaneIdle
  <2>2. ~gate' /\ gate' \in BOOLEAN
    BY <1>1, <1>5, BatchParts DEF ChatInv, ChatBooleans
  <2>3. GateInv' /\ G!GateIsNewest'
    BY <2>2 DEF GateInv, G!GateIsNewest
  <2>4. LaneInv'
    BY <1>5, BatchParts DEF ChatInv, LaneInv
  <2>5. G!HeldHasFlusher'
    BY <1>2, <1>5, BatchParts DEF ChatInv, G!HeldHasFlusher, G!timerVars
  <2>6. G!OneDispatch' /\ BusyInv'
    BY <1>2, <1>5, BatchParts DEF ChatInv, G!OneDispatch, BusyInv
  <2>7. ChatBooleans'
    BY <1>2, <2>2, BatchParts DEF ChatInv, ChatBooleans, G!timerVars
  <2>8. ChatInv'
    BY <1>2, <1>5, <2>1, <2>3, <2>4, <2>5, <2>6, <2>7, BatchParts DEF ChatInv
  <2> QED
    BY <1>3, <2>3, <2>8, BatchAssembled
<1>6. ASSUME NEW d \in disp, d.at = "gate", UNCHANGED <<gate, lane>>,
             disp' = (disp \ {d}) \cup {G!Woken(d)}
      PROVE  BatchInv'
  <2>1. G!Woken(d) \in Dispatches /\ G!Woken(d).by = d.by
    BY <1>6, BatchParts DEF ChatInv, G!Woken, Dispatches
  <2>2. ~gate' /\ gate' \in BOOLEAN
    BY <1>1, <1>6, BatchParts DEF ChatInv, ChatBooleans
  <2>3. GateInv' /\ G!GateIsNewest'
    BY <2>2 DEF GateInv, G!GateIsNewest
  <2>4. LaneInv'
    BY <1>6, <2>1, BatchParts DEF ChatInv, LaneInv
  <2>5. G!HeldHasFlusher'
    BY <1>2, <1>6, BatchParts DEF ChatInv, G!HeldHasFlusher, G!timerVars
  <2>6. G!OneDispatch' /\ BusyInv'
    BY <1>2, <1>6, BatchParts DEF ChatInv, G!OneDispatch, BusyInv
  <2>7. ChatBooleans'
    BY <1>2, <2>2, BatchParts DEF ChatInv, ChatBooleans, G!timerVars
  <2>8. disp' \subseteq Dispatches
    BY <1>6, <2>1, BatchParts DEF ChatInv
  <2>9. ChatInv'
    BY <1>2, <1>6, <2>3, <2>4, <2>5, <2>6, <2>7, <2>8, BatchParts DEF ChatInv
  <2> QED
    BY <1>3, <2>3, <2>9, BatchAssembled
<1> QED
  BY <1>4, <1>5, <1>6 DEF G!LaneGateTimeout, G!DispatchGateTimeout

\* A flush finds nothing, or leaves the batch to the busy waiter, or dispatches it.
LEMMA FlushKeeps ==
  ASSUME ChatInv, NEW i \in BOOLEAN, NEW m \in BOOLEAN, NEW w \in BOOLEAN,
         NEW force \in BOOLEAN, NEW by \in {"lane", "timer"}, G!Flush(i, m, w, force, by),
         gate' = gate, seq \in Nat, forced' \in BOOLEAN,
         ~forced' => ~forced /\ (force => pend = <<>>), forced => forced',
         \/ by = "timer" /\ lane' = lane
         \/ by = "lane" /\ lane.at = "gather"
            /\ lane' = IF pend' = <<>> /\ pend # <<>> THEN [lane EXCEPT !.at = "dispatch"] ELSE G!LaneIdle
  PROVE  ChatInv'
<1>1. lane' \in Lanes /\ (lane'.at = "gate" => lane' = lane)
      /\ (by = "lane" /\ pend' = <<>> /\ pend # <<>> => lane'.at = "dispatch")
  BY DEF ChatInv, Lanes, G!LaneIdle
<1>2. lane.at = "dispatch" => lane' = lane
  OBVIOUS
<1>3. CASE pend = <<>>
  <2>1. pend' = pend /\ disp' = disp /\ flag' = flag /\ idle' = i /\ maxwait' = m /\ waiter' = w
    BY <1>3 DEF G!Flush, G!dispVars
  <2>2. GateInv' /\ LaneInv'
    BY <1>1, <1>2, <2>1 DEF ChatInv, GateInv, LaneInv
  <2>3. G!HeldHasFlusher'
    BY <1>3, <2>1 DEF G!HeldHasFlusher
  <2>4. G!OneDispatch' /\ BusyInv'
    BY <2>1 DEF ChatInv, G!OneDispatch, BusyInv
  <2>5. ChatBooleans'
    BY <2>1 DEF ChatInv, ChatBooleans
  <2> QED
    BY <1>1, <2>1, <2>2, <2>3, <2>4, <2>5 DEF ChatInv
<1>4. CASE pend # <<>> /\ ~force /\ G!Busy
  <2>1. pend' = pend /\ disp' = disp /\ flag' = flag /\ idle' = i /\ maxwait' = m /\ waiter' = TRUE
    BY <1>4 DEF G!Flush, G!dispVars
  <2>2. GateInv' /\ LaneInv'
    BY <1>1, <1>2, <2>1 DEF ChatInv, GateInv, LaneInv
  <2>3. G!HeldHasFlusher'
    BY <2>1 DEF G!HeldHasFlusher
  <2>4. G!OneDispatch' /\ BusyInv'
    BY <2>1 DEF ChatInv, G!OneDispatch, BusyInv
  <2>5. ChatBooleans'
    BY <2>1 DEF ChatInv, ChatBooleans
  <2> QED
    BY <1>1, <2>1, <2>2, <2>3, <2>4, <2>5 DEF ChatInv
<1>5. CASE pend # <<>> /\ ~(~force /\ G!Busy)
  <2> DEFINE d == G!AtGate([batch |-> pend, by |-> by, at |-> "start", since |-> 0])
  <2>1. /\ pend' = <<>> /\ disp' = disp \cup {d} /\ flag' = TRUE
        /\ idle' = FALSE /\ maxwait' = FALSE /\ waiter' = w
    BY <1>5 DEF G!Flush, G!StartDispatch
  <2>2. d \in Dispatches /\ d.by = by /\ (gate => d.at # "gate")
    BY DEF ChatInv, G!AtGate, Dispatches
  <2> HIDE DEF d
  <2>3. GateInv'
    BY <1>1, <2>1, <2>2 DEF ChatInv, GateInv
  <2>4. LaneInv'
    BY <1>1, <1>2, <1>5, <2>1, <2>2 DEF ChatInv, LaneInv
  <2>5. BusyInv' /\ G!HeldHasFlusher'
    BY <2>1 DEF BusyInv, G!HeldHasFlusher
  <2>6. ~forced' => disp = {}
    BY <1>5 DEF G!Busy, ChatInv, BusyInv
  <2>7. G!OneDispatch'
    BY <2>1, <2>6 DEF G!OneDispatch
  <2>8. ChatBooleans'
    BY <2>1 DEF ChatInv, ChatBooleans
  <2>9. disp' \subseteq Dispatches /\ pend' \in Seq(ChatMsgs)
    BY <2>1, <2>2 DEF ChatInv
  <2> QED
    BY <1>1, <2>3, <2>4, <2>5, <2>7, <2>8, <2>9 DEF ChatInv
<1> QED
  BY <1>3, <1>4, <1>5

LEMMA TimersKeep ==
  ASSUME BatchInv, G!IdleFires \/ G!MaxWaitFires \/ G!WaiterFindsIdle \/ G!WaiterTimesOut
  PROVE  BatchInv'
<1>1. ChatInv /\ seq \in Nat
  BY BatchParts DEF SettingsInv
<1>2. idle \in BOOLEAN /\ maxwait \in BOOLEAN /\ waiter \in BOOLEAN /\ forced \in BOOLEAN
  BY <1>1 DEF ChatInv, ChatBooleans
<1>3. UNCHANGED <<G!settingVars, gate, gaveUp, lane>>
  BY DEF G!IdleFires, G!MaxWaitFires, G!WaiterFindsIdle, G!WaiterTimesOut
<1>4. CASE G!IdleFires
  <2>1. G!Flush(FALSE, maxwait, waiter, FALSE, "timer") /\ forced' = forced
    BY <1>4 DEF G!IdleFires
  <2> QED
    BY <1>1, <1>2, <1>3, <2>1, FlushKeeps, ChatSteps
<1>5. CASE G!MaxWaitFires
  <2>1. G!Flush(idle, FALSE, waiter, FALSE, "timer") /\ forced' = forced
    BY <1>5 DEF G!MaxWaitFires
  <2> QED
    BY <1>1, <1>2, <1>3, <2>1, FlushKeeps, ChatSteps
<1>6. CASE G!WaiterFindsIdle
  <2>1. G!Flush(idle, maxwait, FALSE, FALSE, "timer") /\ forced' = forced
    BY <1>6 DEF G!WaiterFindsIdle
  <2> QED
    BY <1>1, <1>2, <1>3, <2>1, FlushKeeps, ChatSteps
<1>7. CASE G!WaiterTimesOut
  <2>1. G!Flush(idle, maxwait, FALSE, TRUE, "timer") /\ forced' = (forced \/ pend # <<>>)
    BY <1>7 DEF G!WaiterTimesOut
  <2> QED
    BY <1>1, <1>2, <1>3, <2>1, FlushKeeps, ChatSteps
<1> QED
  BY <1>4, <1>5, <1>6, <1>7

LEMMA EndKeeps ==
  ASSUME ChatInv, NEW d \in disp, G!EndDispatch(d), UNCHANGED <<gate, pend, G!timerVars, forced>>
  PROVE  ChatInv'
<1>1. /\ disp' = disp \ {d} /\ flag' = FALSE
      /\ lane' = IF d.by = "lane" THEN G!LaneIdle ELSE lane
  BY DEF G!EndDispatch
<1>2. G!LaneIdle \in Lanes /\ G!LaneIdle.at = "idle"
  BY DEF Lanes, G!LaneIdle
<1>3. lane' \in Lanes /\ disp' \subseteq Dispatches
  BY <1>1, <1>2 DEF ChatInv
<1>4. GateInv'
  BY <1>1, <1>2 DEF ChatInv, GateInv
<1>5. LaneInv'
  BY <1>1, <1>2 DEF ChatInv, LaneInv
<1>6. BusyInv' /\ G!OneDispatch'
  BY <1>1 DEF ChatInv, BusyInv, G!OneDispatch
<1>7. G!HeldHasFlusher'
  BY <1>1, <1>2 DEF ChatInv, LaneInv, G!HeldHasFlusher, G!timerVars
<1>8. ChatBooleans'
  BY <1>1 DEF ChatInv, ChatBooleans, G!timerVars
<1> QED
  BY <1>3, <1>4, <1>5, <1>6, <1>7, <1>8 DEF ChatInv

LEMMA DispatchesKeep ==
  ASSUME BatchInv, NEW d \in disp, G!JudgeBatch(d) \/ G!HandBatch(d) \/ G!FailBatch(d)
  PROVE  BatchInv'
<1>1. UNCHANGED <<G!settingVars, gate, gaveUp, pend, G!timerVars, forced>> /\ ChatInv
  BY BatchParts DEF G!JudgeBatch, G!HandBatch, G!FailBatch
<1>2. CASE G!EndDispatch(d)
  BY <1>1, <1>2, EndKeeps, ChatSteps
<1>3. CASE disp' = (disp \ {d}) \cup {[d EXCEPT !.at = "prep"]} /\ UNCHANGED <<lane, flag>>
  <2> DEFINE e == [d EXCEPT !.at = "prep"]
  <2>1. e \in Dispatches /\ e.by = d.by /\ e.at = "prep"
    BY <1>1 DEF ChatInv, Dispatches
  <2>2. disp' = (disp \ {d}) \cup {e}
    BY <1>3
  <2> HIDE DEF e
  <2>3. disp' \subseteq Dispatches /\ GateInv' /\ LaneInv'
    BY <1>1, <1>3, <2>1, <2>2 DEF ChatInv, GateInv, LaneInv
  <2>4. G!OneDispatch' /\ BusyInv'
    BY <1>1, <1>3, <2>2 DEF ChatInv, G!OneDispatch, BusyInv
  <2>5. G!HeldHasFlusher' /\ ChatBooleans'
    BY <1>1, <1>3 DEF ChatInv, G!HeldHasFlusher, ChatBooleans, G!timerVars
  <2>6. ChatInv'
    BY <1>1, <1>3, <2>3, <2>4, <2>5 DEF ChatInv
  <2> QED
    BY <1>1, <2>6, ChatSteps
<1> QED
  BY <1>2, <1>3 DEF G!JudgeBatch, G!HandBatch, G!FailBatch

-----------------------------------------------------------------------------
(* The lane. *)

\* Where no dispatch is the lane's, it moves on as long as what is held has a flusher.
LEMMA LaneMoves ==
  ASSUME BatchInv, lane.at # "dispatch", lane' \in Lanes, gate => lane'.at # "gate",
         pend' \in Seq(ChatMsgs), G!HeldHasFlusher', idle' \in BOOLEAN, maxwait' \in BOOLEAN,
         UNCHANGED <<G!settingVars, gate, gaveUp, waiter, disp, flag, forced>>
  PROVE  BatchInv'
<1>1. GateInv' /\ LaneInv'
  BY BatchParts DEF ChatInv, GateInv, LaneInv
<1>2. G!OneDispatch' /\ BusyInv'
  BY BatchParts DEF ChatInv, G!OneDispatch, BusyInv
<1>3. ChatBooleans'
  BY BatchParts DEF ChatInv, ChatBooleans
<1>4. ChatInv'
  BY <1>1, <1>2, <1>3, BatchParts DEF ChatInv
<1> QED
  BY <1>4, ChatSteps

LEMMA ArriveKeeps ==
  ASSUME BatchInv, NEW m \in ChatMsgs, G!Arrive(m)
  PROVE  BatchInv'
<1>1. lane' \in Lanes /\ (gate => lane'.at # "gate")
  BY DEF G!Arrive, G!AtGate, Lanes, BatchInv, BatchTypes
<1>2. /\ lane.at = "idle"
      /\ UNCHANGED <<G!settingVars, gate, gaveUp, pend, G!timerVars, G!dispVars, forced>>
  BY DEF G!Arrive, G!LaneIdle
<1>3. G!HeldHasFlusher'
  BY <1>2 DEF BatchInv, G!HeldHasFlusher, G!timerVars
<1> QED
  BY <1>1, <1>2, <1>3, LaneMoves DEF BatchInv, BatchTypes, ChatBooleans, G!timerVars,
     G!dispVars

LEMMA RouteKeeps ==
  ASSUME BatchInv, G!Route
  PROVE  BatchInv'
<1>1. /\ lane.at = "judge" /\ lane \in Lanes
      /\ UNCHANGED <<G!settingVars, gate, gaveUp, waiter, G!dispVars, forced>>
  BY DEF G!Route, BatchInv, BatchTypes
<1>2. G!LaneIdle \in Lanes /\ G!LaneIdle.at = "idle"
  BY DEF Lanes, G!LaneIdle
<1>3. ASSUME UNCHANGED <<pend, idle, maxwait>>, lane' \in Lanes, lane'.at # "gate"
      PROVE  BatchInv'
  <2>1. G!HeldHasFlusher'
    BY <1>1, <1>3 DEF BatchInv, G!HeldHasFlusher
  <2> QED
    BY <1>1, <1>3, <2>1, LaneMoves DEF BatchInv, BatchTypes, ChatBooleans, G!dispVars
<1>4. CASE lane' = [lane EXCEPT !.at = "prep"] /\ UNCHANGED <<pend, idle, maxwait>>
  BY <1>1, <1>3, <1>4 DEF Lanes, G!LaneIdle
<1>5. CASE lane' = G!LaneIdle /\ UNCHANGED <<pend, idle, maxwait>>
  BY <1>2, <1>3, <1>5
<1>6. CASE G!Enqueue(lane.msg) /\ G!Answers(lane.msg \in Mentions)
  <2>1. lane' \in Lanes /\ lane'.at # "gate" /\ (lane.msg \in Mentions => lane'.at = "gather")
    BY <1>1, <1>2, <1>6 DEF G!Enqueue, Lanes, G!LaneIdle
  <2>2. idle' \in BOOLEAN /\ maxwait' \in BOOLEAN /\ (lane.msg \notin Mentions => idle')
    BY <1>6 DEF G!Enqueue
  <2>3. G!HeldHasFlusher'
    BY <2>1, <2>2 DEF G!HeldHasFlusher
  <2>4. pend' \in Seq(ChatMsgs)
    BY <1>1, <1>6 DEF G!Enqueue, Lanes, G!LaneIdle, BatchInv, BatchTypes
  <2> QED
    BY <1>1, <2>1, <2>2, <2>3, <2>4, LaneMoves DEF G!dispVars
<1> QED
  BY <1>4, <1>5, <1>6 DEF G!Route

LEMMA CommandKeeps ==
  ASSUME BatchInv, G!HandCommand
  PROVE  BatchInv'
<1>1. /\ lane.at = "prep" /\ lane' = G!LaneIdle
      /\ UNCHANGED <<G!settingVars, gate, gaveUp, pend, G!timerVars, G!dispVars, forced>>
  BY DEF G!HandCommand
<1>2. lane' \in Lanes /\ lane'.at = "idle"
  BY <1>1 DEF Lanes, G!LaneIdle
<1>3. G!HeldHasFlusher'
  BY <1>1 DEF BatchInv, G!HeldHasFlusher, G!timerVars
<1> QED
  BY <1>1, <1>2, <1>3, LaneMoves DEF BatchInv, BatchTypes, ChatBooleans, G!timerVars,
     G!dispVars

LEMMA FlushNowKeeps ==
  ASSUME BatchInv, G!FlushNow
  PROVE  BatchInv'
<1>1. ChatInv /\ seq \in Nat
  BY BatchParts DEF SettingsInv
<1>2. waiter \in BOOLEAN /\ forced \in BOOLEAN
  BY <1>1 DEF ChatInv, ChatBooleans
<1>3. /\ UNCHANGED <<G!settingVars, gate, gaveUp, forced>> /\ lane.at = "gather"
      /\ G!Flush(FALSE, FALSE, waiter, FALSE, "lane")
      /\ lane' = IF pend' = <<>> /\ pend # <<>> THEN [lane EXCEPT !.at = "dispatch"] ELSE G!LaneIdle
  BY DEF G!FlushNow
<1>4. ChatInv'
  BY <1>1, <1>2, <1>3, FlushKeeps
<1> QED
  BY <1>3, <1>4, ChatSteps

LEMMA DisconnectKeeps ==
  ASSUME BatchInv, G!Disconnect
  PROVE  BatchInv'
<1>1. /\ disp' = disp \ {d \in disp : d.by = "lane"} /\ lane' = G!LaneIdle
      /\ pend' = <<>> /\ idle' = FALSE /\ maxwait' = FALSE /\ waiter' = FALSE
      /\ flag' = (flag /\ {d \in disp : d.by = "lane"} = {})
      /\ UNCHANGED <<G!settingVars, gate, gaveUp, forced>>
  BY DEF G!Disconnect
<1>2. G!LaneIdle \in Lanes /\ G!LaneIdle.at = "idle"
  BY DEF Lanes, G!LaneIdle
<1>3. GateInv' /\ LaneInv' /\ G!HeldHasFlusher'
  BY <1>1, <1>2, BatchParts DEF ChatInv, GateInv, LaneInv, G!HeldHasFlusher
<1>4. G!OneDispatch'
  BY <1>1, BatchParts DEF ChatInv, G!OneDispatch
<1>5. BusyInv'
  <2> SUFFICES ASSUME ~forced, disp' # {} PROVE flag'
    BY <1>1 DEF BusyInv
  <2>1. {d \in disp : d.by = "lane"} = {}
    BY <1>1, BatchParts DEF ChatInv, G!OneDispatch
  <2>2. flag
    BY <1>1, BatchParts DEF ChatInv, BusyInv
  <2> QED
    BY <1>1, <2>1, <2>2
<1>6. ChatBooleans'
  BY <1>1, BatchParts DEF ChatInv, ChatBooleans
<1>7. lane' \in Lanes /\ disp' \subseteq Dispatches /\ pend' \in Seq(ChatMsgs)
  BY <1>1, <1>2, BatchParts DEF ChatInv
<1>8. ChatInv'
  BY <1>3, <1>4, <1>5, <1>6, <1>7 DEF ChatInv
<1> QED
  BY <1>1, <1>8, ChatSteps

LEMMA BatchesNext == BatchInv /\ [G!Next]_G!vars => BatchInv'
<1> SUFFICES ASSUME BatchInv, [G!Next]_G!vars PROVE BatchInv'
  OBVIOUS
<1>1. CASE UNCHANGED G!vars \/ G!HostTurnEnds
  <2>1. UNCHANGED <<G!settingVars, gate, gaveUp, lane, pend, G!timerVars, G!dispVars, forced>>
    BY <1>1 DEF G!vars, G!HostTurnEnds
  <2> QED
    BY <2>1, BatchParts, ChatStays, ChatSteps
<1>2. CASE G!Next /\ ~G!HostTurnEnds
  BY <1>2, ReadyKeeps, ChangeKeeps, AnsweredKeeps, RefreshEndsKeeps, TimeoutKeeps,
     TimersKeep, DispatchesKeep, ArriveKeeps, RouteKeeps, CommandKeeps, FlushNowKeeps,
     DisconnectKeeps DEF G!Next
<1> QED
  BY <1>1, <1>2

\* A batch that is being collected always has somebody who will flush it: a timer,
\* the busy waiter, or the mention that gathers it, although the coalescer's timers
\* cancel each other and the waiter leaves the table before it flushes.
THEOREM HeldIsFlushed == G!Spec => []G!HeldHasFlusher
<1>1. BatchInv => G!HeldHasFlusher
  BY DEF BatchInv
<1> QED
  BY <1>1, BatchesStart, BatchesNext, PTL DEF G!Spec

\* Unless a flush was forced past a turn, one batch at a time is on its way to
\* the host, from whichever of the lane and the timers it was flushed.
THEOREM OneBatchAtATime == G!Spec => []G!OneDispatch
<1>1. BatchInv => G!OneDispatch
  BY DEF BatchInv
<1> QED
  BY <1>1, BatchesStart, BatchesNext, PTL DEF G!Spec

\* A superseded refresh never opens the gate for the one that superseded it: with
\* the gate open, the newest one has ended, or somebody waited out its time.
THEOREM GateOpensForNewest == G!Spec => []G!GateIsNewest
<1>1. BatchInv => G!GateIsNewest
  BY DEF BatchInv
<1> QED
  BY <1>1, BatchesStart, BatchesNext, PTL DEF G!Spec

\* A late answer never rolls the settings back: when the newest refresh is the one
\* applied and no change is still to be signalled, the cache has the backend's.
THEOREM CacheStaysNewest == G!Spec => []G!CacheIsNewest
<1>1. BatchInv => G!CacheIsNewest
  BY DEF BatchInv
<1> QED
  BY <1>1, BatchesStart, BatchesNext, PTL DEF G!Spec

-----------------------------------------------------------------------------
(* What the owner is asked, with constants and variables of its own.       *)

CONSTANTS
    Requests,     \* approvals the host may ask for
    Asks,         \* those of a call under the mode "ask"
    Sessions, SessionOf,
    Strangers,    \* sessions of direct chats with someone else than the owner
    Codes,
    Confirms,     \* the owner's slash commands in groups that want a confirmation
    MaxReplies    \* bound: replies of the owner

VARIABLES
    queue,     \* the host's waiting requests, per session
    step,      \* "idle", "raised", "sending", "arrived", "shown", "failed", "over"
    outcome,   \* what the host was told of it
    ask,       \* the record of a call under the mode "ask"
    ran,       \* what the host went on to run
    routes,    \* the plugin's routes, a request per code, or none
    code,      \* the code its card carries, per request
    cards,     \* (history) the request of the newest card the owner has with a code
    stray,     \* (history) the requests a code reached before their card did
    allowed,   \* (history) the requests whose card the owner answered with yes, once
    confirm,   \* the confirmation the plugin waits for, in the owner's chat
    prompt,    \* "idle", "sending", "shown", "gone", "done", per confirmation
    registry,  \* the confirmation the host waits for
    crossed,   \* (history) a prompt failed while another was pending
    misled,    \* (history) a code of a request that is over resolved another
    replies

K == INSTANCE Confirmations

Records == [open : BOOLEAN, routed : BOOLEAN, delivered : BOOLEAN, late : BOOLEAN,
            choice : {K!None, "once", "session", "all", "deny"}]

ConfirmTypes ==
  /\ ask \in [Asks -> Records]
  /\ prompt \in [Confirms -> {"idle", "sending", "shown", "gone", "done"}]
  /\ confirm \in Confirms \cup {K!None} /\ registry \in Confirms \cup {K!None}

\* A record that says "once" was answered so by the owner, on its own card.
AnsweredInv == \A r \in Asks : ask[r].choice = "once" => r \in allowed \cup stray

\* The confirmation the host waits for is the one the plugin waits for from the
\* moment its prompt is sent.
PromptInv == \A c \in Confirms :
  registry = c /\ prompt[c] \in {"sending", "shown"} /\ ~crossed => confirm = c

ConfirmInv == ConfirmTypes /\ AnsweredInv /\ PromptInv /\ K!AskRunsOnItsOwnAnswer

\* What a step says of the records, and what it says of the prompts.
AsksKeep == ask' \in [Asks -> Records] /\ AnsweredInv' /\ K!AskRunsOnItsOwnAnswer'
PromptsKeep ==
  /\ prompt' \in [Confirms -> {"idle", "sending", "shown", "gone", "done"}]
  /\ confirm' \in Confirms \cup {K!None} /\ registry' \in Confirms \cup {K!None}
  /\ PromptInv'

LEMMA ConfirmAssembled == AsksKeep /\ PromptsKeep => ConfirmInv'
BY DEF AsksKeep, PromptsKeep, ConfirmInv, ConfirmTypes

LEMMA ConfirmStarts == K!ConfirmNames /\ K!Init => ConfirmInv
<1> SUFFICES ASSUME K!ConfirmNames, K!Init PROVE ConfirmInv
  OBVIOUS
<1>1. ConfirmTypes
  BY DEF K!Init, ConfirmTypes, K!NoAsk, Records
<1>2. AnsweredInv /\ K!AskRunsOnItsOwnAnswer
  BY DEF K!Init, AnsweredInv, K!AskRunsOnItsOwnAnswer, K!NoAsk, K!None
<1>3. PromptInv
  BY DEF K!Init, PromptInv
<1> QED
  BY <1>1, <1>2, <1>3 DEF ConfirmInv

LEMMA PromptsStay ==
  ASSUME ConfirmInv, UNCHANGED K!confirmVars
  PROVE  PromptsKeep
BY DEF ConfirmInv, ConfirmTypes, PromptInv, PromptsKeep, K!confirmVars

\* The records may be opened, routed, delivered, expire or be denied.
LEMMA AsksStay ==
  ASSUME ConfirmInv, ask' \in [Asks -> Records],
         \A r \in Asks : ask'[r].choice \in {ask[r].choice, "deny"},
         allowed \subseteq allowed', stray \subseteq stray', ran' = ran
  PROVE  AsksKeep
BY DEF ConfirmInv, AnsweredInv, K!AskRunsOnItsOwnAnswer, AsksKeep

LEMMA CardsKeep ==
  ASSUME ConfirmInv, NEW r \in Requests,
         \/ K!Raise(r) \/ K!SendCard(r) \/ K!Arrives(r)
         \/ K!Delivered(r) \/ K!NotDelivered(r) \/ K!HostTimeout(r)
  PROVE  ConfirmInv'
<1>1. UNCHANGED K!confirmVars /\ UNCHANGED <<allowed, stray, ran>>
  BY DEF K!Raise, K!SendCard, K!Arrives, K!Delivered, K!NotDelivered, K!HostTimeout,
         K!ownerVars
<1>2. /\ ask' \in [Asks -> Records]
      /\ \A q \in Asks : ask'[q].choice \in {ask[q].choice, "deny"}
  <2>1. ask \in [Asks -> Records]
    BY DEF ConfirmInv, ConfirmTypes
  <2>2. CASE K!Raise(r)
    BY <2>1, <2>2 DEF K!Raise, Records
  <2>3. CASE K!SendCard(r)
    <3>1. \/ ask' = ask
          \/ r \in Asks /\ ask' = [ask EXCEPT ![r].routed = TRUE]
          \/ r \in Asks /\ ask' = [ask EXCEPT ![r].routed = TRUE, ![r].choice = "deny"]
      BY <2>3, Zenon DEF K!SendCard
    <3>2. CASE r \in Asks /\ ask' = [ask EXCEPT ![r].routed = TRUE]
      BY <2>1, <3>2 DEF Records
    <3>3. CASE r \in Asks /\ ask' = [ask EXCEPT ![r].routed = TRUE, ![r].choice = "deny"]
      BY <2>1, <3>3 DEF Records
    <3> QED
      BY <2>1, <3>1, <3>2, <3>3
  <2>4. CASE K!Arrives(r) \/ K!HostTimeout(r)
    BY <2>1, <2>4 DEF K!Arrives, K!HostTimeout
  <2>5. CASE K!Delivered(r)
    <3>1. K!Nonce(r) # K!None => r \in Asks
      BY DEF K!Nonce
    <3> QED
      BY <2>1, <2>5, <3>1 DEF K!Delivered, Records
  <2>6. CASE K!NotDelivered(r)
    <3>1. K!Marked(SessionOf[r], "deny", r) \in [Asks -> Records]
      BY <2>1 DEF K!Marked, Records
    <3>2. \A q \in Asks : K!Marked(SessionOf[r], "deny", r)[q].choice \in {ask[q].choice, "deny"}
      BY <2>1 DEF K!Marked, Records
    <3>3. ask' \in {ask, K!Marked(SessionOf[r], "deny", r)}
      BY <2>6 DEF K!NotDelivered
    <3> QED
      BY <2>1, <3>1, <3>2, <3>3
  <2> QED
    BY <2>2, <2>3, <2>4, <2>5, <2>6
<1> QED
  BY <1>1, <1>2, AsksStay, PromptsStay, ConfirmAssembled

LEMMA ReturnsKeep ==
  ASSUME ConfirmInv, NEW r \in Requests, K!HostReturns(r)
  PROVE  ConfirmInv'
<1>1. UNCHANGED K!confirmVars /\ UNCHANGED <<allowed, stray>>
  BY DEF K!HostReturns, K!ownerVars
<1>2. /\ ask' \in [Asks -> Records] /\ \A q \in Asks : ask'[q].choice = ask[q].choice
  BY DEF ConfirmInv, ConfirmTypes, K!HostReturns, Records
<1>3. \A q \in Asks : q \in ran' => q \in ran \/ ask[q].choice = "once"
  BY DEF K!HostReturns, K!Finished
<1>4. AsksKeep
  BY <1>1, <1>2, <1>3 DEF ConfirmInv, AnsweredInv, K!AskRunsOnItsOwnAnswer, AsksKeep
<1> QED
  BY <1>1, <1>4, PromptsStay, ConfirmAssembled

LEMMA ExpiresKeeps ==
  ASSUME ConfirmInv, NEW r \in Asks, K!AskExpires(r)
  PROVE  ConfirmInv'
<1>1. UNCHANGED K!confirmVars /\ UNCHANGED <<allowed, stray, ran>>
  BY DEF K!AskExpires, K!hostVars, K!ownerVars
<1>2. /\ ask' \in [Asks -> Records]
      /\ \A q \in Asks : ask'[q].choice \in {ask[q].choice, "deny"}
  BY DEF ConfirmInv, ConfirmTypes, K!AskExpires, Records
<1> QED
  BY <1>1, <1>2, AsksStay, PromptsStay, ConfirmAssembled

\* Only an answer marks a record "once": the record it names.
LEMMA MarkKeeps ==
  ASSUME ConfirmInv, NEW s, NEW c \in {"once", "session", "all", "deny"}, NEW q, q # K!None,
         ask' = ask \/ ask' = K!Marked(s, c, q),
         q \in Asks /\ c = "once" /\ K!Named(s, q) # {} => q \in allowed' \cup stray',
         allowed \subseteq allowed', stray \subseteq stray', ran' = ran
  PROVE  AsksKeep
<1>1. ask \in [Asks -> Records]
  BY DEF ConfirmInv, ConfirmTypes
<1>2. CASE ask' = ask
  BY <1>1, <1>2, AsksStay
<1>3. CASE ask' = K!Marked(s, c, q)
  <2>1. ask' \in [Asks -> Records]
    BY <1>1, <1>3 DEF K!Marked, Records
  <2>2. \A r \in Asks : r \in K!Named(s, q) => r = q
    BY DEF K!Named
  <2>3. \A r \in Asks : IF r \in K!Named(s, q) THEN ask'[r].choice = c ELSE ask'[r] = ask[r]
    BY <1>1, <1>3 DEF K!Marked, Records
  <2>4. AnsweredInv'
    BY <2>2, <2>3 DEF ConfirmInv, AnsweredInv
  <2> QED
    BY <2>1, <2>4 DEF ConfirmInv, K!AskRunsOnItsOwnAnswer, AsksKeep
<1> QED
  BY <1>2, <1>3

LEMMA DecidedOnce ==
  ASSUME NEW s, NEW c \in {"once", "session", "all", "deny"}, NEW q
  PROVE  /\ K!Decided(s, c, q) \in {"once", "session", "all", "deny"}
         /\ K!Decided(s, c, q) = "once" /\ K!Named(s, q) # {} => c = "once"
BY DEF K!Decided

\* The code a reply reaches is the one it names, or the only one pending.
LEMMA MeantBy ==
  ASSUME NEW key, NEW k, k \in K!Pending(K!Pruned(routes)), key = K!NoCode \/ k = key,
         key = K!NoCode => K!Cardinality(K!Pending(K!Pruned(routes))) = 1
  PROVE  \/ K!Pruned(routes)[k] \in K!Meant(key)
         \/ key # K!NoCode /\ cards[k] # K!Pruned(routes)[k]
<1>1. K!Pruned(routes)[k] # K!None
  BY DEF K!Pending
<1>2. CASE key = K!NoCode
  BY <1>2 DEF K!Meant
<1>3. CASE key # K!NoCode
  BY <1>1, <1>3 DEF K!Meant
<1> QED
  BY <1>2, <1>3

LEMMA RepliesKeep ==
  ASSUME ConfirmInv, NEW word \in {"once", "session", "all", "deny"}, NEW key,
         K!OwnerReplies(word, key)
  PROVE  ConfirmInv'
<1> DEFINE rt == K!Pruned(routes)
           chosen == IF key # K!NoCode THEN {key} \cap K!Pending(rt)
                     ELSE IF K!Cardinality(K!Pending(rt)) = 1 THEN K!Pending(rt) ELSE {}
           k == CHOOSE x \in chosen : TRUE
           r == rt[k]
           s == SessionOf[r]
           nonce == K!Nonce(r)
           choice == IF nonce = K!None THEN K!Choice(word, nonce)
                     ELSE K!Decided(s, K!Choice(word, nonce), nonce)
           gone == K!Reached(s, nonce, word = "all" /\ nonce = K!None)
<1>1. UNCHANGED K!confirmVars /\ UNCHANGED ran
  BY DEF K!OwnerReplies
<1>2. /\ allowed' = IF word = "once" THEN allowed \cup K!Meant(key) ELSE allowed
      /\ IF chosen = {} THEN UNCHANGED <<ask, stray>>
         ELSE /\ ask' = IF nonce = K!None THEN ask
                        ELSE K!Marked(s, IF gone = {} THEN "deny" ELSE choice, nonce)
              /\ stray' = IF key # K!NoCode /\ cards[k] # r THEN stray \cup {r} ELSE stray
  BY DEF K!OwnerReplies
<1>3. allowed \subseteq allowed' /\ stray \subseteq stray'
  BY <1>2
<1>4. ask \in [Asks -> Records]
  BY DEF ConfirmInv, ConfirmTypes
<1>5. CASE chosen = {} \/ nonce = K!None
  <2>1. ask' = ask
    BY <1>2, <1>5
  <2> QED
    BY <1>1, <1>3, <1>4, <2>1, AsksStay, PromptsStay, ConfirmAssembled
<1>6. CASE chosen # {} /\ nonce # K!None
  <2>1. k \in chosen /\ k \in K!Pending(rt) /\ r # K!None
    BY <1>6 DEF K!Pending
  <2>2. nonce = r
    BY <1>6 DEF K!Nonce
  <2> DEFINE c == IF gone = {} THEN "deny" ELSE choice
  <2>3. /\ K!Choice(word, nonce) \in {"once", "deny"}
        /\ K!Choice(word, nonce) = "once" => word = "once"
    BY <1>6 DEF K!Choice
  <2>4. /\ choice \in {"once", "session", "all", "deny"}
        /\ choice = "once" /\ K!Named(s, nonce) # {} => word = "once"
    BY <1>6, <2>3, DecidedOnce
  <2>5. r \in K!Meant(key) \/ (key # K!NoCode /\ cards[k] # r)
    <3>1. /\ key = K!NoCode \/ k = key
          /\ key = K!NoCode => K!Cardinality(K!Pending(rt)) = 1
      BY <2>1
    <3> HIDE DEF k
    <3> QED
      BY <2>1, <3>1, MeantBy
  <2>6. c \in {"once", "session", "all", "deny"} /\ ask' = K!Marked(s, c, nonce)
    BY <1>2, <1>6, <2>4
  <2>7. c = "once" /\ K!Named(s, nonce) # {} => nonce \in allowed' \cup stray'
    BY <1>2, <1>6, <2>2, <2>4, <2>5
  <2> HIDE DEF c, s, nonce
  <2>8. AsksKeep
    BY <1>1, <1>3, <1>6, <2>6, <2>7, MarkKeeps
  <2> QED
    BY <1>1, <2>8, PromptsStay, ConfirmAssembled
<1> QED
  BY <1>5, <1>6

LEMMA ButtonKeeps ==
  ASSUME ConfirmInv, NEW r \in Requests, NEW word \in {"once", "session", "deny"},
         K!Button(r, word)
  PROVE  ConfirmInv'
<1> DEFINE s == SessionOf[r]
           records == K!Named(s, K!None)
           nonce == IF K!Cardinality(records) = 1 THEN CHOOSE q \in records : TRUE ELSE K!None
           said == IF nonce = r /\ word = "once" THEN "once" ELSE "deny"
           choice == IF records = {} THEN word ELSE K!Decided(s, said, nonce)
           gone == K!Reached(s, nonce, FALSE)
           c == IF gone = {} THEN "deny" ELSE choice
<1>1. UNCHANGED K!confirmVars /\ UNCHANGED <<ran, stray>>
  BY DEF K!Button
<1>2. ask' = ask \/ (nonce # K!None /\ ask' = K!Marked(s, c, nonce))
  BY DEF K!Button
<1>3. ask \in [Asks -> Records] /\ allowed \subseteq allowed' /\ (word = "once" => r \in allowed')
  BY DEF K!Button, ConfirmInv, ConfirmTypes
<1>4. CASE ask' = ask
  BY <1>1, <1>3, <1>4, AsksStay, PromptsStay, ConfirmAssembled
<1>5. CASE nonce # K!None /\ ask' = K!Marked(s, c, nonce)
  <2>1. said \in {"once", "deny"} /\ (said = "once" => nonce = r /\ word = "once")
    OBVIOUS
  <2>2. K!Named(s, nonce) \subseteq records
    BY DEF K!Named
  <2>3. c \in {"once", "session", "all", "deny"}
    BY <2>1, DecidedOnce
  <2>4. c = "once" /\ K!Named(s, nonce) # {} => nonce \in allowed' \cup stray'
    <3> SUFFICES ASSUME c = "once", K!Named(s, nonce) # {} PROVE nonce \in allowed'
      OBVIOUS
    <3>1. records # {}
      BY <2>2
    <3>2. K!Decided(s, said, nonce) = "once"
      BY <3>1
    <3>3. said = "once"
      BY <2>1, <3>2, DecidedOnce
    <3>4. nonce = r /\ r \in allowed'
      BY <1>3, <2>1, <3>3
    <3> HIDE DEF nonce
    <3> QED
      BY <3>4
  <2> HIDE DEF c, s, nonce
  <2>5. AsksKeep
    BY <1>1, <1>3, <1>5, <2>3, <2>4, MarkKeeps
  <2> QED
    BY <1>1, <2>5, PromptsStay, ConfirmAssembled
<1> QED
  BY <1>2, <1>4, <1>5

LEMMA PromptsMove ==
  ASSUME K!ConfirmNames, ConfirmInv,
         (\E c \in Confirms : K!AskConfirm(c) \/ K!Prompted(c) \/ K!NotPrompted(c))
         \/ (\E word \in {"once", "deny", "other"} : K!AnswerConfirm(word)) \/ K!HostForgets
  PROVE  ConfirmInv'
<1>1. UNCHANGED <<ask, allowed, stray, ran>>
  BY DEF K!AskConfirm, K!Prompted, K!NotPrompted, K!AnswerConfirm, K!HostForgets,
         K!hostVars, K!ownerVars
<1>2. AsksKeep
  BY <1>1, AsksStay DEF ConfirmInv, ConfirmTypes
<1>3. ConfirmTypes
  BY DEF ConfirmInv
<1>4. ASSUME NEW c \in Confirms, K!AskConfirm(c) PROVE PromptsKeep
  BY <1>3, <1>4 DEF ConfirmTypes, K!AskConfirm, PromptsKeep, PromptInv
<1>5. ASSUME NEW c \in Confirms, K!Prompted(c) PROVE PromptsKeep
  BY <1>3, <1>5 DEF ConfirmInv, ConfirmTypes, K!Prompted, PromptsKeep, PromptInv
<1>6. ASSUME NEW c \in Confirms, K!NotPrompted(c) PROVE PromptsKeep
  <2>1. /\ prompt' = [prompt EXCEPT ![c] = "gone"] /\ confirm' = K!None /\ registry' = registry
        /\ crossed' = (crossed \/ confirm \notin {K!None, c})
    BY <1>6 DEF K!NotPrompted
  <2>2. ~crossed' => ~crossed /\ confirm \in {K!None, c}
    BY <2>1
  <2>3. PromptInv'
    BY <1>3, <2>1, <2>2 DEF ConfirmInv, ConfirmTypes, PromptInv, K!ConfirmNames
  <2> QED
    BY <1>3, <2>1, <2>3 DEF ConfirmTypes, PromptsKeep
<1>7. ASSUME NEW word \in {"once", "deny", "other"}, K!AnswerConfirm(word) PROVE PromptsKeep
  <2>1. /\ confirm \in Confirms /\ confirm' = K!None /\ crossed' = crossed
        /\ registry' \in {registry, K!None}
        /\ \/ prompt' = [prompt EXCEPT ![confirm] = "done"]
           \/ prompt' = [prompt EXCEPT ![confirm] = "gone"]
    BY <1>3, <1>7 DEF ConfirmTypes, K!AnswerConfirm
  <2>2. PromptInv'
    BY <1>3, <2>1 DEF ConfirmInv, ConfirmTypes, PromptInv, K!ConfirmNames
  <2> QED
    BY <1>3, <2>1, <2>2 DEF ConfirmTypes, PromptsKeep
<1>8. ASSUME K!HostForgets PROVE PromptsKeep
  <2>1. crossed' = crossed /\ K!ConfirmExpires
    BY <1>8 DEF K!HostForgets
  <2>2. CASE /\ confirm \in Confirms /\ confirm' = K!None /\ registry' = registry
             /\ prompt' = [prompt EXCEPT ![confirm] = "gone"]
    <3>1. PromptInv'
      BY <1>3, <2>1, <2>2 DEF ConfirmInv, ConfirmTypes, PromptInv, K!ConfirmNames
    <3> QED
      BY <1>3, <2>2, <3>1 DEF ConfirmTypes, PromptsKeep
  <2>3. CASE registry' = K!None /\ UNCHANGED <<confirm, prompt>>
    <3>1. PromptInv'
      BY <2>1, <2>3 DEF PromptInv, K!ConfirmNames
    <3> QED
      BY <1>3, <2>3, <3>1 DEF ConfirmTypes, PromptsKeep
  <2> QED
    BY <1>3, <2>1, <2>2, <2>3 DEF K!ConfirmExpires, ConfirmTypes
<1> QED
  BY <1>2, <1>4, <1>5, <1>6, <1>7, <1>8, ConfirmAssembled

LEMMA ConfirmNext == K!ConfirmNames /\ ConfirmInv /\ [K!Next]_K!vars => ConfirmInv'
<1> SUFFICES ASSUME K!ConfirmNames, ConfirmInv, [K!Next]_K!vars PROVE ConfirmInv'
  OBVIOUS
<1>1. CASE UNCHANGED K!vars
  BY <1>1 DEF K!vars, ConfirmInv, ConfirmTypes, AnsweredInv, PromptInv,
     K!AskRunsOnItsOwnAnswer
<1>2. CASE K!Next
  BY <1>2, CardsKeep, ReturnsKeep, ExpiresKeeps, RepliesKeep, ButtonKeeps, PromptsMove DEF
     K!Next
<1> QED
  BY <1>1, <1>2

\* A call under the mode "ask" runs only when the owner said yes to its own card,
\* or to an older card whose code it was given before its own arrived: no bare
\* word, other code, other card of the session or lasting scope lets it through.
THEOREM AskedCallsAreAnswered ==
  ASSUME K!ConfirmNames
  PROVE  K!Spec => []K!AskRunsOnItsOwnAnswer
<1>1. K!Init => ConfirmInv
  BY ConfirmStarts
<1>2. ConfirmInv /\ [K!Next]_K!vars => ConfirmInv'
  BY ConfirmNext
<1>3. ConfirmInv => K!AskRunsOnItsOwnAnswer
  BY DEF ConfirmInv
<1> QED
  BY <1>1, <1>2, <1>3, PTL DEF K!Spec

\* The prompt that the owner has and the host waits for is the one a bare word
\* answers, however prompts, answers, failures and timeouts of others interleave,
\* unless another prompt failed while one was pending.
THEOREM BareWordAnswersNewest ==
  ASSUME K!ConfirmNames
  PROVE  K!Spec => []K!NewestPromptAnswered
<1>1. K!Init => ConfirmInv
  BY ConfirmStarts
<1>2. ConfirmInv /\ [K!Next]_K!vars => ConfirmInv'
  BY ConfirmNext
<1>3. ConfirmInv => K!NewestPromptAnswered
  BY DEF ConfirmInv, PromptInv, K!NewestPromptAnswered
<1> QED
  BY <1>1, <1>2, <1>3, PTL DEF K!Spec

-----------------------------------------------------------------------------
(* The first greeting, with constants and variables of its own, of which   *)
(* ends counts the crashes of the process.                                 *)

CONSTANTS
  Tasks,          \* tasks of one process
  MaxActivations, MaxReadies, MaxCrashes, MaxFaults, MaxStale

VARIABLES
  pairing,    \* which activation the row belongs to
  sent,       \* bootstrap_sent
  claim,      \* bootstrap_claimed_at: Free, or the number of the claim
  stale,      \* the claim of the row is older than ten minutes
  claims,     \* claims made so far: the clock
  task,       \* the dispatch tasks of the running process
  visible,    \* _visible_sends of the owner's conversation, in this process
  greeted,    \* per activation: greetings the owner saw
  excused,    \* activations whose record of the greeting was lost or came late
  done,       \* activations one of whose turns returned or saw a message go out
  readies, ends, faults, stales     \* bounds

W == INSTANCE Greeting WITH crashes <- ends

Pairings == 1..MaxActivations
Turning(t) == task[t].pc \in {"turn", "said"}

GreetTypes ==
  /\ task \in [Tasks -> [pc : {"none", "waiting", "turn", "said"}, claim : Nat,
                         pairing : Nat, before : Nat]]
  /\ pairing \in Pairings /\ sent \in BOOLEAN /\ stale \in BOOLEAN
  /\ claims \in Nat /\ claim \in 0..claims /\ visible \in Nat
  /\ greeted \in [Pairings -> Nat] /\ excused \subseteq Pairings /\ done \subseteq Pairings
  /\ \A t \in Tasks : task[t].claim <= claims

\* A turn has a claim of its own for a pairing that was reached, and what is in
\* the row is a claim of the present pairing.
ClaimsInv ==
  /\ \A t \in Tasks : Turning(t) =>
       /\ task[t].claim >= 1 /\ task[t].pairing \in 1..pairing
       /\ task[t].claim = claim => task[t].pairing = pairing
  /\ \A t, u \in Tasks : Turning(t) /\ Turning(u) /\ task[t].claim = task[u].claim => t = u

\* What a turn has seen go out counts for its pairing.
SeenInv == \A t \in Tasks : Turning(t) =>
  /\ visible >= task[t].before
  /\ task[t].pc = "said" => visible > task[t].before
  /\ visible > task[t].before => task[t].pairing \in done

\* Unless the pairing is excused its turn holds the row's claim, ...
RowInv == \A t \in Tasks :
  Turning(t) /\ task[t].pairing = pairing /\ pairing \notin excused
    => claim = task[t].claim /\ ~sent

\* ... is its only one, and greets first; who has greeted is there until the row
\* is marked.
OnceInv == \A a \in Pairings \ excused :
  /\ \A t, u \in Tasks :
       Turning(t) /\ Turning(u) /\ task[t].pairing = a /\ task[u].pairing = a => t = u
  /\ greeted[a] <= 1
  /\ \A t \in Tasks : task[t].pc = "turn" /\ task[t].pairing = a => greeted[a] = 0
  /\ a > pairing => greeted[a] = 0
  /\ a = pairing /\ greeted[a] > 0 /\ ~sent =>
       \E t \in Tasks : task[t].pc = "said" /\ task[t].pairing = a

GreetInv == GreetTypes /\ ClaimsInv /\ SeenInv /\ RowInv /\ OnceInv /\ W!MarkedByOwnTurn

LEMMA GreetStarts == W!GreetingConstants /\ W!Init => GreetInv
<1> SUFFICES ASSUME W!GreetingConstants, W!Init PROVE GreetInv
  OBVIOUS
<1>1. GreetTypes
  <2>1. task = [t \in Tasks |-> W!NoTask] /\ claims = 0
    BY DEF W!Init
  <2>2. W!NoTask \in [pc : {"none", "waiting", "turn", "said"},
                      claim : Nat, pairing : Nat, before : Nat]
    BY DEF W!NoTask, W!Free
  <2>3. W!NoTask.claim <= 0
    BY DEF W!NoTask, W!Free
  <2>4. pairing \in Pairings /\ greeted \in [Pairings -> Nat]
    BY DEF W!GreetingConstants, W!Init, Pairings
  <2>5. \A t \in Tasks : task[t] = W!NoTask
    BY <2>1
  <2>6. task \in [Tasks -> [pc : {"none", "waiting", "turn", "said"}, claim : Nat,
                           pairing : Nat, before : Nat]]
    BY <2>1, <2>2
  <2>7. \A t \in Tasks : task[t].claim <= claims
    BY <2>1, <2>3, <2>5
  <2>8. sent \in BOOLEAN /\ stale \in BOOLEAN /\ excused \subseteq Pairings /\ done \subseteq Pairings
    BY DEF W!Init
  <2>9. claims \in Nat /\ claim \in 0..claims /\ visible \in Nat
    BY DEF W!Init, W!Free
  <2> QED
    BY <2>4, <2>6, <2>7, <2>8, <2>9 DEF GreetTypes
<1>2. \A t \in Tasks : ~Turning(t)
  BY DEF W!Init, Turning, W!NoTask
<1>3. ClaimsInv /\ SeenInv /\ RowInv /\ W!MarkedByOwnTurn
  BY <1>2 DEF W!Init, ClaimsInv, SeenInv, RowInv, W!MarkedByOwnTurn
<1>4. OnceInv
  BY <1>2 DEF W!Init, OnceInv, Pairings, Turning
<1> QED
  BY <1>1, <1>3, <1>4 DEF GreetInv

\* A task that is neither begun nor ended, or was not a turn, leaves the others.
LEMMA GreetReadyKeeps ==
  ASSUME W!GreetingConstants, GreetInv, NEW t \in Tasks, W!Ready(t) \/ W!Cancel(t)
  PROVE  GreetInv'
<1>1. /\ ~Turning(t) /\ \A u \in Tasks : Turning(u)' <=> Turning(u)
      /\ \A u \in Tasks : Turning(u) => task'[u] = task[u]
      /\ task' \in [Tasks -> [pc : {"none", "waiting", "turn", "said"}, claim : Nat,
                              pairing : Nat, before : Nat]]
      /\ \A u \in Tasks : task'[u].claim <= claims
      /\ \A u \in Tasks : task'[u].pc = "turn" => task[u] = task'[u]
  BY DEF W!Ready, W!Cancel, GreetInv, GreetTypes, Turning, W!NoTask, W!Free
<1>2. UNCHANGED <<pairing, sent, claim, stale, claims, visible, greeted, excused, done>>
  BY DEF W!Ready, W!Cancel
<1>3. \A u \in Tasks : task[u].pc = "said" => task'[u] = task[u]
  BY <1>1 DEF Turning
<1>4. GreetTypes' /\ ClaimsInv' /\ SeenInv' /\ RowInv' /\ W!MarkedByOwnTurn'
  BY <1>1, <1>2, <1>3 DEF GreetInv, GreetTypes, ClaimsInv, SeenInv, RowInv,
     W!MarkedByOwnTurn, Pairings
<1>5. OnceInv'
  BY <1>1, <1>2, <1>3 DEF GreetInv, OnceInv, Pairings
<1> QED
  BY <1>4, <1>5 DEF GreetInv

LEMMA ClaimKeeps ==
  ASSUME W!GreetingConstants, GreetInv, NEW t \in Tasks, W!Claim(t)
  PROVE  GreetInv'
<1>1. CASE ~W!Claimable
  <2>1. /\ ~Turning(t) /\ \A u \in Tasks : Turning(u)' <=> Turning(u)
        /\ \A u \in Tasks : Turning(u) => task'[u] = task[u]
        /\ task' \in [Tasks -> [pc : {"none", "waiting", "turn", "said"}, claim : Nat,
                                pairing : Nat, before : Nat]]
        /\ \A u \in Tasks : task'[u].claim <= claims
        /\ \A u \in Tasks : task'[u].pc \in {"turn", "said"} => task[u] = task'[u]
    BY <1>1 DEF W!Claim, GreetInv, GreetTypes, Turning, W!NoTask, W!Free
  <2>2. UNCHANGED <<pairing, sent, claim, stale, claims, visible, greeted, excused, done>>
    BY <1>1 DEF W!Claim
  <2>3. \A u \in Tasks : task[u].pc = "said" => task'[u] = task[u]
    BY <2>1 DEF Turning
  <2>4. GreetTypes' /\ ClaimsInv' /\ SeenInv' /\ RowInv' /\ W!MarkedByOwnTurn'
    BY <2>1, <2>2, <2>3 DEF GreetInv, GreetTypes, ClaimsInv, SeenInv, RowInv,
       W!MarkedByOwnTurn, Pairings
  <2>5. OnceInv'
    BY <2>1, <2>2, <2>3 DEF GreetInv, OnceInv, Pairings
  <2> QED
    BY <2>4, <2>5 DEF GreetInv
<1>2. CASE W!Claimable
  <2>1. /\ claims' = claims + 1 /\ claim' = claims + 1 /\ stale' = FALSE
        /\ task' = [task EXCEPT ![t] = [pc |-> "turn", claim |-> claims + 1,
                                        pairing |-> pairing, before |-> visible]]
        /\ excused' = IF claim # W!Free THEN excused \union {pairing} ELSE excused
        /\ UNCHANGED <<pairing, sent, visible, greeted, done>>
    BY <1>2 DEF W!Claim
  <2>2. /\ task'[t] = [pc |-> "turn", claim |-> claims + 1, pairing |-> pairing,
                       before |-> visible]
        /\ \A u \in Tasks \ {t} : task'[u] = task[u]
        /\ ~sent /\ ~Turning(t)
    BY <1>2, <2>1 DEF W!Claim, W!Claimable, GreetInv, GreetTypes, Turning
  <2>3. GreetTypes'
    <3>1. task' \in [Tasks -> [pc : {"none", "waiting", "turn", "said"}, claim : Nat,
                               pairing : Nat, before : Nat]]
      BY <2>1 DEF GreetInv, GreetTypes, Pairings
    <3>2. \A u \in Tasks : task'[u].claim <= claims'
      BY <2>1, <2>2 DEF GreetInv, GreetTypes
    <3>3. claims' \in Nat /\ claim' \in 0..claims' /\ excused' \subseteq Pairings
      BY <2>1 DEF GreetInv, GreetTypes
    <3> QED
      BY <2>1, <3>1, <3>2, <3>3 DEF GreetInv, GreetTypes, Pairings
  <2>4. ClaimsInv'
    BY <2>1, <2>2 DEF GreetInv, GreetTypes, ClaimsInv, Turning, Pairings
  <2>5. SeenInv'
    BY <2>1, <2>2 DEF GreetInv, GreetTypes, SeenInv, Turning
  <2>6. \/ pairing \in excused'
        \/ claim = W!Free /\ \A u \in Tasks : Turning(u) => task[u].pairing # pairing
    BY <2>1 DEF GreetInv, RowInv, ClaimsInv, GreetTypes, W!Free
  <2>7. RowInv'
    BY <2>1, <2>2, <2>6 DEF GreetInv, GreetTypes, RowInv, Turning
  <2>8. ASSUME NEW a \in Pairings \ excused', a # pairing
        PROVE  /\ \A x, u \in Tasks : Turning(x)' /\ Turning(u)' /\ task'[x].pairing = a
                                      /\ task'[u].pairing = a => x = u
               /\ greeted[a] <= 1
               /\ \A u \in Tasks : task'[u].pc = "turn" /\ task'[u].pairing = a => greeted[a] = 0
               /\ a > pairing => greeted[a] = 0
    <3>1. a \in Pairings \ excused
      BY <2>1, <2>8
    <3>2. \A u \in Tasks : task'[u].pairing = a => task'[u] = task[u] /\ u # t
      BY <2>2, <2>8
    <3> QED
      BY <3>1, <3>2 DEF GreetInv, OnceInv, Turning
  <2>9. ASSUME pairing \notin excused'
        PROVE  /\ \A x, u \in Tasks : Turning(x)' /\ Turning(u)' /\ task'[x].pairing = pairing
                                      /\ task'[u].pairing = pairing => x = u
               /\ greeted[pairing] = 0
    <3>1. pairing \in Pairings \ excused
      BY <2>1, <2>9 DEF GreetInv, GreetTypes
    <3>2. \A u \in Tasks : Turning(u) => task[u].pairing # pairing
      BY <2>6, <2>9
    <3>3. greeted[pairing] = 0
      BY <2>2, <3>1, <3>2 DEF GreetInv, OnceInv, GreetTypes, Turning
    <3>4. \A u \in Tasks : Turning(u)' /\ task'[u].pairing = pairing => u = t
      BY <2>2, <3>2 DEF Turning
    <3> QED
      BY <3>3, <3>4
  <2>10. OnceInv'
    BY <2>1, <2>8, <2>9 DEF OnceInv, GreetInv, GreetTypes
  <2>11. W!MarkedByOwnTurn'
    BY <2>1, <2>2 DEF W!MarkedByOwnTurn
  <2> QED
    BY <2>3, <2>4, <2>5, <2>7, <2>10, <2>11 DEF GreetInv
<1> QED
  BY <1>1, <1>2

LEMMA SayKeeps ==
  ASSUME W!GreetingConstants, GreetInv, NEW t \in Tasks, W!Say(t)
  PROVE  GreetInv'
<1> DEFINE a == task[t].pairing
<1>1. /\ task[t].pc = "turn" /\ visible' = visible + 1
      /\ done' = done \union W!Turns /\ UNCHANGED <<pairing, sent, claim, stale, claims, excused>>
  BY DEF W!Say
<1>2. /\ task'[t] = [task[t] EXCEPT !.pc = "said"] /\ \A u \in Tasks \ {t} : task'[u] = task[u]
      /\ task' \in [Tasks -> [pc : {"none", "waiting", "turn", "said"}, claim : Nat,
                              pairing : Nat, before : Nat]]
  BY DEF W!Say, GreetInv, GreetTypes
<1>3. a \in 1..pairing /\ a \in Pairings /\ pairing \in Nat
  BY <1>1 DEF W!GreetingConstants, GreetInv, GreetTypes, ClaimsInv, Turning, Pairings
<1>4. /\ greeted' \in [Pairings -> Nat] /\ greeted'[a] = greeted[a] + 1
      /\ \A b \in Pairings \ {a} : greeted'[b] = greeted[b]
  BY <1>3 DEF W!Say, GreetInv, GreetTypes, Pairings
<1>5. \A u \in Tasks : /\ task'[u].pairing = task[u].pairing /\ task'[u].claim = task[u].claim
                        /\ task'[u].before = task[u].before /\ (Turning(u)' <=> Turning(u))
  BY <1>1, <1>2 DEF GreetInv, GreetTypes, Turning
<1>6. \A u \in Tasks : Turning(u) => task[u].pairing \in done'
  BY <1>1 DEF W!Turns, Turning
<1>7. GreetTypes'
  <2>1. W!Turns \subseteq Pairings
    BY DEF W!GreetingConstants, W!Turns, GreetInv, GreetTypes, ClaimsInv, Turning, Pairings
  <2> QED
    BY <1>1, <1>2, <1>4, <1>5, <2>1 DEF GreetInv, GreetTypes, Pairings
<1>8. ClaimsInv'
  BY <1>1, <1>5 DEF GreetInv, ClaimsInv
<1>9. SeenInv'
  BY <1>1, <1>5, <1>6 DEF GreetInv, GreetTypes, SeenInv
<1>10. RowInv' /\ W!MarkedByOwnTurn'
  BY <1>1, <1>5 DEF GreetInv, RowInv, W!MarkedByOwnTurn
<1>11. OnceInv'
  <2> SUFFICES ASSUME NEW b \in Pairings \ excused
      PROVE  /\ \A x, u \in Tasks : Turning(x)' /\ Turning(u)' /\ task'[x].pairing = b
                                    /\ task'[u].pairing = b => x = u
             /\ greeted'[b] <= 1
             /\ \A u \in Tasks : task'[u].pc = "turn" /\ task'[u].pairing = b => greeted'[b] = 0
             /\ b > pairing => greeted'[b] = 0
             /\ b = pairing /\ greeted'[b] > 0 /\ ~sent =>
                  \E u \in Tasks : task'[u].pc = "said" /\ task'[u].pairing = b
    BY <1>1 DEF OnceInv, Pairings
  <2>1. CASE b # a
    BY <1>2, <1>4, <1>5, <2>1 DEF GreetInv, OnceInv
  <2>2. CASE b = a
    <3>1. greeted[a] = 0 /\ \A u \in Tasks : Turning(u) /\ task[u].pairing = a => u = t
      BY <1>1, <2>2 DEF GreetInv, OnceInv, Turning
    <3>2. task'[t].pc = "said" /\ task'[t].pairing = a
      BY <1>2, <1>5 DEF GreetInv, GreetTypes
    <3>3. \A u \in Tasks : task'[u].pc = "turn" => task'[u].pairing # a
      BY <1>2, <1>5, <3>1, <3>2 DEF Turning
    <3> QED
      BY <1>3, <1>4, <1>5, <2>2, <3>1, <3>2, <3>3
  <2> QED
    BY <2>1, <2>2
<1> QED
  BY <1>7, <1>8, <1>9, <1>10, <1>11 DEF GreetInv

LEMMA OtherKeeps ==
  ASSUME W!GreetingConstants, GreetInv, W!Other
  PROVE  GreetInv'
<1>1. /\ visible' = visible + 1 /\ done' = done \union W!Turns
      /\ UNCHANGED <<pairing, sent, claim, stale, claims, task, greeted, excused>>
  BY DEF W!Other
<1>2. W!Turns \subseteq Pairings /\ \A u \in Tasks : Turning(u) => task[u].pairing \in done'
  BY <1>1 DEF W!GreetingConstants, W!Turns, GreetInv, GreetTypes, ClaimsInv, Turning,
     Pairings
<1>3. GreetTypes' /\ SeenInv'
  BY <1>1, <1>2 DEF GreetInv, GreetTypes, SeenInv, Pairings, Turning
<1>4. ClaimsInv' /\ RowInv' /\ OnceInv' /\ W!MarkedByOwnTurn'
  BY <1>1 DEF GreetInv, ClaimsInv, RowInv, OnceInv, W!MarkedByOwnTurn, Pairings, Turning
<1> QED
  BY <1>3, <1>4 DEF GreetInv

\* The end of a turn: the row is marked, the claim given back, or neither is recorded.
LEMMA EndsKeeps ==
  ASSUME W!GreetingConstants, GreetInv, NEW t \in Tasks, NEW ok \in BOOLEAN, W!Ends(t, ok)
  PROVE  GreetInv'
<1>1. /\ Turning(t)
      /\ \/ W!Mark(t) /\ UNCHANGED excused /\ (ok \/ visible > task[t].before)
         \/ W!Release(t) /\ UNCHANGED excused /\ visible = task[t].before
         \/ excused' = excused \union {task[t].pairing} /\ UNCHANGED <<sent, claim, stale>>
      /\ done' = IF ok THEN done \union {task[t].pairing} ELSE done
      /\ UNCHANGED <<pairing, claims, visible, greeted>>
  BY DEF W!Ends, W!Lost, Turning
<1>2. /\ ~Turning(t)' /\ task'[t].claim = 0
      /\ \A u \in Tasks \ {t} : task'[u] = task[u] /\ (Turning(u)' <=> Turning(u))
      /\ task' \in [Tasks -> [pc : {"none", "waiting", "turn", "said"}, claim : Nat,
                              pairing : Nat, before : Nat]]
  BY DEF W!Ends, GreetInv, GreetTypes, Turning, W!NoTask, W!Free
<1>3. task[t].pairing \in Pairings /\ task[t].claim >= 1 /\ task[t].claim \in Nat
  BY <1>1 DEF W!GreetingConstants, GreetInv, GreetTypes, ClaimsInv, Pairings
<1>4. /\ claim' \in {claim, 0} /\ stale' \in BOOLEAN /\ sent' \in BOOLEAN
      /\ claim # task[t].claim => claim' = claim /\ sent' = sent
      /\ excused \subseteq excused' /\ excused' \subseteq Pairings
      /\ sent => sent'
  <2>1. stale \in BOOLEAN /\ sent \in BOOLEAN /\ excused \subseteq Pairings
    BY DEF GreetInv, GreetTypes
  <2>2. CASE W!Mark(t) /\ UNCHANGED excused
    BY <2>1, <2>2 DEF W!Mark, W!Marks
  <2>3. CASE W!Release(t) /\ UNCHANGED excused
    BY <2>1, <2>3 DEF W!Release, W!Released, W!Free
  <2>4. CASE excused' = excused \union {task[t].pairing} /\ UNCHANGED <<sent, claim, stale>>
    BY <1>3, <2>1, <2>4
  <2> QED
    BY <1>1, <2>2, <2>3, <2>4
<1>5. GreetTypes'
  <2>1. \A u \in Tasks : task'[u].claim <= claims'
    BY <1>1, <1>2 DEF GreetInv, GreetTypes
  <2>2. done' \subseteq Pairings /\ claim' \in 0..claims'
    BY <1>1, <1>3, <1>4 DEF GreetInv, GreetTypes
  <2> QED
    BY <1>1, <1>2, <1>4, <2>1, <2>2 DEF GreetInv, GreetTypes, Pairings
<1>6. ClaimsInv'
  BY <1>1, <1>2, <1>4 DEF GreetInv, GreetTypes, ClaimsInv
<1>7. SeenInv'
  BY <1>1, <1>2 DEF GreetInv, GreetTypes, SeenInv, Turning
<1>8. RowInv'
  <2> SUFFICES ASSUME NEW u \in Tasks, Turning(u)', task'[u].pairing = pairing, pairing \notin excused'
               PROVE  claim' = task'[u].claim /\ ~sent'
    BY <1>1 DEF RowInv
  <2>1. u # t /\ Turning(u) /\ task'[u] = task[u]
    BY <1>2
  <2>2. claim = task[u].claim /\ ~sent
    BY <1>4, <2>1 DEF GreetInv, RowInv
  <2>3. task[u].claim # task[t].claim
    BY <1>1, <2>1 DEF GreetInv, ClaimsInv
  <2> QED
    BY <1>4, <2>1, <2>2, <2>3
<1>9. W!MarkedByOwnTurn'
  <2> SUFFICES ASSUME sent', ~sent PROVE pairing \in done'
    BY <1>1 DEF GreetInv, W!MarkedByOwnTurn
  <2>1. W!Mark(t) /\ W!Marks(t) /\ (ok \/ visible > task[t].before)
    BY <1>1 DEF W!Release, W!Mark
  <2>2. task[t].pairing = pairing
    BY <1>1, <2>1 DEF W!Marks, GreetInv, ClaimsInv
  <2>3. CASE ok
    BY <1>1, <2>2, <2>3
  <2>4. CASE visible > task[t].before
    BY <1>1, <2>2, <2>4 DEF GreetInv, SeenInv
  <2> QED
    BY <2>1, <2>3, <2>4
<1>10. OnceInv'
  <2> SUFFICES ASSUME NEW b \in Pairings \ excused'
      PROVE  /\ \A x, u \in Tasks : Turning(x)' /\ Turning(u)' /\ task'[x].pairing = b
                                    /\ task'[u].pairing = b => x = u
             /\ greeted[b] <= 1
             /\ \A u \in Tasks : task'[u].pc = "turn" /\ task'[u].pairing = b => greeted[b] = 0
             /\ b > pairing => greeted[b] = 0
             /\ b = pairing /\ greeted[b] > 0 /\ ~sent' =>
                  \E u \in Tasks : task'[u].pc = "said" /\ task'[u].pairing = b
    BY <1>1 DEF OnceInv, Pairings
  <2>1. b \in Pairings \ excused
    BY <1>4
  <2>2. ASSUME b = pairing, greeted[b] > 0, ~sent'
        PROVE  \E u \in Tasks : task'[u].pc = "said" /\ task'[u].pairing = b
    <3>1. ~sent
      BY <1>4, <2>2
    <3>2. PICK u \in Tasks : task[u].pc = "said" /\ task[u].pairing = b
      BY <2>1, <2>2, <3>1 DEF GreetInv, OnceInv
    <3>3. u # t
      <4> SUFFICES ASSUME u = t PROVE FALSE
        OBVIOUS
      <4>1. W!Marks(t)
        BY <1>1, <2>1, <2>2, <3>1, <3>2 DEF W!Marks, GreetInv, RowInv
      <4>2. ~W!Mark(t)
        BY <2>2, <4>1 DEF W!Mark
      <4>3. visible > task[t].before /\ visible \in Nat /\ task[t].before \in Nat
        BY <3>2 DEF GreetInv, GreetTypes, SeenInv, Turning
      <4> QED
        BY <1>1, <2>1, <3>2, <4>2, <4>3
    <3> QED
      BY <1>2, <3>2, <3>3
  <2>3. \A u \in Tasks : Turning(u)' => u # t /\ Turning(u) /\ task'[u] = task[u]
    BY <1>2
  <2>4. \A u \in Tasks : task'[u].pc = "turn" => task'[u] = task[u]
    BY <2>3 DEF Turning
  <2>5. /\ greeted[b] <= 1 /\ (b > pairing => greeted[b] = 0)
        /\ \A u \in Tasks : task'[u].pc = "turn" /\ task'[u].pairing = b => greeted[b] = 0
    BY <2>1, <2>4 DEF GreetInv, OnceInv
  <2>6. \A x, u \in Tasks : Turning(x)' /\ Turning(u)' /\ task'[x].pairing = b
                             /\ task'[u].pairing = b => x = u
    BY <2>1, <2>3 DEF GreetInv, OnceInv
  <2> QED
    BY <2>2, <2>5, <2>6
<1> QED
  BY <1>5, <1>6, <1>7, <1>8, <1>9, <1>10 DEF GreetInv

LEMMA ActivateKeeps ==
  ASSUME W!GreetingConstants, GreetInv, W!Activate
  PROVE  GreetInv'
<1>1. /\ pairing' = pairing + 1 /\ pairing' \in Pairings /\ sent' = FALSE /\ claim' = 0
      /\ stale' = FALSE /\ UNCHANGED <<claims, task, visible, greeted, excused, done>>
  BY DEF W!GreetingConstants, W!Activate, GreetInv, GreetTypes, Pairings, W!Free
<1>2. \A u \in Tasks : Turning(u) => /\ task[u].claim >= 1 /\ task[u].pairing \in 1..pairing
                                       /\ task[u].pairing # pairing'
  BY <1>1 DEF W!GreetingConstants, GreetInv, GreetTypes, ClaimsInv, Pairings
<1>3. GreetTypes' /\ SeenInv' /\ W!MarkedByOwnTurn'
  <2>1. sent' \in BOOLEAN /\ stale' \in BOOLEAN
    BY <1>1
  <2>2. claim' \in 0..claims
    BY <1>1 DEF GreetInv, GreetTypes
  <2>3. GreetTypes'
    BY <1>1, <2>1, <2>2 DEF GreetInv, GreetTypes, Pairings
  <2> QED
    BY <1>1, <2>3 DEF GreetInv, SeenInv, W!MarkedByOwnTurn, Turning
<1>4. ClaimsInv' /\ RowInv'
  BY <1>1, <1>2 DEF W!GreetingConstants, GreetInv, GreetTypes, ClaimsInv, RowInv,
     Pairings, Turning
<1>5. pairing' \notin excused => greeted[pairing'] = 0
  BY <1>1 DEF GreetInv, GreetTypes, OnceInv, Pairings
<1>6. OnceInv'
  BY <1>1, <1>5 DEF GreetInv, GreetTypes, OnceInv, Pairings, Turning
<1> QED
  BY <1>3, <1>4, <1>6 DEF GreetInv

LEMMA TenMinutesKeeps ==
  ASSUME W!GreetingConstants, GreetInv, W!TenMinutes
  PROVE  GreetInv'
BY DEF W!TenMinutes, GreetInv, GreetTypes, ClaimsInv, SeenInv, RowInv, OnceInv,
       W!MarkedByOwnTurn, Pairings, Turning

LEMMA CrashKeeps ==
  ASSUME W!GreetingConstants, GreetInv, W!Crash
  PROVE  GreetInv'
<1>1. /\ \A u \in Tasks : task'[u] = W!NoTask
      /\ task' \in [Tasks -> [pc : {"none", "waiting", "turn", "said"}, claim : Nat,
                              pairing : Nat, before : Nat]]
      /\ visible' = 0
      /\ excused' = excused \union {task[t].pairing : t \in {u \in Tasks : task[u].pc = "said"}}
      /\ UNCHANGED <<pairing, sent, claim, stale, claims, greeted, done>>
  BY DEF W!Crash, W!NoTask, W!Free
<1>2. \A u \in Tasks : ~Turning(u)' /\ task'[u].claim = 0 /\ task'[u].pc = "none"
  BY <1>1 DEF Turning, W!NoTask, W!Free
<1>3. excused' \subseteq Pairings
  <2>1. \A u \in Tasks : task[u].pc = "said" => task[u].pairing \in Pairings
    BY DEF W!GreetingConstants, GreetInv, GreetTypes, ClaimsInv, Turning, Pairings
  <2> QED
    BY <1>1, <2>1 DEF GreetInv, GreetTypes
<1>4. GreetTypes'
  BY <1>1, <1>2, <1>3 DEF GreetInv, GreetTypes, Pairings
<1>5. ClaimsInv' /\ SeenInv' /\ RowInv' /\ W!MarkedByOwnTurn'
  BY <1>1, <1>2 DEF GreetInv, ClaimsInv, SeenInv, RowInv, W!MarkedByOwnTurn
<1>6. \A a \in Pairings \ excused' : \A u \in Tasks : task[u].pc = "said" => task[u].pairing # a
  BY <1>1
<1>7. OnceInv'
  BY <1>1, <1>2, <1>6 DEF GreetInv, OnceInv, Pairings
<1> QED
  BY <1>4, <1>5, <1>7 DEF GreetInv

LEMMA GreetNext == W!GreetingConstants /\ GreetInv /\ [W!Next]_W!vars => GreetInv'
<1> SUFFICES ASSUME W!GreetingConstants, GreetInv, [W!Next]_W!vars PROVE GreetInv'
  OBVIOUS
<1>1. CASE W!Next
  BY <1>1, GreetReadyKeeps, ClaimKeeps, SayKeeps, EndsKeeps, OtherKeeps, ActivateKeeps,
     TenMinutesKeeps, CrashKeeps DEF W!Next
<1>2. CASE UNCHANGED W!vars
  BY <1>2 DEF W!vars, GreetInv, GreetTypes, ClaimsInv, SeenInv, RowInv, OnceInv,
     W!MarkedByOwnTurn, Pairings, Turning
<1> QED
  BY <1>1, <1>2

\* The owner is greeted once for each pairing that no crash, lost write or taken
\* over claim excuses.
THEOREM OwnerGreetedOnce ==
  ASSUME W!GreetingConstants
  PROVE  W!Spec => []W!GreetedOnce
<1>1. W!Init => GreetInv
  BY GreetStarts
<1>2. GreetInv => W!GreetedOnce
  <2> SUFFICES ASSUME W!GreetingConstants, GreetInv, NEW a \in Pairings, a \notin excused
                PROVE  ~(greeted[a] > 1)
    BY DEF W!GreetedOnce, Pairings
  <2>1. greeted[a] <= 1 /\ greeted[a] \in Nat
    BY DEF GreetInv, GreetTypes, OnceInv
  <2> QED
    BY <2>1
<1>3. GreetInv /\ [W!Next]_W!vars => GreetInv'
  BY GreetNext
<1> QED
  BY <1>1, <1>2, <1>3, PTL DEF W!Spec

\* A pairing is marked as greeted by one of its own turns.
THEOREM MarkIsOwn ==
  ASSUME W!GreetingConstants
  PROVE  W!Spec => []W!MarkedByOwnTurn
<1>1. W!Init => GreetInv
  BY GreetStarts
<1>2. GreetInv => W!MarkedByOwnTurn
  BY DEF GreetInv
<1>3. GreetInv /\ [W!Next]_W!vars => GreetInv'
  BY GreetNext
<1> QED
  BY <1>1, <1>2, <1>3, PTL DEF W!Spec

-----------------------------------------------------------------------------
(* The maintenance of the history, with constants and variables of its own,*)
(* of which hist is the row, way the turns and halted that the conversation*)
(* is held.                                                                *)

CONSTANTS
    MaxEntries,   \* messages, numbered from 1
    News,         \* those that are the command /new
    RunBlocks,    \* blocks one run folds (3 in the code)
    MaxPlans,     \* how often a turn's end finds the history too large
    MaxHitches    \* deadlines, failures, replaced instances, host rotations

VARIABLES
    hist,     \* clawchat_history_state, see Fresh
    sid,      \* the host's session by its durable route
    ctx,      \* history: what each session has seen
    left,     \* history: what the budget left out of the windows it was shown
    n,        \* messages in the ledger
    way,      \* each message's way through prepare and the host
    cand,     \* the user's /new that has not been confirmed
    hook,     \* a reset of the user the host has reported
    halted,   \* the conversation is held
    worker,   \* start and maintain, see Off
    reset,    \* the shielded reset task
    plans, hitches, \* how often each happened
    renewals  \* history: the pending work whose resets were committed

H == INSTANCE HistoryMaintenance WITH
  MaxMsgs <- MaxEntries, MaxFaults <- MaxHitches, row <- hist, turn <- way,
  blocked <- halted, faults <- hitches

Pends == [why : {"none", "budget", "external", "renewed"}, cut : Nat,
          stage : {"none", "summary", "reset"}, host : Nat, id : Nat]
Rows == [gen : Nat, through : Nat, sum : Seq(H!Chat), bound : Nat, host : Nat, injFor : Nat,
         injNext : BOOLEAN, pend : Pends, fails : Nat, retry : Nat]
TurnRecords == [at : {"none", "arrived", "second", "handed", "running", "observed", "done"},
                text : BOOLEAN, cover : SUBSET H!Chat, left : SUBSET H!Chat, row : Rows, sid : Nat,
                tracked : BOOLEAN]
Workers == [at : {"off", "lock", "idle", "llm", "idle2", "resetting"}, renewed : BOOLEAN,
            row : Rows, todo : SUBSET H!Chat, more : BOOLEAN]
Resets == [at : {"off", "command", "reread"}, row : Rows, old : Nat]
Cands == [old : Nat, mid : Nat]
Entries == [id : Nat, cut : Nat, from : Nat, sum : Seq(H!Chat)]

HistoryTypes ==
  /\ hist \in Rows /\ worker \in Workers /\ reset \in Resets /\ way \in [H!Msgs -> TurnRecords]
  /\ cand \in Cands /\ hook \in Nat /\ n \in 0..MaxEntries
  /\ sid \in Nat /\ ctx \in Seq(SUBSET H!Chat) /\ sid = Len(ctx) /\ sid >= 1
  /\ left \in Seq(SUBSET H!Chat) /\ sid = Len(left)
  /\ renewals \in Seq(Entries)

\* A copy of the row that is no longer the stored one is of an older generation,
\* and what it has in its summary and before its boundary stays there.
Older(c, r) ==
  /\ c.gen < r.gen \/ c = r
  /\ c.bound <= r.bound /\ H!ToSet(c.sum) \subseteq H!ToSet(r.sum)
Behind(c) == Older(c, hist)
CopiesInv == /\ Behind(H!Fresh) /\ Behind(worker.row) /\ Behind(reset.row)
             /\ \A m \in H!Msgs : Behind(way[m].row)

\* The summary is exact, and ends where the row says.
SumInv == H!Exact /\ \A i \in DOMAIN hist.sum : hist.sum[i] <= hist.through

\* The lane has the newest message, and boundaries come from commands in order.
HistoryLane ==
  /\ \A m \in H!Msgs : m <= n <=> way[m].at # "none"
  /\ \A m \in H!Msgs : way[m].at \in {"arrived", "second"} => m = n
  /\ hist.bound <= n
  /\ cand # H!NoCand => hist.bound <= cand.mid /\ cand.mid <= n

\* The host runs its turns one after the other.
TurnOrder ==
  /\ \A m \in H!Msgs : way[m].at \in {"running", "observed"} => m \in H!Chat
  /\ \A j, k \in H!Msgs :
       j < k /\ way[k].at \in {"running", "observed", "done"} => way[j].at = "done"

\* What a run has still to fold comes after its summary, without gaps, and what
\* it set out to fold is in one of the two, unless it leaves some for the next.
Whole(r) == \A k \in H!Chat : k <= r.pend.cut /\ k > r.bound => k \in H!ToSet(r.sum)
WorkInv ==
  /\ worker.at = "llm" =>
       /\ \A m \in worker.todo : m > worker.row.through
       /\ \A m \in worker.todo, k \in H!Chat :
            k < m /\ k > worker.row.through /\ k > worker.row.bound => k \in worker.todo
       /\ \A k \in H!Chat : k <= worker.row.pend.cut /\ k > worker.row.bound =>
            k \in H!ToSet(worker.row.sum) \/ k \in worker.todo \/ worker.more
  /\ worker.at = "idle2" => Whole(worker.row)
  /\ reset.at = "command" => Whole(reset.row)

\* A turn that carries the history carries all that came before it, but for what
\* the budget leaves out.
CoverInv ==
  /\ \A m \in H!Chat : way[m].at \in {"handed", "running"} /\ way[m].text =>
       \A k \in H!Chat : k < m /\ k > way[m].row.bound => k \in way[m].cover \cup way[m].left
  /\ \A m \in H!Chat : way[m].at \in {"running", "observed"} =>
       /\ way[m].sid \in 1..sid /\ {m} \cup way[m].cover \subseteq ctx[way[m].sid]
       /\ way[m].text => way[m].left \subseteq left[way[m].sid]

\* A session that was informed once has been shown every turn, but for what the
\* last window it was shown leaves out.
Shown == hist.injFor = sid =>
  \A m \in H!Chat : way[m].at \in {"running", "observed", "done"} /\ m > hist.bound =>
    m \in ctx[sid] \cup left[sid]
ShownInv == hist.injFor <= sid /\ Shown

HistoryInv == /\ HistoryTypes /\ CopiesInv /\ SumInv /\ HistoryLane /\ TurnOrder /\ WorkInv
              /\ CoverInv /\ ShownInv /\ H!RenewedAfterFold

-----------------------------------------------------------------------------
(* The operators on the row. *)

\* A step that only settles what is to be done: the summary stays.
Moves(r, s) ==
  /\ s \in Rows /\ (s = r \/ s.gen > r.gen)
  /\ s.sum = r.sum /\ s.through = r.through /\ s.injFor = r.injFor

LEMMA MovesOn ==
  ASSUME NEW r \in Rows, NEW s, NEW t, Moves(r, s), Moves(s, t)
  PROVE  Moves(r, t)
<1>1. r.gen \in Nat /\ s.gen \in Nat /\ t.gen \in Nat
  BY DEF Moves, Rows
<1> QED
  BY <1>1 DEF Moves

LEMMA StoredIs ==
  ASSUME NEW r \in Rows
  PROVE  /\ H!Stored(r) \in Rows /\ H!Stored(r).gen = r.gen + 1 /\ H!Stored(r).sum = r.sum
         /\ H!Stored(r).through = r.through /\ H!Stored(r).injFor = r.injFor
         /\ H!Stored(r).bound = r.bound /\ H!Stored(r).pend = r.pend /\ H!Stored(r).host = r.host
         /\ H!Stored(r).injNext = r.injNext /\ H!Stored(r).fails = r.fails /\ H!Stored(r).retry = r.retry
BY DEF H!Stored, Rows

\* A row of the same generation with the same summary, stored.
LEMMA StoredMoves ==
  ASSUME NEW r \in Rows, NEW s \in Rows, s.gen = r.gen, s.sum = r.sum, s.through = r.through,
         s.injFor = r.injFor
  PROVE  Moves(r, H!Stored(s)) /\ H!Stored(s).bound = s.bound
BY StoredIs DEF Moves, Rows

LEMMA NoPendTyped == H!NoPend \in Pends
BY DEF H!NoPend, Pends

LEMMA FailsMove ==
  ASSUME NEW r \in Rows
  PROVE  Moves(r, H!FailedOnce(r)) /\ H!FailedOnce(r).bound = r.bound
<1> DEFINE f == r.fails + 1
           b == H!Backoff(f)
           s == [r EXCEPT !.fails = f, !.retry = b]
<1>1. f \in Nat /\ f >= 1
  BY DEF Rows
<1>2. b \in Nat
  <2> HIDE DEF f
  <2> QED
    BY <1>1 DEF H!Backoff
<1> HIDE DEF f, b
<1>3. /\ s \in Rows /\ s.gen = r.gen /\ s.sum = r.sum /\ s.through = r.through
      /\ s.injFor = r.injFor /\ s.bound = r.bound
  BY <1>1, <1>2 DEF Rows
<1> HIDE DEF s
<1>4. H!FailedOnce(r) = H!Stored(s)
  BY DEF H!FailedOnce, s, f, b
<1> QED
  BY <1>3, <1>4, StoredMoves

LEMMA SettledMoves ==
  ASSUME NEW r \in Rows, NEW new \in Nat
  PROVE  Moves(r, H!Settled(r, new)) /\ H!Settled(r, new).bound = r.bound
<1> DEFINE s == [r EXCEPT !.host = new, !.injNext = TRUE, !.pend = H!NoPend,
                          !.fails = 0, !.retry = 0]
<1>1. /\ s \in Rows /\ s.gen = r.gen /\ s.sum = r.sum /\ s.through = r.through
      /\ s.injFor = r.injFor /\ s.bound = r.bound
  BY NoPendTyped DEF Rows
<1> HIDE DEF s
<1> QED
  BY <1>1, StoredMoves DEF H!Settled, s

LEMMA QueuedMoves ==
  ASSUME NEW r \in Rows, NEW why \in {"budget", "external", "renewed"}, NEW cut \in Nat,
         NEW bound \in Nat, NEW s \in H!Queued(r, why, cut, bound)
  PROVE  Moves(r, s) /\ (s.bound = r.bound \/ (bound # 0 /\ s.bound = bound))
<1> DEFINE Moved(b) == IF b = 0 THEN r ELSE [r EXCEPT !.bound = b]
           Pending(c) == [why |-> why, cut |-> c, stage |-> "summary", host |-> r.host,
                          id |-> r.gen]
           Work(c) == H!Stored([Moved(bound) EXCEPT !.pend = Pending(c)])
           thin == IF bound = 0 THEN r ELSE H!Stored([Moved(bound) EXCEPT !.injNext = TRUE])
<1>1. /\ Moved(bound) \in Rows /\ Moved(bound).gen = r.gen /\ Moved(bound).sum = r.sum
      /\ Moved(bound).through = r.through /\ Moved(bound).injFor = r.injFor
      /\ (Moved(bound).bound = r.bound \/ (bound # 0 /\ Moved(bound).bound = bound))
  BY DEF Rows
<1> DEFINE m == Moved(bound)
<1>2. ASSUME NEW c \in Nat
      PROVE  Moves(r, Work(c)) /\ (Work(c).bound = r.bound \/ (bound # 0 /\ Work(c).bound = bound))
  <2>1. Pending(c) \in Pends
    BY DEF Rows, Pends
  <2> DEFINE p == Pending(c)
  <2> HIDE DEF p, m
  <2> DEFINE w == [m EXCEPT !.pend = p]
  <2>2. /\ w \in Rows /\ w.gen = m.gen /\ w.sum = m.sum /\ w.through = m.through
        /\ w.injFor = m.injFor /\ w.bound = m.bound
    BY <1>1, <2>1 DEF Rows, m, p
  <2> HIDE DEF w
  <2> QED
    BY <1>1, <2>2, StoredMoves DEF w, m, p
<1>3. Moves(r, thin) /\ (thin.bound = r.bound \/ (bound # 0 /\ thin.bound = bound))
  <2>1. CASE bound = 0
    BY <2>1 DEF Moves
  <2>2. CASE bound # 0
    <3> HIDE DEF m
    <3> DEFINE w == [m EXCEPT !.injNext = TRUE]
    <3>1. /\ w \in Rows /\ w.gen = m.gen /\ w.sum = m.sum /\ w.through = m.through
          /\ w.injFor = m.injFor /\ w.bound = m.bound
      BY <1>1 DEF Rows, m
    <3> HIDE DEF w
    <3>2. Moves(r, H!Stored(w)) /\ (H!Stored(w).bound = r.bound \/ H!Stored(w).bound = bound)
      BY <1>1, <3>1, StoredMoves DEF m
    <3> QED
      BY <2>2, <3>2 DEF w, m
  <2> QED
    BY <2>1, <2>2
<1>4. Moves(r, r)
  BY DEF Moves
<1>5. \A k \in H!Interval(r, n, FALSE) \cup {0} : k \in Nat
  BY DEF H!Interval, H!Chat, H!Msgs
<1>6. \/ s = r \/ s = thin
      \/ \E c \in Nat : s = Work(c)
  <2> HIDE DEF Work, thin
  <2> QED
    BY <1>5 DEF H!Queued, Work, thin
<1> QED
  BY <1>2, <1>3, <1>4, <1>6

LEMMA RenewedMoves ==
  ASSUME NEW r \in Rows, NEW c \in Cands, NEW new \in Nat, NEW s \in H!Renewed(r, c, new)
  PROVE  Moves(r, s) /\ s.bound \in {r.bound, c.mid}
<1> DEFINE w == [r EXCEPT !.host = new]
           t == H!Stored(w)
<1>1. /\ w \in Rows /\ w.gen = r.gen /\ w.sum = r.sum /\ w.through = r.through
      /\ w.injFor = r.injFor /\ w.bound = r.bound
  BY DEF Rows
<1> HIDE DEF w
<1>2. Moves(r, t) /\ t.bound = r.bound /\ t \in Rows
  BY <1>1, StoredMoves DEF Moves
<1>3. s \in H!Queued(t, "renewed", c.mid, c.mid) /\ c.mid \in Nat
  BY DEF H!Renewed, Cands, w
<1> HIDE DEF t
<1> QED
  BY <1>2, <1>3, QueuedMoves, MovesOn

LEMMA LateMoves ==
  ASSUME NEW r \in Rows, sid \in Nat
  PROVE  Moves(r, H!LateReset(r)) /\ H!LateReset(r).bound = r.bound
<1> DEFINE t == H!Stored(r)
           w == [t EXCEPT !.host = sid, !.injNext = r.injFor # sid, !.pend = H!NoPend,
                          !.fails = 0, !.retry = 0]
<1>1. /\ t \in Rows /\ t.gen = r.gen + 1 /\ t.sum = r.sum /\ t.through = r.through
      /\ t.injFor = r.injFor /\ t.bound = r.bound
  BY StoredIs
<1> HIDE DEF t
<1>2. /\ w \in Rows /\ w.gen = t.gen /\ w.sum = t.sum /\ w.through = t.through
      /\ w.injFor = t.injFor /\ w.bound = t.bound
  BY <1>1, NoPendTyped DEF Rows
<1> HIDE DEF w
<1>3. H!LateReset(r) \in {r, w}
  BY DEF H!LateReset, w, t
<1>4. Moves(r, w) /\ w.bound = r.bound /\ Moves(r, r)
  BY <1>1, <1>2 DEF Moves, Rows
<1> QED
  BY <1>3, <1>4

LEMMA RotatedMoves ==
  ASSUME NEW r \in Rows, sid \in Nat, NEW s \in H!Rotated(r)
  PROVE  Moves(r, s) /\ s.bound = r.bound
<1> DEFINE w == [r EXCEPT !.host = sid]
           t == H!Stored(w)
<1>1. /\ w \in Rows /\ w.gen = r.gen /\ w.sum = r.sum /\ w.through = r.through
      /\ w.injFor = r.injFor /\ w.bound = r.bound
  BY DEF Rows
<1> HIDE DEF w
<1>2. Moves(r, t) /\ t.bound = r.bound /\ t \in Rows
  BY <1>1, StoredMoves DEF Moves
<1> HIDE DEF t
<1>3. s = r \/ s = t \/ s \in H!Queued(t, "external", 0, 0)
  BY DEF H!Rotated, w, t
<1>4. Moves(r, r)
  BY DEF Moves
<1> QED
  BY <1>2, <1>3, <1>4, QueuedMoves, MovesOn

\* What a step does to the row unless it publishes a block or informs a session.
SettlesRow == /\ Moves(hist, hist')
              /\ hist'.bound = hist.bound \/ (cand # H!NoCand /\ hist'.bound = cand.mid)

LEMMA CopyIsRow ==
  ASSUME NEW c \in Rows, Behind(c), H!Current(c), hist \in Rows
  PROVE  c = hist
BY DEF Behind, Older, H!Current, Rows

LEMMA SettlesStill ==
  ASSUME HistoryInv, hist' = hist
  PROVE  SettlesRow
BY DEF HistoryInv, HistoryTypes, SettlesRow, Moves

LEMMA BeforeSettles ==
  ASSUME HistoryInv, NEW m \in H!Msgs, H!Before(m)
  PROVE  SettlesRow
<1>1. hist \in Rows /\ cand \in Cands /\ sid \in Nat
  BY DEF HistoryInv, HistoryTypes
<1>2. PICK r \in H!Reconciled : hist' \in H!Rotated(H!LateReset(r))
  BY DEF H!Before
<1>3. Moves(hist, r) /\ (r.bound = hist.bound \/ (cand # H!NoCand /\ r.bound = cand.mid))
  <2>1. CASE r \in H!Renewed(hist, cand, sid) /\ cand # H!NoCand
    BY <1>1, <2>1, RenewedMoves
  <2>2. CASE r = hist
    BY <1>1, <2>2 DEF Moves
  <2> QED
    BY <1>2, <2>1, <2>2 DEF H!Reconciled
<1>4. r \in Rows
  BY <1>3 DEF Moves
<1>5. Moves(r, H!LateReset(r)) /\ H!LateReset(r).bound = r.bound /\ H!LateReset(r) \in Rows
  BY <1>1, <1>4, LateMoves DEF Moves
<1>6. Moves(H!LateReset(r), hist') /\ hist'.bound = H!LateReset(r).bound
  BY <1>1, <1>2, <1>5, RotatedMoves
<1>7. Moves(hist, hist')
  BY <1>1, <1>3, <1>4, <1>5, <1>6, MovesOn
<1> QED
  BY <1>3, <1>5, <1>6, <1>7 DEF SettlesRow

LEMMA EndsSettles ==
  ASSUME HistoryInv, NEW m \in H!Msgs, H!TurnEnds(m)
  PROVE  SettlesRow
<1>1. hist \in Rows
  BY DEF HistoryInv, HistoryTypes
<1> DEFINE w == [hist EXCEPT !.retry = @ - 1]
           base == IF hist.retry > 0 THEN H!Stored(w) ELSE hist
<1>2. Moves(hist, base) /\ base.bound = hist.bound /\ base \in Rows
  <2>1. CASE hist.retry > 0
    <3>1. /\ w \in Rows /\ w.gen = hist.gen /\ w.sum = hist.sum /\ w.through = hist.through
          /\ w.injFor = hist.injFor /\ w.bound = hist.bound
      BY <1>1, <2>1 DEF Rows
    <3> HIDE DEF w
    <3> QED
      BY <1>1, <2>1, <3>1, StoredMoves DEF Moves
  <2>2. CASE ~(hist.retry > 0)
    BY <1>1, <2>2 DEF Moves
  <2> QED
    BY <2>1, <2>2
<1>3. hist' = hist \/ hist' = base \/ hist' \in H!Queued(base, "budget", 0, 0)
  BY DEF H!TurnEnds
<1> HIDE DEF base
<1> QED
  BY <1>1, <1>2, <1>3, QueuedMoves, MovesOn, SettlesStill DEF SettlesRow

LEMMA ResetSettles ==
  ASSUME HistoryInv, H!ObserveReset
  PROVE  SettlesRow
<1>1. hist \in Rows /\ cand \in Cands /\ hook \in Nat
  BY DEF HistoryInv, HistoryTypes
<1>2. hist' = hist \/ (cand # H!NoCand /\ hist' \in H!Renewed(hist, cand, hook))
  BY DEF H!ObserveReset
<1> QED
  BY <1>1, <1>2, RenewedMoves, SettlesStill DEF SettlesRow

LEMMA FailureSettles ==
  ASSUME HistoryInv, H!RunFails(hist)
  PROVE  SettlesRow
<1>1. hist \in Rows
  BY DEF HistoryInv, HistoryTypes
<1>2. hist' = hist \/ hist' = H!FailedOnce(hist)
  BY DEF H!RunFails
<1> QED
  BY <1>1, <1>2, FailsMove, SettlesStill DEF SettlesRow

\* The row the worker has when it comes to the reset.
ToReset(c) == H!Stored([c EXCEPT !.pend.stage = "reset"])

LEMMA ToResetMoves ==
  ASSUME NEW c \in Rows
  PROVE  /\ Moves(c, ToReset(c)) /\ ToReset(c).bound = c.bound
         /\ ToReset(c).pend.cut = c.pend.cut /\ ToReset(c).host \in Nat
<1> DEFINE q == [c.pend EXCEPT !.stage = "reset"]
           w == [c EXCEPT !.pend = q]
<1>1. c.pend \in Pends
  BY DEF Rows
<1>2. q \in Pends /\ q.cut = c.pend.cut
  BY <1>1 DEF Pends
<1> HIDE DEF q
<1>3. /\ w \in Rows /\ w.gen = c.gen /\ w.sum = c.sum /\ w.through = c.through
      /\ w.injFor = c.injFor /\ w.bound = c.bound /\ w.pend = q /\ w.host \in Nat
  BY <1>2 DEF Rows
<1>4. ToReset(c) = H!Stored(w)
  BY DEF ToReset, w, q
<1> HIDE DEF w
<1> QED
  BY <1>2, <1>3, <1>4, StoredMoves, StoredIs

LEMMA FoldedSettles ==
  ASSUME HistoryInv, H!Folded
  PROVE  SettlesRow
<1>1. hist \in Rows /\ worker.row \in Rows /\ Behind(worker.row)
  BY DEF HistoryInv, HistoryTypes, CopiesInv, Workers
<1> DEFINE r == ToReset(worker.row)
<1>2. \/ hist' = hist
      \/ H!Current(worker.row) /\ (hist' = r \/ hist' = H!Settled(r, r.host))
  BY DEF H!Folded, ToReset
<1>3. CASE H!Current(worker.row) /\ (hist' = r \/ hist' = H!Settled(r, r.host))
  <2>1. worker.row = hist
    BY <1>1, <1>3, CopyIsRow
  <2>2. Moves(hist, r) /\ r.bound = hist.bound /\ r.host \in Nat /\ r \in Rows
    BY <1>1, <2>1, ToResetMoves DEF Moves
  <2> HIDE DEF r
  <2>3. Moves(r, H!Settled(r, r.host)) /\ H!Settled(r, r.host).bound = r.bound
    BY <2>2, SettledMoves
  <2> QED
    BY <1>1, <1>3, <2>2, <2>3, MovesOn DEF SettlesRow
<1> QED
  BY <1>2, <1>3, SettlesStill

LEMMA ResetEndSettles ==
  ASSUME HistoryInv, H!ResetEnds
  PROVE  SettlesRow
<1>1. hist \in Rows /\ reset.row \in Rows /\ Behind(reset.row) /\ sid \in Nat
  BY DEF HistoryInv, HistoryTypes, CopiesInv, Resets
<1>2. \/ hist' = hist
      \/ H!Current(reset.row) /\ hist' \in {H!FailedOnce(reset.row), H!Settled(reset.row, sid)}
  BY DEF H!ResetEnds
<1>3. H!Current(reset.row) => reset.row = hist
  BY <1>1, CopyIsRow
<1> QED
  BY <1>1, <1>2, <1>3, FailsMove, SettledMoves, SettlesStill DEF SettlesRow

\* Every step but the publication of a block and the first request of a turn.
LEMMA StepSettles ==
  ASSUME HistoryInv, H!Next, ~H!Fold, \A m \in H!Msgs : ~H!Observe(m)
  PROVE  SettlesRow
<1>1. CASE \E m \in H!Msgs : H!Before(m) \/ H!TurnEnds(m)
  BY <1>1, BeforeSettles, EndsSettles
<1>2. CASE H!ObserveReset \/ H!Folded \/ H!ResetEnds
  BY <1>2, ResetSettles, FoldedSettles, ResetEndSettles
<1>3. CASE H!FoldFails \/ H!TimesOut
  BY <1>3, FailureSettles DEF H!FoldFails, H!TimesOut
<1>4. CASE H!StartReset
  <2>1. CASE sid # worker.row.host /\ halted
    <3>1. H!RunFails(hist)
      BY <1>4, <2>1 DEF H!StartReset
    <3> QED
      BY <3>1, FailureSettles
  <2>2. CASE ~(sid # worker.row.host /\ halted)
    <3>1. hist' = hist
      BY <1>4, <2>2 DEF H!StartReset
    <3> QED
      BY <3>1, SettlesStill
  <2> QED
    BY <2>1, <2>2
<1>5. CASE \/ H!Arrive \/ H!HostRotates \/ H!WorkerLocks \/ H!WorkerIdle \/ H!ResetCommits \/ H!ResetFails
           \/ H!Deadline \/ H!Reopen
           \/ \E m \in H!Msgs : H!Hand(m) \/ H!Request(m) \/ H!TurnFails(m) \/ H!HostNew(m)
  <2>1. hist' = hist
    BY <1>5 DEF H!Arrive, H!HostRotates, H!WorkerLocks, H!WorkerIdle, H!ResetCommits,
       H!ResetFails, H!Deadline, H!Reopen, H!Hand, H!Request, H!TurnFails, H!HostNew
  <2> QED
    BY <2>1, SettlesStill
<1> QED
  BY <1>1, <1>2, <1>3, <1>4, <1>5 DEF H!Next

-----------------------------------------------------------------------------
(* The row grows, and its copies stay behind. *)

Grows(r, s) ==
  /\ s \in Rows /\ (s = r \/ s.gen > r.gen)
  /\ r.bound <= s.bound /\ H!ToSet(r.sum) \subseteq H!ToSet(s.sum)

LEMMA OlderKeeps ==
  ASSUME NEW c \in Rows, NEW r \in Rows, NEW s, Older(c, r), Grows(r, s)
  PROVE  Older(c, s)
<1>1. c.gen \in Nat /\ r.gen \in Nat /\ s.gen \in Nat
  BY DEF Rows, Grows
<1>2. c.bound \in Nat /\ r.bound \in Nat /\ s.bound \in Nat
  BY DEF Rows, Grows
<1> QED
  BY <1>1, <1>2 DEF Older, Grows

LEMMA AppendIs ==
  ASSUME NEW q \in Seq(H!Chat), NEW m \in H!Chat
  PROVE  /\ Append(q, m) \in Seq(H!Chat) /\ Len(Append(q, m)) = Len(q) + 1
         /\ \A i \in DOMAIN q : Append(q, m)[i] = q[i]
         /\ Append(q, m)[Len(q) + 1] = m
         /\ H!ToSet(Append(q, m)) = H!ToSet(q) \cup {m}
<1>1. /\ Append(q, m) \in Seq(H!Chat) /\ Len(Append(q, m)) = Len(q) + 1
      /\ \A i \in DOMAIN q : Append(q, m)[i] = q[i]
      /\ Append(q, m)[Len(q) + 1] = m
      /\ DOMAIN Append(q, m) = DOMAIN q \cup {Len(q) + 1}
  OBVIOUS
<1>2. H!ToSet(Append(q, m)) = H!ToSet(q) \cup {m}
  BY <1>1 DEF H!ToSet
<1> QED
  BY <1>1, <1>2

LEMMA PublishedIs ==
  ASSUME NEW r \in Rows, NEW m \in H!Chat
  PROVE  /\ H!Published(r, m) \in Rows /\ H!Published(r, m).gen = r.gen + 1
         /\ H!Published(r, m).sum = Append(r.sum, m) /\ H!Published(r, m).through = m
         /\ H!Published(r, m).injFor = r.injFor /\ H!Published(r, m).bound = r.bound
         /\ H!Published(r, m).pend = r.pend
<1> DEFINE q == Append(r.sum, m)
           w == [r EXCEPT !.sum = q, !.through = m]
<1>1. r.sum \in Seq(H!Chat) /\ m \in Nat
  BY DEF Rows, H!Chat, H!Msgs
<1>2. q \in Seq(H!Chat)
  BY <1>1
<1> HIDE DEF q
<1>3. /\ w \in Rows /\ w.gen = r.gen /\ w.sum = q /\ w.through = m
      /\ w.injFor = r.injFor /\ w.bound = r.bound /\ w.pend = r.pend
  BY <1>1, <1>2 DEF Rows
<1>4. H!Published(r, m) = H!Stored(w)
  BY DEF H!Published, w, q
<1> HIDE DEF w
<1> QED
  BY <1>3, <1>4, StoredIs DEF q

LEMMA FoldGrows ==
  ASSUME HistoryInv, H!Fold
  PROVE  \/ hist' = hist
         \/ \E m \in worker.todo :
              /\ \A k \in worker.todo : m <= k
              /\ worker.row = hist /\ worker.at = "llm"
              /\ hist' = H!Published(hist, m) /\ Grows(hist, hist')
              /\ worker' = [worker EXCEPT !.row = hist', !.todo = @ \ {m}]
<1>1. hist \in Rows /\ worker.row \in Rows /\ Behind(worker.row) /\ worker.todo \subseteq H!Chat
  BY DEF HistoryInv, HistoryTypes, CopiesInv, Workers
<1>2. H!Current(worker.row) => worker.row = hist
  BY <1>1, CopyIsRow
<1>3. ASSUME NEW m \in worker.todo, hist' = H!Published(hist, m)
      PROVE  Grows(hist, hist')
  <2>1. /\ hist' \in Rows /\ hist'.gen = hist.gen + 1 /\ hist'.sum = Append(hist.sum, m)
        /\ hist'.bound = hist.bound /\ m \in H!Chat
    BY <1>1, <1>3, PublishedIs
  <2>2. hist.sum \in Seq(H!Chat) /\ hist.gen \in Nat /\ hist.bound \in Nat
    BY <1>1 DEF Rows
  <2> QED
    BY <2>1, <2>2, AppendIs DEF Grows
<1> QED
  BY <1>2, <1>3 DEF H!Fold

LEMMA ObserveGrows ==
  ASSUME HistoryInv, NEW m \in H!Msgs, H!Observe(m)
  PROVE  /\ hist'.sum = hist.sum /\ hist'.through = hist.through /\ hist'.bound = hist.bound
         /\ Grows(hist, hist')
         /\ \/ hist'.injFor = hist.injFor
            \/ /\ way[m].text /\ way[m].sid = sid /\ way[m].row = hist
               /\ hist'.injFor = sid
<1> DEFINE r == way[m].row
           x == [r EXCEPT !.host = sid, !.injFor = sid, !.injNext = FALSE]
           y == [r EXCEPT !.injNext = TRUE]
<1>1. hist \in Rows /\ r \in Rows /\ Behind(r) /\ sid \in Nat
  BY DEF HistoryInv, HistoryTypes, CopiesInv, TurnRecords
<1>2. hist.bound \in Nat /\ hist.gen \in Nat
  BY <1>1 DEF Rows
<1>3. \/ hist' = hist
      \/ H!Current(r) /\ way[m].sid = sid /\ way[m].text /\ hist' = H!Stored(x)
      \/ H!Current(r) /\ hist' = H!Stored(y)
  BY DEF H!Observe
<1>4. H!Current(r) => r = hist
  BY <1>1, CopyIsRow
<1>5. /\ x \in Rows /\ x.gen = r.gen /\ x.sum = r.sum /\ x.through = r.through
      /\ x.injFor = sid /\ x.bound = r.bound
  BY <1>1 DEF Rows
<1>6. /\ y \in Rows /\ y.gen = r.gen /\ y.sum = r.sum /\ y.through = r.through
      /\ y.injFor = r.injFor /\ y.bound = r.bound
  BY <1>1 DEF Rows
<1> HIDE DEF x, y
<1>7. CASE hist' = hist
  BY <1>1, <1>2, <1>7 DEF Grows
<1>8. CASE H!Current(r) /\ way[m].sid = sid /\ way[m].text /\ hist' = H!Stored(x)
  BY <1>1, <1>2, <1>4, <1>5, <1>8, StoredIs DEF Grows
<1>9. CASE H!Current(r) /\ hist' = H!Stored(y)
  BY <1>1, <1>2, <1>4, <1>6, <1>9, StoredIs DEF Grows
<1> QED
  BY <1>3, <1>7, <1>8, <1>9

LEMMA SettlesGrows ==
  ASSUME HistoryInv, SettlesRow
  PROVE  Grows(hist, hist')
<1>1. hist \in Rows /\ cand \in Cands
  BY DEF HistoryInv, HistoryTypes
<1>2. hist.bound \in Nat /\ (cand # H!NoCand => hist.bound <= cand.mid)
  BY <1>1 DEF Rows, HistoryInv, HistoryLane
<1> QED
  BY <1>1, <1>2 DEF SettlesRow, Moves, Grows

LEMMA RowGrows ==
  ASSUME HistoryInv, H!Next
  PROVE  Grows(hist, hist')
<1>1. CASE H!Fold
  <2>1. hist' = hist => SettlesRow
    BY SettlesStill
  <2> QED
    BY <1>1, <2>1, FoldGrows, SettlesGrows
<1>2. CASE \E m \in H!Msgs : H!Observe(m)
  BY <1>2, ObserveGrows
<1>3. CASE ~H!Fold /\ \A m \in H!Msgs : ~H!Observe(m)
  BY <1>3, StepSettles, SettlesGrows
<1> QED
  BY <1>1, <1>2, <1>3

-----------------------------------------------------------------------------
(* What a step does to the run, to the reset and to the turns. *)

LEMMA StartsTyped ==
  /\ H!Fresh \in Rows /\ H!Off \in Workers /\ H!NoReset \in Resets /\ H!NotYet \in TurnRecords
  /\ H!NoCand \in Cands /\ H!Off.at = "off" /\ H!Off.row = H!Fresh
  /\ \A b \in BOOLEAN : H!Started(b) \in Workers /\ H!Started(b).at = "lock" /\ H!Started(b).row = H!Fresh
<1>1. H!Fresh \in Rows
  BY NoPendTyped DEF H!Fresh, Rows
<1> QED
  BY <1>1 DEF H!Off, Workers, H!NoReset, Resets, H!NotYet, TurnRecords, H!NoCand, Cands,
     H!Started

LEMMA BeginTyped ==
  ASSUME HistoryInv
  PROVE  H!Begin \in Workers /\ H!Begin.at = "llm" /\ H!Begin.row = hist
<1>1. hist \in Rows /\ worker \in Workers
  BY DEF HistoryInv, HistoryTypes
<1> DEFINE all == H!Interval(hist, hist.pend.cut, hist.pend.why = "renewed")
           todo == H!Begin.todo
           more == H!Begin.more
<1>2. all \subseteq H!Chat
  BY DEF H!Interval
<1>3. /\ H!Begin = [worker EXCEPT !.at = "llm", !.row = hist, !.todo = todo, !.more = more]
      /\ todo \subseteq all /\ more \in BOOLEAN
  <2> HIDE DEF all
  <2>1. H!Begin.todo \subseteq all
    BY <1>1 DEF H!Begin, Workers, all
  <2>2. H!Begin.more \in BOOLEAN
    BY <1>1 DEF H!Begin, Workers, all
  <2>3. H!Begin = [worker EXCEPT !.at = "llm", !.row = hist, !.todo = H!Begin.todo, !.more = H!Begin.more]
    BY <1>1 DEF H!Begin, Workers, all
  <2> QED
    BY <2>1, <2>2, <2>3
<1> HIDE DEF todo, more, all
<1> QED
  BY <1>1, <1>2, <1>3 DEF Workers

LEMMA WorkerSteps ==
  ASSUME HistoryInv, H!Next
  PROVE  \/ worker' = worker
         \/ /\ worker' \in Workers /\ worker'.at \in {"off", "lock", "idle", "resetting"}
            /\ worker'.row \in {H!Fresh, worker.row}
         \/ worker' = H!Begin /\ hist' = hist
         \/ \E m \in worker.todo :
              /\ \A k \in worker.todo : m <= k
              /\ worker.row = hist /\ worker.at = "llm" /\ hist' = H!Published(hist, m)
              /\ worker' = [worker EXCEPT !.row = hist', !.todo = @ \ {m}]
         \/ /\ worker.row = hist /\ worker.at = "llm" /\ worker.todo = {} /\ ~worker.more
            /\ hist' = ToReset(hist) /\ worker' = [worker EXCEPT !.at = "idle2", !.row = hist']
<1>1. hist \in Rows /\ worker \in Workers /\ worker.row \in Rows /\ Behind(worker.row)
  BY DEF HistoryInv, HistoryTypes, CopiesInv, Workers
<1> DEFINE Quiet == /\ worker' \in Workers /\ worker'.at \in {"off", "lock", "idle", "resetting"}
                    /\ worker'.row \in {H!Fresh, worker.row}
<1>2. ASSUME worker' = H!Off \/ worker' = H!Started(TRUE) \/ worker' = H!Started(FALSE)
      PROVE  Quiet
  BY <1>2, StartsTyped
<1>3. ASSUME NEW a \in {"idle", "resetting"}, worker' = [worker EXCEPT !.at = a]
      PROVE  Quiet
  BY <1>1, <1>3 DEF Workers
<1> HIDE DEF Quiet
<1>4. CASE \E m \in H!Msgs : H!Before(m) \/ H!TurnEnds(m)
  <2>1. worker' = worker \/ worker' = H!Started(TRUE) \/ worker' = H!Started(FALSE)
    BY <1>4 DEF H!Before, H!TurnEnds, H!StartIf
  <2> QED
    BY <1>2, <2>1 DEF Quiet
<1>5. CASE H!WorkerLocks \/ H!WorkerIdle
  <2>1. \/ worker' = H!Off \/ worker' = [worker EXCEPT !.at = "idle"]
        \/ worker' = H!Begin /\ hist' = hist
    BY <1>5 DEF H!WorkerLocks, H!WorkerIdle, H!Ends
  <2> QED
    BY <1>2, <1>3, <2>1 DEF Quiet
<1>6. CASE H!Fold
  <2>1. CASE ~halted \/ ~H!Current(worker.row)
    <3>1. worker' = H!Off
      BY <1>6, <2>1 DEF H!Fold, H!Ends
    <3> QED
      BY <1>2, <3>1 DEF Quiet
  <2>2. CASE ~(~halted \/ ~H!Current(worker.row))
    BY <1>1, <1>6, <2>2, CopyIsRow DEF H!Fold
  <2> QED
    BY <2>1, <2>2
<1>7. CASE H!Folded
  <2>1. CASE \/ worker.more \/ ~H!Current(worker.row) \/ worker.row.pend.why = "renewed"
    <3>1. worker' = H!Off
      BY <1>7, <2>1 DEF H!Folded, H!Ends
    <3> QED
      BY <1>2, <3>1 DEF Quiet
  <2>2. CASE ~(worker.more \/ ~H!Current(worker.row) \/ worker.row.pend.why = "renewed")
    BY <1>1, <1>7, <2>2, CopyIsRow DEF H!Folded, ToReset
  <2> QED
    BY <2>1, <2>2
<1>8. CASE H!StartReset
  <2>1. worker' = H!Off \/ worker' = [worker EXCEPT !.at = "resetting"]
    BY <1>8 DEF H!StartReset, H!RunFails, H!Ends
  <2> QED
    BY <1>2, <1>3, <2>1 DEF Quiet
<1>9. CASE H!FoldFails \/ H!TimesOut \/ H!ResetEnds \/ H!Reopen
  <2>1. worker' = worker \/ worker' = H!Off \/ worker' = H!Started(FALSE)
    BY <1>9 DEF H!FoldFails, H!TimesOut, H!ResetEnds, H!Reopen, H!RunFails, H!Ends
  <2> QED
    BY <1>2, <2>1 DEF Quiet
<1>10. CASE \/ H!Arrive \/ H!HostRotates \/ H!ObserveReset \/ H!ResetCommits \/ H!ResetFails \/ H!Deadline
            \/ \E m \in H!Msgs : H!Hand(m) \/ H!Request(m) \/ H!Observe(m) \/ H!TurnFails(m) \/ H!HostNew(m)
  BY <1>10 DEF H!Arrive, H!HostRotates, H!ObserveReset, H!ResetCommits, H!ResetFails,
     H!Deadline, H!Hand, H!Request, H!Observe, H!TurnFails, H!HostNew, H!workVars
<1> QED
  BY <1>4, <1>5, <1>6, <1>7, <1>8, <1>9, <1>10 DEF H!Next

LEMMA ResetSteps ==
  ASSUME HistoryInv, H!Next
  PROVE  \/ reset' = reset \/ reset' = H!NoReset \/ reset' = [reset EXCEPT !.at = "reread"]
         \/ /\ worker.at = "idle2"
            /\ reset' = [at |-> "command", row |-> worker.row, old |-> sid]
<1>1. CASE H!StartReset
  BY <1>1 DEF H!StartReset
<1>2. CASE H!ResetCommits \/ H!ResetFails \/ H!ResetEnds \/ H!Reopen
  BY <1>2 DEF H!ResetCommits, H!ResetFails, H!ResetEnds, H!Reopen
<1>3. CASE \/ H!Arrive \/ H!HostRotates \/ H!ObserveReset \/ H!Deadline
           \/ H!WorkerLocks \/ H!WorkerIdle \/ H!Fold \/ H!FoldFails \/ H!Folded \/ H!TimesOut
           \/ \E m \in H!Msgs : H!Before(m) \/ H!Hand(m) \/ H!Request(m) \/ H!Observe(m) \/ H!TurnEnds(m)
                              \/ H!TurnFails(m) \/ H!HostNew(m)
  BY <1>3 DEF H!Arrive, H!HostRotates, H!ObserveReset, H!Deadline, H!WorkerLocks,
     H!WorkerIdle, H!Fold, H!FoldFails, H!Folded, H!TimesOut, H!Before, H!Hand, H!Request,
     H!Observe, H!TurnEnds, H!TurnFails, H!HostNew, H!workVars
<1> QED
  BY <1>1, <1>2, <1>3 DEF H!Next

LEMMA HandedAt ==
  ASSUME NEW m, NEW r, NEW t \in H!Handed(m, r)
  PROVE  t.at = "handed"
<1> DEFINE Turn(text, cover, out) ==
             [at |-> "handed", text |-> text, cover |-> cover, left |-> out, row |-> r,
              sid |-> 0, tracked |-> TRUE]
<1>1. \E text, cover, out : t = Turn(text, cover, out)
  BY DEF H!Handed
<1> QED
  BY <1>1

LEMMA GrowsByOne ==
  ASSUME NEW S, NEW s \in Seq(S), NEW x \in S
  PROVE  /\ Append(s, x) \in Seq(S) /\ Len(Append(s, x)) = Len(s) + 1
         /\ \A k \in 1..Len(s) : Append(s, x)[k] = s[k]
OBVIOUS

LEMMA LastIn ==
  ASSUME NEW S, NEW s \in Seq(S), Len(s) >= 1
  PROVE  Len(s) \in 1..Len(s) /\ DOMAIN s = 1..Len(s) /\ Len(s) \in DOMAIN s
OBVIOUS

\* The present session is one the host has.
LEMMA Present ==
  ASSUME HistoryInv
  PROVE  sid \in DOMAIN ctx /\ sid \in DOMAIN left
<1>1. ctx \in Seq(SUBSET H!Chat) /\ sid = Len(ctx) /\ sid >= 1
  BY DEF HistoryInv, HistoryTypes
<1>2. left \in Seq(SUBSET H!Chat) /\ sid = Len(left)
  BY DEF HistoryInv, HistoryTypes
<1>3. sid \in DOMAIN ctx
  BY <1>1, LastIn
<1>4. sid \in DOMAIN left
  BY <1>1, <1>2, LastIn
<1> QED
  BY <1>3, <1>4

LEMMA HandedIs ==
  ASSUME NEW m \in H!Msgs, NEW r \in Rows, NEW t \in H!Handed(m, r), sid \in Nat
  PROVE  /\ t \in TurnRecords /\ t.at = "handed" /\ t.row = r
         /\ t.text => t.cover \cup t.left = H!ToSet(r.sum) \cup H!Interval(r, m - 1, FALSE)
<1> DEFINE rest == H!Interval(r, m - 1, FALSE)
           Turn(text, cover, out) ==
             [at |-> "handed", text |-> text, cover |-> cover, left |-> out, row |-> r,
              sid |-> 0, tracked |-> TRUE]
<1>1. rest \subseteq H!Chat
  BY DEF H!Interval
<1>2. H!ToSet(r.sum) \subseteq H!Chat
  <2>1. r.sum \in Seq(H!Chat)
    BY DEF Rows
  <2> QED
    BY <2>1 DEF H!ToSet
<1>3. \A w \in H!Windows(r, rest) : w \subseteq rest
  BY DEF H!Windows
<1>4. \/ t = Turn(FALSE, {}, {})
      \/ \E w \in H!Windows(r, rest) : t = Turn(TRUE, H!ToSet(r.sum) \cup w, rest \ w)
  BY DEF H!Handed
<1> HIDE DEF rest
<1>5. CASE t = Turn(FALSE, {}, {})
  BY <1>5 DEF TurnRecords
<1>6. CASE \E w \in H!Windows(r, rest) : t = Turn(TRUE, H!ToSet(r.sum) \cup w, rest \ w)
  <2> PICK w \in H!Windows(r, rest) : t = Turn(TRUE, H!ToSet(r.sum) \cup w, rest \ w)
    BY <1>6
  <2>1. (H!ToSet(r.sum) \cup w) \in SUBSET H!Chat /\ (rest \ w) \in SUBSET H!Chat
    BY <1>1, <1>2, <1>3
  <2>2. (H!ToSet(r.sum) \cup w) \cup (rest \ w) = H!ToSet(r.sum) \cup rest
    BY <1>3
  <2> QED
    BY <2>1, <2>2 DEF TurnRecords, rest
<1> QED
  BY <1>4, <1>5, <1>6

TurnsTyped == /\ way' \in [H!Msgs -> TurnRecords]
              /\ \A m \in H!Msgs : way'[m].row \in {way[m].row, hist, hist', H!Fresh}

LEMMA TurnTypes ==
  ASSUME HistoryInv, H!Next, MaxEntries \in Nat
  PROVE  TurnsTyped
<1>1. /\ hist \in Rows /\ hist' \in Rows /\ way \in [H!Msgs -> TurnRecords] /\ sid \in Nat
      /\ n \in 0..MaxEntries
  BY RowGrows DEF HistoryInv, HistoryTypes, Grows
<1>2. ASSUME NEW m \in H!Msgs, NEW t \in TurnRecords, way' = [way EXCEPT ![m] = t],
             t.row \in {way[m].row, hist, hist', H!Fresh}
      PROVE  TurnsTyped
  BY <1>1, <1>2 DEF TurnsTyped
<1>3. ASSUME way' = way
      PROVE  TurnsTyped
  BY <1>1, <1>3 DEF TurnsTyped
<1>4. CASE H!Arrive
  <2> DEFINE m == n + 1
             t == [way[m] EXCEPT !.at = "arrived"]
  <2>1. m \in H!Msgs
    BY <1>1, <1>4 DEF H!Arrive, H!Msgs
  <2>2. way' = [way EXCEPT ![m].at = "arrived"]
    BY <1>4 DEF H!Arrive
  <2> HIDE DEF m
  <2>3. t \in TurnRecords /\ t.row = way[m].row
    BY <1>1, <2>1 DEF TurnRecords
  <2>4. way' = [way EXCEPT ![m] = t]
    BY <1>1, <2>2
  <2> HIDE DEF t
  <2> QED
    BY <1>2, <2>1, <2>3, <2>4
<1>5. CASE \E m \in H!Msgs : H!Before(m)
  <2> PICK m \in H!Msgs : H!Before(m)
    BY <1>5
  <2>1. \/ way' = [way EXCEPT ![m].at = "handed", ![m].row = hist']
        \/ way' = [way EXCEPT ![m].at = "second"]
        \/ \E t \in H!Handed(m, hist') : way' = [way EXCEPT ![m] = t]
    BY DEF H!Before
  <2>2. CASE way' = [way EXCEPT ![m].at = "handed", ![m].row = hist']
    <3> DEFINE t == [way[m] EXCEPT !.at = "handed", !.row = hist']
    <3>1. t \in TurnRecords /\ t.row = hist'
      BY <1>1 DEF TurnRecords
    <3>2. way' = [way EXCEPT ![m] = t]
      BY <1>1, <2>2
    <3> QED
      BY <1>2, <3>1, <3>2
  <2>3. CASE way' = [way EXCEPT ![m].at = "second"]
    <3> DEFINE t == [way[m] EXCEPT !.at = "second"]
    <3>1. t \in TurnRecords /\ t.row = way[m].row
      BY <1>1 DEF TurnRecords
    <3>2. way' = [way EXCEPT ![m] = t]
      BY <1>1, <2>3
    <3> QED
      BY <1>2, <3>1, <3>2
  <2>4. CASE \E t \in H!Handed(m, hist') : way' = [way EXCEPT ![m] = t]
    BY <1>1, <1>2, <2>4, HandedIs
  <2> QED
    BY <2>1, <2>2, <2>3, <2>4
<1>6. CASE \E m \in H!Msgs : H!Hand(m)
  <2> PICK m \in H!Msgs : H!Hand(m)
    BY <1>6
  <2>1. \/ way' = [way EXCEPT ![m].at = "arrived"]
        \/ \E t \in H!Handed(m, hist) : way' = [way EXCEPT ![m] = t]
    BY DEF H!Hand
  <2>2. CASE way' = [way EXCEPT ![m].at = "arrived"]
    <3> DEFINE t == [way[m] EXCEPT !.at = "arrived"]
    <3>1. t \in TurnRecords /\ t.row = way[m].row
      BY <1>1 DEF TurnRecords
    <3>2. way' = [way EXCEPT ![m] = t]
      BY <1>1, <2>2
    <3> QED
      BY <1>2, <3>1, <3>2
  <2>3. CASE \E t \in H!Handed(m, hist) : way' = [way EXCEPT ![m] = t]
    BY <1>1, <1>2, <2>3, HandedIs
  <2> QED
    BY <2>1, <2>2, <2>3
<1>7. CASE \E m \in H!Msgs : H!Request(m)
  <2> PICK m \in H!Msgs : H!Request(m)
    BY <1>7
  <2> DEFINE t == [way[m] EXCEPT !.at = "running", !.sid = sid]
  <2>1. t \in TurnRecords /\ t.row = way[m].row
    BY <1>1 DEF TurnRecords
  <2>2. way' = [way EXCEPT ![m] = t]
    BY <1>1 DEF H!Request
  <2> QED
    BY <1>2, <2>1, <2>2
<1>8. CASE \E m \in H!Msgs : H!Observe(m)
  <2> PICK m \in H!Msgs : H!Observe(m)
    BY <1>8
  <2> DEFINE t == [way[m] EXCEPT !.at = "observed"]
  <2>1. t \in TurnRecords /\ t.row = way[m].row
    BY <1>1 DEF TurnRecords
  <2>2. way' = [way EXCEPT ![m] = t]
    BY <1>1 DEF H!Observe
  <2> QED
    BY <1>2, <2>1, <2>2
<1>9. CASE \E m \in H!Msgs : H!TurnEnds(m) \/ H!TurnFails(m) \/ H!HostNew(m)
  <2> PICK m \in H!Msgs : H!TurnEnds(m) \/ H!TurnFails(m) \/ H!HostNew(m)
    BY <1>9
  <2> DEFINE t == [H!NotYet EXCEPT !.at = "done"]
  <2>1. t \in TurnRecords /\ t.row = H!Fresh
    BY StartsTyped DEF TurnRecords, H!NotYet
  <2>2. way' = [way EXCEPT ![m] = t]
    BY <1>1 DEF H!TurnEnds, H!TurnFails, H!HostNew
  <2> QED
    BY <1>2, <2>1, <2>2
<1>10. CASE H!Reopen
  <2> DEFINE T(m) == [way[m] EXCEPT !.tracked = FALSE, !.at = IF @ = "second" THEN "arrived" ELSE @]
  <2>1. \A m \in H!Msgs : T(m) \in TurnRecords /\ T(m).row = way[m].row
    BY <1>1 DEF TurnRecords
  <2>2. way' = [m \in H!Msgs |-> T(m)]
    BY <1>10 DEF H!Reopen
  <2> HIDE DEF T
  <2> QED
    BY <2>1, <2>2 DEF TurnsTyped
<1>11. CASE \/ H!HostRotates \/ H!ObserveReset \/ H!Deadline \/ H!WorkerLocks \/ H!WorkerIdle \/ H!Fold
            \/ H!FoldFails \/ H!Folded \/ H!TimesOut \/ H!StartReset \/ H!ResetCommits \/ H!ResetFails \/ H!ResetEnds
  <2>1. way' = way
    BY <1>11 DEF H!HostRotates, H!ObserveReset, H!Deadline, H!WorkerLocks, H!WorkerIdle,
       H!Fold, H!FoldFails, H!Folded, H!TimesOut, H!StartReset, H!ResetCommits,
       H!ResetFails, H!ResetEnds, H!turnVars
  <2> QED
    BY <1>3, <2>1
<1> QED
  BY <1>4, <1>5, <1>6, <1>7, <1>8, <1>9, <1>10, <1>11 DEF H!Next

-----------------------------------------------------------------------------
(* Types, copies and the summary. *)

\* A session only comes to see more, and a new one has seen nothing; what it was
\* not shown is what the last window left out.
CtxGrows ==
  /\ sid' \in Nat /\ ctx' \in Seq(SUBSET H!Chat) /\ sid' = Len(ctx') /\ sid' >= 1
  /\ left' \in Seq(SUBSET H!Chat) /\ sid' = Len(left')
  /\ \A k \in 1..sid : \/ left'[k] = left[k]
                         \/ \E m \in H!Msgs : /\ H!Request(m) /\ k = sid /\ way[m].text
                                              /\ left'[k] = way[m].left
  /\ \A k \in 1..sid : k \in 1..sid' /\ ctx[k] \subseteq ctx'[k]
  /\ sid' = sid \/ (sid' = sid + 1 /\ hist' = hist)

LEMMA CtxSteps ==
  ASSUME HistoryInv, H!Next
  PROVE  CtxGrows
<1>1. /\ sid \in Nat /\ ctx \in Seq(SUBSET H!Chat) /\ sid = Len(ctx) /\ sid >= 1
      /\ left \in Seq(SUBSET H!Chat) /\ sid = Len(left) /\ way \in [H!Msgs -> TurnRecords]
  BY DEF HistoryInv, HistoryTypes
<1>2. ASSUME sid' = sid, ctx' = ctx, left' = left
      PROVE  CtxGrows
  BY <1>1, <1>2 DEF CtxGrows
<1>3. ASSUME sid' = sid + 1, ctx' = Append(ctx, {}), left' = Append(left, {}), hist' = hist
      PROVE  CtxGrows
  <2>0. {} \in SUBSET H!Chat
    OBVIOUS
  <2>1. /\ ctx' \in Seq(SUBSET H!Chat) /\ Len(ctx') = sid + 1
        /\ \A k \in 1..sid : ctx'[k] = ctx[k]
    <3>1. ctx \in Seq(SUBSET H!Chat) /\ sid = Len(ctx)
      BY <1>1
    <3>2. /\ Append(ctx, {}) \in Seq(SUBSET H!Chat) /\ Len(Append(ctx, {})) = Len(ctx) + 1
          /\ \A k \in 1..Len(ctx) : Append(ctx, {})[k] = ctx[k]
      BY <3>1, <2>0, GrowsByOne
    <3> QED
      BY <1>3, <3>1, <3>2
  <2>2. /\ left' \in Seq(SUBSET H!Chat) /\ Len(left') = sid + 1
        /\ \A k \in 1..sid : left'[k] = left[k]
    <3>1. left \in Seq(SUBSET H!Chat) /\ sid = Len(left)
      BY <1>1
    <3>2. /\ Append(left, {}) \in Seq(SUBSET H!Chat) /\ Len(Append(left, {})) = Len(left) + 1
          /\ \A k \in 1..Len(left) : Append(left, {})[k] = left[k]
      BY <3>1, <2>0, GrowsByOne
    <3> QED
      BY <1>3, <3>1, <3>2
  <2> QED
    BY <1>1, <1>3, <2>1, <2>2 DEF CtxGrows
<1>4. CASE \E m \in H!Msgs : H!Request(m)
  <2> PICK m \in H!Msgs : H!Request(m)
    BY <1>4
  <2> DEFINE sees == ctx[sid] \cup {m} \cup way[m].cover
  <2>1. sid' = sid /\ ctx' = [ctx EXCEPT ![sid] = sees] /\ m \in H!Chat
    BY DEF H!Request, H!Chat
  <2>2. sid \in 1..Len(ctx) /\ DOMAIN ctx = 1..Len(ctx)
    BY <1>1, LastIn
  <2>3. ctx[sid] \subseteq H!Chat /\ way[m].cover \subseteq H!Chat
    BY <1>1, <2>2 DEF TurnRecords
  <2>4. sees \in SUBSET H!Chat /\ ctx[sid] \subseteq sees
    BY <2>1, <2>3
  <2> HIDE DEF sees
  <2>5. ctx' \in Seq(SUBSET H!Chat) /\ Len(ctx') = Len(ctx)
    BY <1>1, <2>1, <2>2, <2>4
  <2>6. \A k \in 1..sid : ctx[k] \subseteq ctx'[k]
    BY <1>1, <2>1, <2>2, <2>4
  <2> DEFINE out == IF way[m].text THEN way[m].left ELSE left[sid]
  <2>7. left' = [left EXCEPT ![sid] = out] /\ m \in H!Msgs
    BY DEF H!Request
  <2>8. out \in SUBSET H!Chat
    BY <1>1 DEF TurnRecords
  <2>9. /\ left' \in Seq(SUBSET H!Chat) /\ Len(left') = Len(left)
        /\ left'[sid] = out /\ \A k \in 1..sid : k # sid => left'[k] = left[k]
    <3> HIDE DEF out
    <3> QED
      BY <1>1, <2>7, <2>8
  <2>10. \A k \in 1..sid : \/ left'[k] = left[k]
                           \/ k = sid /\ way[m].text /\ left'[k] = way[m].left
    BY <2>9
  <2> QED
    BY <1>1, <2>1, <2>5, <2>6, <2>7, <2>9, <2>10 DEF CtxGrows
<1>5. CASE \E m \in H!Msgs : H!HostNew(m)
  BY <1>2, <1>3, <1>5 DEF H!HostNew
<1>6. CASE H!HostRotates \/ H!ResetCommits
  BY <1>3, <1>6 DEF H!HostRotates, H!ResetCommits
<1>7. CASE \/ H!Arrive \/ H!ObserveReset \/ H!Deadline \/ H!WorkerLocks \/ H!WorkerIdle \/ H!Fold
           \/ H!FoldFails \/ H!Folded \/ H!TimesOut \/ H!StartReset \/ H!ResetFails \/ H!ResetEnds \/ H!Reopen
           \/ \E m \in H!Msgs : H!Before(m) \/ H!Hand(m) \/ H!Observe(m) \/ H!TurnEnds(m) \/ H!TurnFails(m)
  <2>1. sid' = sid /\ ctx' = ctx /\ left' = left
    BY <1>7 DEF H!Arrive, H!ObserveReset, H!Deadline, H!WorkerLocks, H!WorkerIdle, H!Fold,
       H!FoldFails, H!Folded, H!TimesOut, H!StartReset, H!ResetFails, H!ResetEnds,
       H!Reopen, H!Before, H!Hand, H!Observe, H!TurnEnds, H!TurnFails, H!hostVars
  <2> QED
    BY <1>2, <2>1
<1> QED
  BY <1>4, <1>5, <1>6, <1>7 DEF H!Next

LEMMA RenewalSteps ==
  ASSUME HistoryInv, H!Next
  PROVE  \/ renewals' = renewals
         \/ /\ reset.at = "command" /\ hist' = hist
            /\ renewals' = Append(renewals, [id |-> reset.row.pend.id, cut |-> reset.row.pend.cut,
                                             from |-> sid, sum |-> hist.sum])
<1>1. CASE H!ResetCommits
  BY <1>1 DEF H!ResetCommits
<1>2. CASE ~H!ResetCommits
  BY <1>2 DEF H!Next, H!Arrive, H!ObserveReset, H!Deadline, H!WorkerLocks, H!WorkerIdle,
     H!Fold, H!FoldFails, H!Folded, H!TimesOut, H!StartReset, H!ResetFails, H!ResetEnds,
     H!Reopen, H!Before, H!Hand, H!HostNew, H!Observe, H!TurnEnds, H!TurnFails, H!Request,
     H!HostRotates, H!hostVars
<1> QED
  BY <1>1, <1>2

\* The command the lane has seen last, and how many messages there are.
CandSteps ==
  /\ n' \in 0..MaxEntries /\ n <= n'
  /\ \/ cand' = cand \/ cand' = H!NoCand
     \/ \E m \in H!Msgs : cand' = [old |-> sid, mid |-> m] /\ way[m].at = "arrived"

LEMMA CandKeeps ==
  ASSUME HistoryInv, H!Next, MaxEntries \in Nat
  PROVE  CandSteps
<1>1. n \in 0..MaxEntries
  BY DEF HistoryInv, HistoryTypes
<1>2. CASE H!Arrive
  BY <1>1, <1>2 DEF H!Arrive, CandSteps
<1>3. CASE \E m \in H!Msgs : H!Before(m)
  <2>1. n' = n /\ \E m \in H!Msgs : way[m].at = "arrived"
                                  /\ (cand' = H!NoCand \/ cand' = [old |-> sid, mid |-> m])
    BY <1>3 DEF H!Before
  <2> QED
    BY <1>1, <2>1 DEF CandSteps
<1>4. CASE H!ObserveReset \/ H!Reopen
  <2>1. n' = n /\ (cand' = cand \/ cand' = H!NoCand)
    BY <1>4 DEF H!ObserveReset, H!Reopen
  <2> QED
    BY <1>1, <2>1 DEF CandSteps
<1>5. CASE \/ H!Deadline \/ H!WorkerLocks \/ H!WorkerIdle \/ H!Fold \/ H!HostRotates \/ H!ResetCommits
           \/ H!FoldFails \/ H!Folded \/ H!TimesOut \/ H!StartReset \/ H!ResetFails \/ H!ResetEnds
           \/ \E m \in H!Msgs : H!Hand(m) \/ H!Request(m) \/ H!Observe(m) \/ H!TurnEnds(m) \/ H!TurnFails(m)
                              \/ H!HostNew(m)
  <2>1. n' = n /\ cand' = cand
    BY <1>5 DEF H!Deadline, H!WorkerLocks, H!WorkerIdle, H!Fold, H!HostRotates,
       H!ResetCommits, H!FoldFails, H!Folded, H!TimesOut, H!StartReset, H!ResetFails,
       H!ResetEnds, H!Hand, H!Request, H!Observe, H!TurnEnds, H!TurnFails, H!HostNew,
       H!turnVars
  <2> QED
    BY <1>1, <2>1 DEF CandSteps
<1> QED
  BY <1>2, <1>3, <1>4, <1>5 DEF H!Next

LEMMA HookKeeps ==
  ASSUME HistoryInv, H!Next
  PROVE  hook' \in Nat
<1>1. hook \in Nat /\ sid' \in Nat
  BY CtxSteps DEF HistoryInv, HistoryTypes, CtxGrows
<1>2. hook' \in {hook, 0, sid'}
  BY DEF H!Next, H!Arrive, H!ObserveReset, H!Deadline, H!WorkerLocks, H!WorkerIdle,
         H!Fold, H!FoldFails, H!Folded, H!TimesOut, H!StartReset, H!ResetFails,
         H!ResetEnds, H!Reopen, H!Before, H!Hand, H!HostNew, H!Observe, H!TurnEnds,
         H!TurnFails, H!Request, H!HostRotates, H!ResetCommits, H!turnVars
<1> QED
  BY <1>1, <1>2

LEMMA HistoryTypesKept ==
  ASSUME HistoryInv, H!Next, MaxEntries \in Nat
  PROVE  HistoryTypes'
<1>1. /\ hist \in Rows /\ worker \in Workers /\ reset \in Resets /\ cand \in Cands
      /\ sid \in Nat /\ renewals \in Seq(Entries)
  BY DEF HistoryInv, HistoryTypes
<1>2. hist' \in Rows
  BY RowGrows DEF Grows
<1>3. worker' \in Workers
  <2>1. CASE \E m \in worker.todo : worker' = [worker EXCEPT !.row = hist', !.todo = @ \ {m}]
    BY <1>1, <1>2, <2>1 DEF Workers
  <2>2. CASE worker' = [worker EXCEPT !.at = "idle2", !.row = hist']
    BY <1>1, <1>2, <2>2 DEF Workers
  <2> QED
    BY <1>1, <2>1, <2>2, WorkerSteps, BeginTyped
<1>4. reset' \in Resets
  <2>1. worker.row \in Rows
    BY <1>1 DEF Workers
  <2>2. CASE reset' = [at |-> "command", row |-> worker.row, old |-> sid]
    BY <1>1, <2>1, <2>2 DEF Resets
  <2>3. CASE reset' = [reset EXCEPT !.at = "reread"]
    BY <1>1, <2>3 DEF Resets
  <2> QED
    BY <1>1, <2>2, <2>3, ResetSteps, StartsTyped
<1>5. renewals' \in Seq(Entries)
  <2>1. /\ reset.row.pend.id \in Nat /\ reset.row.pend.cut \in Nat /\ hist.sum \in Seq(H!Chat)
    BY <1>1 DEF Resets, Rows, Pends
  <2> DEFINE e == [id |-> reset.row.pend.id, cut |-> reset.row.pend.cut, from |-> sid,
                   sum |-> hist.sum]
  <2>2. e \in Entries
    BY <1>1, <2>1 DEF Entries
  <2>3. renewals' = renewals \/ renewals' = Append(renewals, e)
    BY RenewalSteps
  <2> HIDE DEF e
  <2> QED
    BY <1>1, <2>2, <2>3
<1>6. cand' \in Cands /\ n' \in 0..MaxEntries
  <2>1. \A m \in H!Msgs : [old |-> sid, mid |-> m] \in Cands
    BY <1>1 DEF Cands, H!Msgs
  <2> QED
    BY <1>1, <2>1, CandKeeps, StartsTyped DEF CandSteps
<1> QED
  BY <1>2, <1>3, <1>4, <1>5, <1>6, HookKeeps, CtxSteps, TurnTypes
     DEF HistoryTypes, CtxGrows, TurnsTyped

LEMMA CopiesKept ==
  ASSUME HistoryInv, H!Next, MaxEntries \in Nat
  PROVE  CopiesInv'
<1>1. /\ hist \in Rows /\ worker \in Workers /\ reset \in Resets /\ way \in [H!Msgs -> TurnRecords]
      /\ Older(H!Fresh, hist) /\ Older(worker.row, hist) /\ Older(reset.row, hist)
      /\ \A m \in H!Msgs : Older(way[m].row, hist)
  BY DEF HistoryInv, HistoryTypes, CopiesInv, Behind
<1>2. /\ worker.row \in Rows /\ reset.row \in Rows /\ \A m \in H!Msgs : way[m].row \in Rows
  BY <1>1 DEF Workers, Resets, TurnRecords
<1>3. Grows(hist, hist')
  BY RowGrows
<1>4. \A r \in Rows : Older(r, r)
  BY DEF Older, Rows
<1>5. Older(hist, hist') /\ Older(hist', hist') /\ Older(H!Fresh, hist')
  BY <1>1, <1>3, <1>4, OlderKeeps, StartsTyped DEF Grows
<1>6. Older(worker.row, hist') /\ Older(reset.row, hist') /\ \A m \in H!Msgs : Older(way[m].row, hist')
  BY <1>1, <1>2, <1>3, OlderKeeps
<1>7. worker'.row \in {worker.row, hist, hist', H!Fresh}
  <2>1. CASE \E m \in worker.todo : worker' = [worker EXCEPT !.row = hist', !.todo = @ \ {m}]
    BY <1>1, <2>1 DEF Workers
  <2>2. CASE worker' = [worker EXCEPT !.at = "idle2", !.row = hist']
    BY <1>1, <2>2 DEF Workers
  <2> QED
    BY <2>1, <2>2, WorkerSteps, BeginTyped
<1>8. reset'.row \in {reset.row, worker.row, H!Fresh}
  BY <1>1, ResetSteps DEF Resets, H!NoReset
<1>9. \A m \in H!Msgs : way'[m].row \in {way[m].row, hist, hist', H!Fresh}
  BY TurnTypes DEF TurnsTyped
<1> QED
  BY <1>5, <1>6, <1>7, <1>8, <1>9 DEF CopiesInv, Behind

LEMMA SumKept ==
  ASSUME HistoryInv, H!Next
  PROVE  SumInv' /\ H!IsPrefix(hist.sum, hist'.sum)
<1>1. /\ hist \in Rows /\ hist.sum \in Seq(H!Chat) /\ hist.bound \in Nat /\ hist' \in Rows
      /\ hist'.bound \in Nat /\ hist.bound <= hist'.bound /\ hist.through \in Nat
  BY RowGrows DEF HistoryInv, HistoryTypes, Rows, Grows
<1>2. \A m \in H!Chat : m \in Nat
  BY DEF H!Chat, H!Msgs
<1>3. ASSUME hist'.sum = hist.sum, hist'.through = hist.through
      PROVE  SumInv' /\ H!IsPrefix(hist.sum, hist'.sum)
  <2>1. SumInv'
    BY <1>1, <1>2, <1>3 DEF HistoryInv, SumInv, H!Exact
  <2>2. H!IsPrefix(hist.sum, hist'.sum)
    BY <1>1, <1>3 DEF H!IsPrefix
  <2> QED
    BY <2>1, <2>2
<1>4. ASSUME NEW m \in worker.todo, \A k \in worker.todo : m <= k, worker.row = hist,
             worker.at = "llm", hist' = H!Published(hist, m)
      PROVE  SumInv' /\ H!IsPrefix(hist.sum, hist'.sum)
  <2>1. m \in H!Chat
    BY <1>4 DEF HistoryInv, HistoryTypes, Workers
  <2> DEFINE q == hist.sum
             p == hist'.sum
  <2>2. p = Append(q, m) /\ hist'.through = m /\ hist'.bound = hist.bound
    BY <1>1, <1>4, <2>1, PublishedIs
  <2>3. /\ p \in Seq(H!Chat) /\ Len(p) = Len(q) + 1 /\ \A i \in DOMAIN q : p[i] = q[i]
        /\ p[Len(q) + 1] = m /\ H!ToSet(p) = H!ToSet(q) \cup {m}
    BY <1>1, <2>1, <2>2, AppendIs
  <2>4. m > hist.through /\ \A k \in H!Chat : k < m /\ k > hist.through => k <= hist.bound
    <3>1. \A k \in worker.todo : k > hist.through
      BY <1>4 DEF HistoryInv, WorkInv
    <3>2. \A k \in H!Chat : k < m /\ k > hist.through /\ k > hist.bound => k \in worker.todo
      BY <1>4 DEF HistoryInv, WorkInv
    <3> QED
      BY <1>1, <1>2, <1>4, <2>1, <3>1, <3>2
  <2>5. \A i \in DOMAIN q : q[i] <= hist.through
    BY DEF HistoryInv, SumInv
  <2>6. \A i, j \in DOMAIN q : i < j => q[i] < q[j]
    BY DEF HistoryInv, SumInv, H!Exact
  <2>7. \A k \in H!Chat : k <= hist.through /\ k > hist.bound => k \in H!ToSet(q)
    BY DEF HistoryInv, SumInv, H!Exact
  <2> HIDE DEF q, p
  <2>8. q \in Seq(H!Chat) /\ DOMAIN q = 1..Len(q) /\ DOMAIN p = 1..(Len(q) + 1) /\ Len(q) \in Nat
    BY <1>1, <2>3 DEF q
  <2>9. m \in Nat /\ \A i \in DOMAIN q : q[i] \in Nat
    BY <1>2, <2>1, <2>8
  <2>10. \A i \in DOMAIN p : p[i] <= m /\ (i \in DOMAIN q \/ i = Len(q) + 1)
    BY <1>1, <2>3, <2>4, <2>5, <2>8, <2>9
  <2>11. \A i, j \in DOMAIN p : i < j => p[i] < p[j]
    <3> SUFFICES ASSUME NEW i \in DOMAIN p, NEW j \in DOMAIN p, i < j
                 PROVE  p[i] < p[j]
      OBVIOUS
    <3>1. i \in DOMAIN q
      BY <2>8
    <3>2. CASE j \in DOMAIN q
      BY <2>3, <2>6, <3>1, <3>2
    <3>3. CASE j = Len(q) + 1
      BY <1>1, <2>3, <2>4, <2>5, <2>9, <3>1, <3>3
    <3> QED
      BY <2>10, <3>2, <3>3
  <2>12. H!Last(p) = m
    BY <2>3 DEF H!Last
  <2>13. ASSUME NEW k \in H!Chat, k <= m, k > hist.bound PROVE k \in H!ToSet(p)
    <3>1. k = m \/ k < m
      BY <1>2, <2>9, <2>13
    <3>2. k < m => k <= hist.through
      BY <1>1, <1>2, <2>4, <2>13
    <3> QED
      BY <2>3, <2>7, <2>13, <3>1, <3>2
  <2>14. H!IsPrefix(q, p)
    BY <2>3, <2>8 DEF H!IsPrefix
  <2> QED
    BY <2>2, <2>10, <2>11, <2>12, <2>13, <2>14 DEF SumInv, H!Exact, q, p
<1>5. CASE H!Fold
  BY <1>3, <1>4, <1>5, FoldGrows
<1>6. CASE \E m \in H!Msgs : H!Observe(m)
  BY <1>3, <1>6, ObserveGrows
<1>7. CASE ~H!Fold /\ \A m \in H!Msgs : ~H!Observe(m)
  BY <1>3, <1>7, StepSettles DEF SettlesRow, Moves
<1> QED
  BY <1>5, <1>6, <1>7

-----------------------------------------------------------------------------
(* The turns, one step at a time. *)

HostFree == \A k \in H!Msgs : way[k].at \notin {"running", "observed"}
NextInLane(m) == \A k \in 1..(m - 1) : way[k].at # "handed"
OnlyTurn(m) == n' = n /\ \A k \in H!Msgs \ {m} : way'[k] = way[k]

\* The lane takes a message.
Comes == /\ n' = n + 1 /\ n + 1 \in H!Msgs /\ \A k \in H!Msgs : way[k].at \notin {"arrived", "second"}
         /\ way'[n + 1].at = "arrived" /\ \A k \in H!Msgs \ {n + 1} : way'[k] = way[k]
\* It prepares a message, and may hand it to the host.
Prepares(m) == /\ OnlyTurn(m) /\ way[m].at \in {"arrived", "second"}
               /\ \/ way'[m].at \in {"arrived", "second"}
                  \/ way'[m].at = "handed" /\ (m \in News \/ way'[m] \in H!Handed(m, hist'))
\* The host shows its session a turn.
Shows(m) == /\ OnlyTurn(m) /\ way[m].at = "handed" /\ m \in H!Chat /\ HostFree /\ NextInLane(m)
            /\ way'[m] = [way[m] EXCEPT !.at = "running", !.sid = sid]
            /\ sid' = sid /\ ctx' = [ctx EXCEPT ![sid] = @ \cup {m} \cup way[m].cover]
            /\ left' = [left EXCEPT ![sid] = IF way[m].text THEN way[m].left ELSE @]
\* The request is observed.
Notes(m) == /\ OnlyTurn(m) /\ way[m].at = "running" /\ H!Observe(m)
            /\ way'[m] = [way[m] EXCEPT !.at = "observed"]
\* A turn is over.
Leaves(m) == /\ OnlyTurn(m) /\ way'[m].at = "done"
             /\ \/ way[m].at \in {"running", "observed"}
                \/ way[m].at = "handed" /\ m \in News /\ HostFree /\ NextInLane(m)
\* The connection is made again.
Forgets == /\ n' = n
           /\ \A k \in H!Msgs :
                /\ way'[k].text = way[k].text /\ way'[k].cover = way[k].cover
                /\ way'[k].left = way[k].left /\ way'[k].row = way[k].row /\ way'[k].sid = way[k].sid
                /\ \/ way'[k].at = way[k].at
                   \/ way[k].at = "second" /\ way'[k].at = "arrived"

TurnStep == \/ way' = way /\ n' = n
            \/ Comes \/ Forgets
            \/ \E m \in H!Msgs : Prepares(m) \/ Shows(m) \/ Notes(m) \/ Leaves(m)

LEMMA TurnSteps ==
  ASSUME HistoryInv, H!Next, MaxEntries \in Nat
  PROVE  TurnStep
<1>1. way \in [H!Msgs -> TurnRecords] /\ n \in 0..MaxEntries
  BY DEF HistoryInv, HistoryTypes
<1>2. ASSUME NEW m \in H!Msgs, NEW t, way' = [way EXCEPT ![m] = t]
      PROVE  way'[m] = t /\ \A k \in H!Msgs \ {m} : way'[k] = way[k]
  BY <1>1, <1>2
<1>3. CASE H!Arrive
  <2>1. n + 1 \in H!Msgs /\ n' = n + 1 /\ way' = [way EXCEPT ![n + 1].at = "arrived"] /\ ~H!LaneBusy
    BY <1>1, <1>3 DEF H!Arrive, H!Msgs
  <2> DEFINE m == n + 1
             t == [way[m] EXCEPT !.at = "arrived"]
  <2>2. t.at = "arrived"
    BY <1>1, <2>1 DEF TurnRecords
  <2>3. way' = [way EXCEPT ![m] = t]
    BY <1>1, <2>1
  <2> HIDE DEF t
  <2>4. way'[m] = t /\ \A k \in H!Msgs \ {m} : way'[k] = way[k]
    BY <1>2, <2>1, <2>3
  <2> QED
    BY <2>1, <2>2, <2>4 DEF TurnStep, Comes, H!LaneBusy
<1>4. CASE \E m \in H!Msgs : H!Before(m)
  <2> PICK m \in H!Msgs : H!Before(m)
    BY <1>4
  <2>1. n' = n /\ way[m].at = "arrived"
    BY DEF H!Before
  <2>2. ASSUME NEW t, way' = [way EXCEPT ![m] = t],
               t.at = "second" \/ (t.at = "handed" /\ (m \in News \/ t \in H!Handed(m, hist')))
        PROVE  Prepares(m)
    <3>1. way'[m] = t /\ \A k \in H!Msgs \ {m} : way'[k] = way[k]
      BY <1>2, <2>2
    <3> QED
      BY <2>1, <2>2, <3>1 DEF Prepares, OnlyTurn
  <2>3. CASE m \in News
    <3> DEFINE t == [way[m] EXCEPT !.at = "handed", !.row = hist']
    <3>1. t.at = "handed"
      BY <1>1 DEF TurnRecords
    <3>2. way' = [way EXCEPT ![m].at = "handed", ![m].row = hist']
      BY <2>3 DEF H!Before
    <3>3. way' = [way EXCEPT ![m] = t]
      BY <1>1, <3>2
    <3> HIDE DEF t
    <3> QED
      BY <2>2, <2>3, <3>1, <3>3 DEF TurnStep
  <2>4. CASE m \notin News /\ way' = [way EXCEPT ![m].at = "second"]
    <3> DEFINE t == [way[m] EXCEPT !.at = "second"]
    <3>1. t.at = "second"
      BY <1>1 DEF TurnRecords
    <3>2. way' = [way EXCEPT ![m] = t]
      BY <1>1, <2>4
    <3> HIDE DEF t
    <3> QED
      BY <2>2, <3>1, <3>2 DEF TurnStep
  <2>5. CASE m \notin News /\ \E t \in H!Handed(m, hist') : way' = [way EXCEPT ![m] = t]
    <3>1. \A t \in H!Handed(m, hist') : t.at = "handed"
      BY HandedAt
    <3> QED
      BY <2>2, <2>5, <3>1 DEF TurnStep
  <2> QED
    BY <2>3, <2>4, <2>5 DEF H!Before
<1>5. CASE \E m \in H!Msgs : H!Hand(m)
  <2> PICK m \in H!Msgs : H!Hand(m)
    BY <1>5
  <2>1. \E t : /\ way' = [way EXCEPT ![m] = t]
               /\ t.at = "arrived" \/ (t.at = "handed" /\ t \in H!Handed(m, hist))
    <3>1. CASE way' = [way EXCEPT ![m].at = "arrived"]
      <4> DEFINE t == [way[m] EXCEPT !.at = "arrived"]
      <4>1. t.at = "arrived" /\ way' = [way EXCEPT ![m] = t]
        BY <1>1, <3>1 DEF TurnRecords
      <4> HIDE DEF t
      <4> QED
        BY <4>1
    <3>2. CASE \E t \in H!Handed(m, hist) : way' = [way EXCEPT ![m] = t]
      <4>1. \A t \in H!Handed(m, hist) : t.at = "handed"
        BY HandedAt
      <4> QED
        BY <3>2, <4>1
    <3> QED
      BY <3>1, <3>2 DEF H!Hand
  <2>2. n' = n /\ way[m].at = "second" /\ hist' = hist
    BY DEF H!Hand
  <2>3. H!Handed(m, hist) = H!Handed(m, hist')
    <3>1. sid' = sid
      BY DEF H!Hand, H!hostVars
    <3> QED
      BY <2>2, <3>1 DEF H!Handed
  <2> PICK t : /\ way' = [way EXCEPT ![m] = t]
               /\ t.at = "arrived" \/ (t.at = "handed" /\ t \in H!Handed(m, hist))
    BY <2>1
  <2>4. way'[m] = t /\ \A k \in H!Msgs \ {m} : way'[k] = way[k]
    BY <1>2
  <2> QED
    BY <2>2, <2>3, <2>4 DEF TurnStep, Prepares, OnlyTurn
<1>6. CASE \E m \in H!Msgs : H!Request(m)
  <2> PICK m \in H!Msgs : H!Request(m)
    BY <1>6
  <2> DEFINE t == [way[m] EXCEPT !.at = "running", !.sid = sid]
  <2>1. way' = [way EXCEPT ![m] = t]
    BY <1>1 DEF H!Request
  <2>2. way'[m] = t /\ \A k \in H!Msgs \ {m} : way'[k] = way[k]
    BY <1>2, <2>1
  <2> QED
    BY <2>2 DEF TurnStep, Shows, OnlyTurn, H!Request, HostFree, NextInLane, H!Chat
<1>7. CASE \E m \in H!Msgs : H!Observe(m)
  <2> PICK m \in H!Msgs : H!Observe(m)
    BY <1>7
  <2> DEFINE t == [way[m] EXCEPT !.at = "observed"]
  <2>1. way' = [way EXCEPT ![m] = t] /\ n' = n /\ way[m].at = "running"
    BY <1>1 DEF H!Observe
  <2>2. way'[m] = t /\ \A k \in H!Msgs \ {m} : way'[k] = way[k]
    BY <1>2, <2>1
  <2> QED
    BY <2>1, <2>2 DEF TurnStep, Notes, OnlyTurn
<1>8. CASE \E m \in H!Msgs : H!TurnEnds(m) \/ H!TurnFails(m) \/ H!HostNew(m)
  <2> PICK m \in H!Msgs : H!TurnEnds(m) \/ H!TurnFails(m) \/ H!HostNew(m)
    BY <1>8
  <2> DEFINE t == [H!NotYet EXCEPT !.at = "done"]
  <2>1. way' = [way EXCEPT ![m] = t] /\ n' = n
    BY <1>1 DEF H!TurnEnds, H!TurnFails, H!HostNew
  <2>2. way'[m] = t /\ \A k \in H!Msgs \ {m} : way'[k] = way[k]
    BY <1>2, <2>1
  <2>3. t.at = "done"
    BY DEF H!NotYet
  <2>4. \/ way[m].at \in {"running", "observed"}
        \/ way[m].at = "handed" /\ m \in News /\ HostFree /\ NextInLane(m)
    BY DEF H!TurnEnds, H!TurnFails, H!HostNew, HostFree, NextInLane
  <2> HIDE DEF t
  <2> QED
    BY <2>1, <2>2, <2>3, <2>4 DEF TurnStep, Leaves, OnlyTurn
<1>9. CASE H!Reopen
  <2> DEFINE T(m) == [way[m] EXCEPT !.tracked = FALSE, !.at = IF @ = "second" THEN "arrived" ELSE @]
  <2>1. ASSUME NEW k \in H!Msgs
        PROVE  /\ T(k).text = way[k].text /\ T(k).cover = way[k].cover
               /\ T(k).left = way[k].left /\ T(k).row = way[k].row /\ T(k).sid = way[k].sid
               /\ T(k).at = way[k].at \/ (way[k].at = "second" /\ T(k).at = "arrived")
    BY <1>1 DEF TurnRecords
  <2>2. way' = [m \in H!Msgs |-> T(m)] /\ n' = n
    BY <1>9 DEF H!Reopen
  <2> HIDE DEF T
  <2> QED
    BY <2>1, <2>2 DEF TurnStep, Forgets
<1>10. CASE \/ H!HostRotates \/ H!ObserveReset \/ H!Deadline \/ H!WorkerLocks \/ H!WorkerIdle \/ H!Fold
            \/ H!FoldFails \/ H!Folded \/ H!TimesOut \/ H!StartReset \/ H!ResetCommits \/ H!ResetFails \/ H!ResetEnds
  <2>1. way' = way /\ n' = n
    BY <1>10 DEF H!HostRotates, H!ObserveReset, H!Deadline, H!WorkerLocks, H!WorkerIdle,
       H!Fold, H!FoldFails, H!Folded, H!TimesOut, H!StartReset, H!ResetCommits,
       H!ResetFails, H!ResetEnds, H!turnVars
  <2> QED
    BY <2>1 DEF TurnStep
<1> QED
  BY <1>3, <1>4, <1>5, <1>6, <1>7, <1>8, <1>9, <1>10 DEF H!Next

LEMMA LaneKept ==
  ASSUME HistoryInv, H!Next, MaxEntries \in Nat
  PROVE  HistoryLane'
<1>1. /\ n \in 0..MaxEntries /\ n' \in 0..MaxEntries /\ n <= n' /\ cand \in Cands
      /\ hist.bound \in Nat /\ hist'.bound \in Nat
  BY CandKeeps, RowGrows DEF HistoryInv, HistoryTypes, CandSteps, Grows, Rows
<1>2. /\ \A m \in H!Msgs : m <= n <=> way[m].at # "none"
      /\ \A m \in H!Msgs : way[m].at \in {"arrived", "second"} => m = n
      /\ hist.bound <= n /\ (cand # H!NoCand => hist.bound <= cand.mid /\ cand.mid <= n)
  BY DEF HistoryInv, HistoryLane
<1>3. \A m \in H!Msgs : m \in Nat
  BY DEF H!Msgs
<1>4. /\ \A m \in H!Msgs : m <= n' <=> way'[m].at # "none"
      /\ \A m \in H!Msgs : way'[m].at \in {"arrived", "second"} => m = n'
  <2>1. CASE way' = way /\ n' = n
    BY <1>2, <2>1
  <2>2. CASE Comes
    BY <1>1, <1>2, <1>3, <2>2 DEF Comes
  <2>3. CASE Forgets
    BY <1>2, <2>3 DEF Forgets
  <2>4. CASE \E m \in H!Msgs : Prepares(m) \/ Shows(m) \/ Notes(m) \/ Leaves(m)
    <3> PICK m \in H!Msgs : Prepares(m) \/ Shows(m) \/ Notes(m) \/ Leaves(m)
      BY <2>4
    <3>1. way[m] \in TurnRecords
      BY DEF HistoryInv, HistoryTypes
    <3>2. /\ OnlyTurn(m) /\ way[m].at # "none" /\ way'[m].at # "none"
          /\ way'[m].at \in {"arrived", "second"} => way[m].at \in {"arrived", "second"}
      BY <3>1 DEF Prepares, Shows, Notes, Leaves, TurnRecords
    <3> QED
      BY <1>2, <3>2 DEF OnlyTurn
  <2> QED
    BY <2>1, <2>2, <2>3, <2>4, TurnSteps DEF TurnStep
<1>5. hist'.bound = hist.bound \/ (cand # H!NoCand /\ hist'.bound = cand.mid)
  <2>1. CASE H!Fold
    <3>1. worker.todo \subseteq H!Chat /\ hist \in Rows
      BY DEF HistoryInv, HistoryTypes, Workers
    <3>2. \A m \in worker.todo : H!Published(hist, m).bound = hist.bound
      BY <3>1, PublishedIs
    <3> QED
      BY <2>1, <3>2, FoldGrows
  <2>2. CASE \E m \in H!Msgs : H!Observe(m)
    BY <2>2, ObserveGrows
  <2>3. CASE ~H!Fold /\ \A m \in H!Msgs : ~H!Observe(m)
    BY <2>3, StepSettles DEF SettlesRow
  <2> QED
    BY <2>1, <2>2, <2>3
<1>6. hist'.bound <= n
  BY <1>1, <1>2, <1>5
<1>7. cand' # H!NoCand => hist'.bound <= cand'.mid /\ cand'.mid <= n'
  <2>1. CASE cand' = cand
    <3>1. cand # H!NoCand => cand.mid \in Nat
      BY <1>1 DEF Cands
    <3> QED
      BY <1>1, <1>2, <1>5, <2>1, <3>1
  <2>2. CASE \E m \in H!Msgs : cand' = [old |-> sid, mid |-> m] /\ way[m].at = "arrived"
    BY <1>1, <1>2, <1>6, <2>2
  <2> QED
    BY <2>1, <2>2, CandKeeps DEF CandSteps
<1> QED
  BY <1>1, <1>4, <1>6, <1>7 DEF HistoryLane

LEMMA HistoryOrderKept ==
  ASSUME HistoryInv, H!Next, MaxEntries \in Nat
  PROVE  TurnOrder'
<1>1. /\ \A m \in H!Msgs : way[m].at \in {"running", "observed"} => m \in H!Chat
      /\ \A j, k \in H!Msgs :
           j < k /\ way[k].at \in {"running", "observed", "done"} => way[j].at = "done"
  BY DEF HistoryInv, TurnOrder
<1>2. /\ \A m \in H!Msgs : m <= n <=> way[m].at # "none"
      /\ \A m \in H!Msgs : way[m].at \in {"arrived", "second"} => m = n
      /\ n \in 0..MaxEntries
  BY DEF HistoryInv, HistoryLane, HistoryTypes
<1>3. \A m \in H!Msgs : m \in Nat /\ m >= 1 /\ way[m] \in TurnRecords
  BY DEF H!Msgs, HistoryInv, HistoryTypes
<1>4. CASE way' = way
  BY <1>1, <1>4 DEF TurnOrder
<1>5. CASE Comes
  <2>1. way[n + 1].at = "none"
    BY <1>2, <1>5 DEF Comes, H!Msgs
  <2>2. \A m \in H!Msgs : \/ way'[m].at = way[m].at
                          \/ way[m].at = "none" /\ way'[m].at = "arrived"
    BY <1>5, <2>1 DEF Comes
  <2> QED
    BY <1>1, <2>2 DEF TurnOrder
<1>6. CASE Forgets
  <2>1. \A m \in H!Msgs : \/ way'[m].at = way[m].at
                          \/ way[m].at = "second" /\ way'[m].at = "arrived"
    BY <1>6 DEF Forgets
  <2> QED
    BY <1>1, <2>1 DEF TurnOrder
<1>7. CASE \E m \in H!Msgs : Prepares(m) \/ Shows(m) \/ Notes(m) \/ Leaves(m)
  <2> PICK m \in H!Msgs : Prepares(m) \/ Shows(m) \/ Notes(m) \/ Leaves(m)
    BY <1>7
  <2>1. \A k \in H!Msgs \ {m} : way'[k] = way[k]
    BY DEF Prepares, Shows, Notes, Leaves, OnlyTurn
  <2>2. CASE Prepares(m)
    <3>1. way'[m].at \notin {"running", "observed", "done"} /\ way[m].at # "done"
      BY <2>2 DEF Prepares
    <3> QED
      BY <1>1, <2>1, <3>1 DEF TurnOrder
  <2>3. CASE Shows(m) \/ Notes(m)
    <3>1. /\ m \in H!Chat /\ way[m].at # "done" /\ way'[m].at \in {"running", "observed"}
      BY <1>1, <1>3, <2>3 DEF Shows, Notes, TurnRecords
    <3>2. \A j \in H!Msgs : j < m => way[j].at = "done"
      <4>1. CASE Notes(m)
        BY <1>1, <4>1 DEF Notes
      <4>2. CASE Shows(m)
        <5> SUFFICES ASSUME NEW j \in H!Msgs, j < m
                     PROVE  way[j].at = "done"
          OBVIOUS
        <5>1. way[j].at # "handed" /\ way[j].at \notin {"running", "observed"} /\ m <= n
          BY <1>2, <1>3, <4>2 DEF Shows, NextInLane, HostFree
        <5>2. way[j].at \notin {"none", "arrived", "second"}
          BY <1>2, <1>3, <5>1
        <5> QED
          BY <1>3, <5>1, <5>2 DEF TurnRecords
      <4> QED
        BY <2>3, <4>1, <4>2
    <3> QED
      BY <1>1, <1>3, <2>1, <3>1, <3>2 DEF TurnOrder
  <2>4. CASE Leaves(m)
    <3>1. way'[m].at = "done"
      BY <2>4 DEF Leaves
    <3>2. \A j \in H!Msgs : j < m => way[j].at = "done"
      <4>1. CASE way[m].at \in {"running", "observed"}
        BY <1>1, <4>1
      <4>2. CASE way[m].at = "handed" /\ HostFree /\ NextInLane(m)
        <5> SUFFICES ASSUME NEW j \in H!Msgs, j < m
                     PROVE  way[j].at = "done"
          OBVIOUS
        <5>1. way[j].at # "handed" /\ way[j].at \notin {"running", "observed"} /\ m <= n
          BY <1>2, <1>3, <4>2 DEF NextInLane, HostFree
        <5>2. way[j].at \notin {"none", "arrived", "second"}
          BY <1>2, <1>3, <5>1
        <5> QED
          BY <1>3, <5>1, <5>2 DEF TurnRecords
      <4> QED
        BY <2>4, <4>1, <4>2 DEF Leaves
    <3> QED
      BY <1>1, <1>3, <2>1, <3>1, <3>2 DEF TurnOrder
  <2> QED
    BY <2>2, <2>3, <2>4
<1> QED
  BY <1>4, <1>5, <1>6, <1>7, TurnSteps DEF TurnStep

-----------------------------------------------------------------------------
(* What a turn carries, and what its session has been shown. *)

\* The entries of the interval and the summary make up all after the boundary.
LEMMA CoversAll ==
  ASSUME NEW r \in Rows, NEW m \in H!Msgs, NEW k \in H!Chat, k < m, k > r.bound,
         \A j \in H!Chat : j <= r.through /\ j > r.bound => j \in H!ToSet(r.sum)
  PROVE  k \in H!ToSet(r.sum) \cup H!Interval(r, m - 1, FALSE)
<1>1. k \in Nat /\ m \in Nat /\ r.bound \in Nat /\ r.through \in Nat
  BY DEF H!Chat, H!Msgs, Rows
<1>2. CASE k <= r.through
  BY <1>2
<1>3. CASE k > r.through
  <2>1. (IF FALSE \/ r.bound < r.through THEN r.through ELSE r.bound) < k /\ k <= m - 1
    BY <1>1, <1>3
  <2> QED
    BY <2>1 DEF H!Interval
<1>4. k <= r.through \/ k > r.through
  BY <1>1
<1> QED
  BY <1>2, <1>3, <1>4

TurnChange(k) ==
  \/ way'[k].at \in {"none", "arrived", "second", "done"}
  \/ /\ way'[k].at = way[k].at /\ way'[k].text = way[k].text /\ way'[k].cover = way[k].cover
     /\ way'[k].left = way[k].left /\ way'[k].row = way[k].row /\ way'[k].sid = way[k].sid
  \/ k \in News
  \/ way'[k] \in H!Handed(k, hist')
  \/ Shows(k) \/ Notes(k)

LEMMA TurnChanges ==
  ASSUME HistoryInv, H!Next, MaxEntries \in Nat, NEW k \in H!Msgs
  PROVE  /\ TurnChange(k)
         /\ k \in H!Chat /\ way'[k].at \in {"running", "observed", "done"}
              => way[k].at \in {"running", "observed", "done"} \/ Shows(k)
<1>0. k \in H!Chat => k \notin News
  BY DEF H!Chat
<1>1. way[k] \in TurnRecords
  BY DEF HistoryInv, HistoryTypes
<1>2. CASE way'[k] = way[k]
  BY <1>2 DEF TurnChange
<1>3. CASE Comes
  <2>1. CASE k = n + 1
    BY <1>3, <2>1 DEF Comes, TurnChange
  <2>2. CASE k # n + 1
    BY <1>2, <1>3, <2>2 DEF Comes
  <2> QED
    BY <2>1, <2>2
<1>4. CASE Forgets
  BY <1>4 DEF Forgets, TurnChange
<1>5. CASE Prepares(k)
  <2>1. CASE way'[k].at \in {"arrived", "second"}
    BY <2>1 DEF TurnChange
  <2>2. CASE way'[k].at = "handed" /\ (k \in News \/ way'[k] \in H!Handed(k, hist'))
    BY <2>2 DEF TurnChange
  <2> QED
    BY <1>5, <2>1, <2>2 DEF Prepares
<1>6. CASE Shows(k)
  BY <1>6 DEF TurnChange
<1>7. CASE Notes(k)
  BY <1>7 DEF TurnChange, Notes
<1>8. CASE Leaves(k)
  BY <1>0, <1>8 DEF TurnChange, Leaves
<1>9. CASE \E m \in H!Msgs \ {k} : Prepares(m) \/ Shows(m) \/ Notes(m) \/ Leaves(m)
  <2>1. way'[k] = way[k]
    BY <1>9 DEF Prepares, Shows, Notes, Leaves, OnlyTurn
  <2> QED
    BY <1>2, <2>1
<1> QED
  BY <1>2, <1>3, <1>4, <1>5, <1>6, <1>7, <1>8, <1>9, TurnSteps DEF TurnStep

LEMMA CoverKept ==
  ASSUME HistoryInv, H!Next, MaxEntries \in Nat
  PROVE  CoverInv'
<1>1. /\ hist' \in Rows /\ sid \in Nat /\ sid >= 1 /\ ctx \in Seq(SUBSET H!Chat) /\ sid = Len(ctx)
      /\ left \in Seq(SUBSET H!Chat) /\ sid = Len(left) /\ \A m \in H!Msgs : way[m] \in TurnRecords
  BY RowGrows DEF HistoryInv, HistoryTypes, Grows
<1>2. /\ \A m \in H!Chat : way[m].at \in {"handed", "running"} /\ way[m].text =>
           \A k \in H!Chat : k < m /\ k > way[m].row.bound => k \in way[m].cover \cup way[m].left
      /\ \A m \in H!Chat : way[m].at \in {"running", "observed"} =>
           /\ way[m].sid \in 1..sid /\ {m} \cup way[m].cover \subseteq ctx[way[m].sid]
           /\ way[m].text => way[m].left \subseteq left[way[m].sid]
  BY DEF HistoryInv, CoverInv
<1>3. \A k \in 1..sid : k \in 1..sid' /\ ctx[k] \subseteq ctx'[k]
  BY CtxSteps DEF CtxGrows
<1> SUFFICES ASSUME NEW m \in H!Chat
             PROVE  /\ way'[m].at \in {"handed", "running"} /\ way'[m].text =>
                         \A k \in H!Chat : k < m /\ k > way'[m].row.bound =>
                            k \in way'[m].cover \cup way'[m].left
                    /\ way'[m].at \in {"running", "observed"} =>
                         /\ way'[m].sid \in 1..sid'
                         /\ {m} \cup way'[m].cover \subseteq ctx'[way'[m].sid]
                         /\ way'[m].text => way'[m].left \subseteq left'[way'[m].sid]
  BY DEF CoverInv
<1>4. m \in H!Msgs /\ m \notin News
  BY DEF H!Chat
\* While a turn is with the host no other one is shown to its session.
<1>10. way[m].at \in {"running", "observed"} => \A k \in 1..sid : left'[k] = left[k]
  <2>1. way[m].at \in {"running", "observed"} => \A j \in H!Msgs : ~H!Request(j)
    BY <1>4 DEF H!Request
  <2> QED
    BY <2>1, CtxSteps DEF CtxGrows
<1>5. CASE way'[m].at \in {"none", "arrived", "second", "done"}
  BY <1>5
<1>6. CASE /\ way'[m].at = way[m].at /\ way'[m].text = way[m].text /\ way'[m].cover = way[m].cover
           /\ way'[m].left = way[m].left /\ way'[m].row = way[m].row /\ way'[m].sid = way[m].sid
  <2>1. way[m].at \in {"running", "observed"} =>
          /\ way[m].sid \in 1..sid' /\ {m} \cup way[m].cover \subseteq ctx'[way[m].sid]
          /\ way[m].text => way[m].left \subseteq left'[way[m].sid]
    BY <1>2, <1>3, <1>10
  <2> QED
    BY <1>2, <1>6, <2>1
<1>7. CASE way'[m] \in H!Handed(m, hist')
  <2>1. /\ way'[m].at = "handed" /\ way'[m].row = hist'
        /\ way'[m].text => way'[m].cover \cup way'[m].left
                             = H!ToSet(hist'.sum) \cup H!Interval(hist', m - 1, FALSE)
    <3>1. hist' \in Rows /\ m \in H!Msgs /\ sid \in Nat
      BY <1>1, <1>4
    <3>2. \A t \in H!Handed(m, hist') :
             /\ t.at = "handed" /\ t.row = hist'
             /\ t.text => t.cover \cup t.left
                            = H!ToSet(hist'.sum) \cup H!Interval(hist', m - 1, FALSE)
      BY <3>1, HandedIs
    <3> QED
      BY <3>2, <1>7
  <2>2. \A j \in H!Chat : j <= hist'.through /\ j > hist'.bound => j \in H!ToSet(hist'.sum)
    BY SumKept DEF SumInv, H!Exact
  <2>3. ASSUME NEW k \in H!Chat, k < m, k > hist'.bound
        PROVE  k \in H!ToSet(hist'.sum) \cup H!Interval(hist', m - 1, FALSE)
    BY <1>1, <1>4, <2>2, <2>3, CoversAll
  <2> QED
    BY <2>1, <2>3
<1>8. CASE Shows(m)
  <2>1. /\ way'[m].at = "running" /\ way'[m].text = way[m].text /\ way'[m].cover = way[m].cover
        /\ way'[m].left = way[m].left /\ way'[m].row = way[m].row /\ way'[m].sid = sid
        /\ way[m].at = "handed"
    BY <1>1, <1>4, <1>8 DEF Shows, TurnRecords
  <2>2. /\ sid' = sid /\ ctx' = [ctx EXCEPT ![sid] = @ \cup {m} \cup way[m].cover]
        /\ left' = [left EXCEPT ![sid] = IF way[m].text THEN way[m].left ELSE @]
    BY <1>8 DEF Shows
  <2>3. sid \in 1..sid' /\ sid \in DOMAIN ctx /\ sid \in DOMAIN left
    BY <1>1, <2>2, Present
  <2>4. /\ {m} \cup way[m].cover \subseteq ctx'[sid]
        /\ way[m].text => way[m].left \subseteq left'[sid]
    BY <2>2, <2>3
  <2> QED
    BY <1>2, <2>1, <2>3, <2>4
<1>9. CASE Notes(m)
  <2>1. /\ way'[m].at = "observed" /\ way'[m].cover = way[m].cover /\ way'[m].text = way[m].text
        /\ way'[m].left = way[m].left /\ way'[m].sid = way[m].sid /\ way[m].at = "running"
    BY <1>1, <1>4, <1>9 DEF Notes, TurnRecords
  <2>2. /\ way[m].sid \in 1..sid' /\ {m} \cup way[m].cover \subseteq ctx'[way[m].sid]
        /\ way[m].text => way[m].left \subseteq left'[way[m].sid]
    BY <1>2, <1>3, <1>10, <2>1
  <2> QED
    BY <2>1, <2>2
<1> QED
  BY <1>4, <1>5, <1>6, <1>7, <1>8, <1>9, TurnChanges DEF TurnChange

LEMMA InjSteps ==
  ASSUME HistoryInv, H!Next
  PROVE  \/ hist'.injFor = hist.injFor
         \/ \E m \in H!Msgs : /\ H!Observe(m) /\ way[m].text /\ way[m].sid = sid /\ way[m].row = hist
                              /\ hist'.injFor = sid /\ hist'.bound = hist.bound
<1>1. CASE H!Fold
  <2>1. worker.todo \subseteq H!Chat /\ hist \in Rows
    BY DEF HistoryInv, HistoryTypes, Workers
  <2>2. \A m \in worker.todo : H!Published(hist, m).injFor = hist.injFor
    BY <2>1, PublishedIs
  <2> QED
    BY <1>1, <2>2, FoldGrows
<1>2. CASE \E m \in H!Msgs : H!Observe(m)
  BY <1>2, ObserveGrows
<1>3. CASE ~H!Fold /\ \A m \in H!Msgs : ~H!Observe(m)
  BY <1>3, StepSettles DEF SettlesRow, Moves
<1> QED
  BY <1>1, <1>2, <1>3

LEMMA ShownKept ==
  ASSUME HistoryInv, H!Next, MaxEntries \in Nat
  PROVE  ShownInv'
<1>1. /\ sid \in Nat /\ sid >= 1 /\ sid' \in Nat /\ hist.injFor \in Nat /\ hist.bound \in Nat
      /\ hist'.bound \in Nat /\ hist.bound <= hist'.bound
  BY RowGrows, CtxSteps DEF HistoryInv, HistoryTypes, CtxGrows, Rows, Grows
<1>2. hist.injFor <= sid /\ Shown
  BY DEF HistoryInv, ShownInv
<1>3. sid' = sid \/ (sid' = sid + 1 /\ hist' = hist)
  BY CtxSteps DEF CtxGrows
<1>4. hist'.injFor <= sid'
  BY <1>1, <1>2, <1>3, InjSteps
<1>5. CASE sid' = sid + 1 /\ hist' = hist
  BY <1>1, <1>2, <1>4, <1>5 DEF ShownInv, Shown
<1>6. CASE sid' = sid
  <2> SUFFICES ASSUME hist'.injFor = sid, NEW k \in H!Chat, k > hist'.bound,
                      way'[k].at \in {"running", "observed", "done"}
               PROVE  k \in ctx'[sid] \cup left'[sid]
    BY <1>4, <1>6 DEF ShownInv, Shown
  <2>1. k \in H!Msgs /\ k \in Nat /\ k > hist.bound
    BY <1>1 DEF H!Chat, H!Msgs
  <2>2. ctx[sid] \subseteq ctx'[sid]
    BY <1>1, CtxSteps DEF CtxGrows
  <2>3. CASE Shows(k)
    <3>1. sid \in DOMAIN ctx
      BY Present
    <3> QED
      BY <2>3, <3>1 DEF Shows
  \* A window that replaces the last one covers every turn that was shown before.
  <2>4. CASE way[k].at \in {"running", "observed", "done"} /\ hist.injFor = sid
    <3>1. CASE left'[sid] = left[sid]
      BY <1>2, <2>1, <2>2, <2>4, <3>1 DEF Shown
    <3>2. CASE \E m \in H!Msgs : H!Request(m) /\ way[m].text /\ left'[sid] = way[m].left
      <4> PICK m \in H!Msgs : H!Request(m) /\ way[m].text /\ left'[sid] = way[m].left
        BY <3>2
      <4>1. /\ way[m].at = "handed" /\ m \in H!Chat /\ m \in Nat
            /\ ctx' = [ctx EXCEPT ![sid] = @ \cup {m} \cup way[m].cover]
            /\ way[k].at \notin {"running", "observed"}
        BY <2>1 DEF H!Request, H!Chat, H!Msgs
      <4>2. k < m
        BY <2>1, <2>4, <4>1 DEF HistoryInv, TurnOrder
      <4>3. k > way[m].row.bound
        <5>1. way[m].row \in Rows /\ way[m].row.bound \in Nat
          BY DEF HistoryInv, HistoryTypes, TurnRecords, Rows
        <5>2. way[m].row.bound <= hist.bound
          BY DEF HistoryInv, CopiesInv, Behind, Older
        <5> QED
          BY <1>1, <2>1, <5>1, <5>2
      <4>4. k \in way[m].cover \cup way[m].left
        BY <4>1, <4>2, <4>3 DEF HistoryInv, CoverInv
      <4>5. sid \in DOMAIN ctx
        BY Present
      <4> QED
        BY <4>1, <4>4, <4>5
    <3> QED
      BY <1>1, <3>1, <3>2, CtxSteps DEF CtxGrows
  <2>5. CASE /\ way[k].at \in {"running", "observed", "done"}
             /\ \E m \in H!Msgs : H!Observe(m) /\ way[m].text /\ way[m].sid = sid /\ way[m].row = hist
    <3> PICK m \in H!Msgs : H!Observe(m) /\ way[m].text /\ way[m].sid = sid /\ way[m].row = hist
      BY <2>5
    <3>1. way[m].at = "running" /\ m \in Nat
      BY DEF H!Observe, H!Msgs
    <3>2. m \in H!Chat
      BY <3>1 DEF HistoryInv, TurnOrder
    <3>3. {m} \cup way[m].cover \subseteq ctx[sid] /\ way[m].left \subseteq left[sid]
      BY <3>1, <3>2 DEF HistoryInv, CoverInv
    <3>7. left' = left
      BY DEF H!Observe, H!hostVars
    <3>4. CASE k = m
      BY <2>2, <3>3, <3>4
    <3>5. CASE k < m
      <4>1. k \in way[m].cover \cup way[m].left
        BY <2>1, <3>1, <3>2, <3>5 DEF HistoryInv, CoverInv
      <4> QED
        BY <2>2, <3>3, <3>7, <4>1
    <3>6. ~(m < k)
      BY <2>1, <2>5, <3>1 DEF HistoryInv, TurnOrder
    <3> QED
      BY <2>1, <3>1, <3>4, <3>5, <3>6
  <2> QED
    BY <2>1, <2>3, <2>4, <2>5, InjSteps, TurnChanges
<1> QED
  BY <1>3, <1>5, <1>6

-----------------------------------------------------------------------------
(* The run, the reset and the theorems. *)

\* The instance counts as the library does.
LEMMA SameSize == \A S : H!Cardinality(S) = Cardinality(S)
BY DEF H!Cardinality, Cardinality

LEMMA BeginWhole ==
  ASSUME HistoryInv, MaxEntries \in Nat, RunBlocks \in Nat
  PROVE  /\ \A m \in H!Begin.todo : m > hist.through
         /\ \A m \in H!Begin.todo, k \in H!Chat :
              k < m /\ k > hist.through /\ k > hist.bound => k \in H!Begin.todo
         /\ \A k \in H!Chat : k <= hist.pend.cut /\ k > hist.bound =>
              k \in H!ToSet(hist.sum) \/ k \in H!Begin.todo \/ H!Begin.more
<1> DEFINE cut == hist.pend.cut
           all == H!Interval(hist, cut, hist.pend.why = "renewed")
           Upto(m) == {k \in all : k <= m}
           first == {m \in all : H!Cardinality(Upto(m)) <= RunBlocks}
<1>1. /\ hist \in Rows /\ worker \in Workers /\ hist.bound \in Nat /\ hist.through \in Nat
      /\ cut \in Nat
  BY DEF HistoryInv, HistoryTypes, Rows, Pends
<1>2. \A m \in H!Chat : m \in 1..MaxEntries /\ m \in Nat
  BY DEF H!Chat, H!Msgs
<1>3. /\ H!Begin.todo \in {all, first} /\ (H!Begin.more <=> H!Begin.todo # all)
  BY <1>1 DEF H!Begin, Workers
<1>4. /\ all \subseteq H!Chat /\ \A m \in all : m > hist.through /\ m <= cut
      /\ \A k \in H!Chat : k > hist.through /\ k > hist.bound /\ k <= cut => k \in all
  BY <1>1, <1>2 DEF H!Interval
<1> HIDE DEF all
<1>5. ASSUME NEW m \in first, NEW k \in all, k < m
      PROVE  k \in first
  <2>1. IsFiniteSet(1..MaxEntries)
    BY FS_Interval
  <2>2. Upto(m) \subseteq 1..MaxEntries
    BY <1>2, <1>4
  <2>3. IsFiniteSet(Upto(m))
    BY <2>1, <2>2, FS_Subset
  <2>4. Upto(k) \subseteq Upto(m)
    <3>1. k \in Nat /\ m \in Nat
      BY <1>2, <1>4
    <3>2. \A j \in all : j <= k => j <= m
      BY <1>2, <1>4, <1>5, <3>1
    <3> QED
      BY <3>2
  <2>5. H!Cardinality(Upto(m)) <= RunBlocks
    OBVIOUS
  <2> HIDE DEF Upto
  <2>6. /\ IsFiniteSet(Upto(k)) /\ H!Cardinality(Upto(k)) <= H!Cardinality(Upto(m))
    BY <2>3, <2>4, FS_Subset, SameSize
  <2>7. H!Cardinality(Upto(k)) \in Nat /\ H!Cardinality(Upto(m)) \in Nat
    BY <2>3, <2>6, FS_CardinalityType, SameSize
  <2>8. H!Cardinality(Upto(k)) <= RunBlocks
    BY <2>5, <2>6, <2>7
  <2> QED
    BY <2>8
<1>6. first \subseteq all
  OBVIOUS
<1> HIDE DEF first
<1>7. \A m \in H!Begin.todo : m \in all /\ m \in H!Chat
  BY <1>3, <1>4, <1>6
<1>8. ASSUME NEW m \in H!Begin.todo, NEW k \in H!Chat, k < m, k > hist.through, k > hist.bound
      PROVE  k \in H!Begin.todo
  <2>1. k \in all
    BY <1>1, <1>2, <1>4, <1>7, <1>8
  <2> QED
    BY <1>3, <1>5, <1>8, <2>1
<1>9. ASSUME NEW k \in H!Chat, k <= cut, k > hist.bound
      PROVE  k \in H!ToSet(hist.sum) \/ k \in H!Begin.todo \/ H!Begin.more
  <2>1. CASE k <= hist.through
    BY <1>9, <2>1 DEF HistoryInv, SumInv, H!Exact
  <2>2. CASE k > hist.through
    BY <1>3, <1>4, <1>9, <2>2
  <2> QED
    BY <1>1, <1>2, <2>1, <2>2
<1> QED
  BY <1>4, <1>7, <1>8, <1>9

LEMMA WorkKept ==
  ASSUME HistoryInv, H!Next, MaxEntries \in Nat, RunBlocks \in Nat
  PROVE  WorkInv'
<1>1. hist \in Rows /\ worker \in Workers /\ reset \in Resets
  BY DEF HistoryInv, HistoryTypes
<1>2. WorkInv /\ \A m \in H!Chat : m \in Nat
  BY DEF HistoryInv, H!Chat, H!Msgs
<1>3. reset'.at = "command" => Whole(reset'.row)
  <2>1. CASE reset' = [reset EXCEPT !.at = "reread"]
    BY <1>1, <2>1 DEF Resets
  <2>2. CASE worker.at = "idle2" /\ reset' = [at |-> "command", row |-> worker.row, old |-> sid]
    BY <1>2, <2>2 DEF WorkInv
  <2> QED
    BY <1>2, <2>1, <2>2, ResetSteps DEF WorkInv, H!NoReset
<1>4. CASE worker' = worker
  BY <1>2, <1>3, <1>4 DEF WorkInv, Whole
<1>5. CASE worker'.at \in {"off", "lock", "idle", "resetting"}
  BY <1>3, <1>5 DEF WorkInv, Whole
<1>6. CASE worker' = H!Begin /\ hist' = hist
  <2>1. worker'.at = "llm" /\ worker'.row = hist
    BY <1>6, BeginTyped
  <2> QED
    BY <1>3, <1>6, <2>1, BeginWhole DEF WorkInv, Whole
<1>7. CASE \E m \in worker.todo :
              /\ \A k \in worker.todo : m <= k
              /\ worker.row = hist /\ worker.at = "llm" /\ hist' = H!Published(hist, m)
              /\ worker' = [worker EXCEPT !.row = hist', !.todo = @ \ {m}]
  <2> PICK m \in worker.todo :
              /\ \A k \in worker.todo : m <= k
              /\ worker.row = hist /\ worker.at = "llm" /\ hist' = H!Published(hist, m)
              /\ worker' = [worker EXCEPT !.row = hist', !.todo = @ \ {m}]
    BY <1>7
  <2>1. worker.todo \subseteq H!Chat /\ hist.through \in Nat /\ hist.bound \in Nat /\ hist.sum \in Seq(H!Chat)
    BY <1>1 DEF Workers, Rows
  <2>2. /\ hist'.sum = Append(hist.sum, m) /\ hist'.through = m /\ hist'.bound = hist.bound
        /\ hist'.pend = hist.pend
    BY <1>1, <2>1, PublishedIs
  <2>8. H!ToSet(hist'.sum) = H!ToSet(hist.sum) \cup {m}
    BY <2>1, <2>2, AppendIs
  <2>3. /\ worker'.at = "llm" /\ worker'.row = hist' /\ worker'.todo = worker.todo \ {m}
        /\ worker'.more = worker.more
    BY <1>1 DEF Workers
  <2>4. /\ \A j \in worker.todo : j > hist.through
        /\ \A j \in worker.todo, k \in H!Chat :
             k < j /\ k > hist.through /\ k > hist.bound => k \in worker.todo
        /\ \A k \in H!Chat : k <= hist.pend.cut /\ k > hist.bound =>
             k \in H!ToSet(hist.sum) \/ k \in worker.todo \/ worker.more
    BY <1>2 DEF WorkInv
  <2>5. \A j \in worker'.todo : j > m
    BY <1>2, <2>1, <2>3
  <2>6. \A j \in worker'.todo, k \in H!Chat : k < j /\ k > m /\ k > hist.bound => k \in worker'.todo
    BY <1>2, <2>1, <2>3, <2>4
  <2>7. \A k \in H!Chat : k <= hist.pend.cut /\ k > hist.bound =>
             k \in H!ToSet(hist'.sum) \/ k \in worker'.todo \/ worker'.more
    BY <2>3, <2>4, <2>8
  <2>9. worker'.row.through = m /\ worker'.row.bound = hist.bound /\ worker'.row.sum = hist'.sum
        /\ worker'.row.pend.cut = hist.pend.cut /\ worker'.at # "idle2"
    BY <2>2, <2>3
  <2> QED
    BY <1>3, <2>5, <2>6, <2>7, <2>9 DEF WorkInv, Whole
<1>8. CASE /\ worker.row = hist /\ worker.at = "llm" /\ worker.todo = {} /\ ~worker.more
           /\ hist' = ToReset(hist) /\ worker' = [worker EXCEPT !.at = "idle2", !.row = hist']
  <2>1. /\ hist'.sum = hist.sum /\ hist'.bound = hist.bound /\ hist'.pend.cut = hist.pend.cut
    BY <1>1, <1>8, ToResetMoves DEF Moves
  <2>2. \A k \in H!Chat : k <= hist.pend.cut /\ k > hist.bound => k \in H!ToSet(hist.sum)
    BY <1>2, <1>8 DEF WorkInv
  <2>3. worker'.at = "idle2" /\ worker'.row = hist'
    BY <1>1, <1>8 DEF Workers
  <2> QED
    BY <1>3, <2>1, <2>2, <2>3 DEF WorkInv, Whole
<1> QED
  BY <1>4, <1>5, <1>6, <1>7, <1>8, WorkerSteps

LEMMA RenewalsKept ==
  ASSUME HistoryInv, H!Next
  PROVE  H!RenewedAfterFold'
<1>1. /\ renewals \in Seq(Entries) /\ hist.bound \in Nat /\ hist'.bound \in Nat
      /\ hist.bound <= hist'.bound
  BY RowGrows DEF HistoryInv, HistoryTypes, Grows, Rows
<1>2. \A m \in H!Chat : m \in Nat
  BY DEF H!Chat, H!Msgs
<1>3. H!RenewedAfterFold
  BY DEF HistoryInv
<1>4. CASE renewals' = renewals
  BY <1>1, <1>2, <1>3, <1>4 DEF H!RenewedAfterFold
<1>5. CASE /\ reset.at = "command" /\ hist' = hist
           /\ renewals' = Append(renewals, [id |-> reset.row.pend.id, cut |-> reset.row.pend.cut,
                                            from |-> sid, sum |-> hist.sum])
  <2> DEFINE e == [id |-> reset.row.pend.id, cut |-> reset.row.pend.cut,
                   from |-> sid, sum |-> hist.sum]
  <2>1. \A k \in H!Chat : k <= reset.row.pend.cut /\ k > reset.row.bound => k \in H!ToSet(reset.row.sum)
    BY <1>5 DEF HistoryInv, WorkInv, Whole
  <2>2. /\ reset.row.bound <= hist.bound /\ H!ToSet(reset.row.sum) \subseteq H!ToSet(hist.sum)
        /\ reset.row.bound \in Nat
    BY DEF HistoryInv, CopiesInv, Behind, Older, HistoryTypes, Resets, Rows
  <2>3. \A m \in H!Chat : m <= e.cut => m \in H!ToSet(e.sum) \/ m <= hist.bound
    BY <1>1, <1>2, <2>1, <2>2
  <2>4. /\ e \in Entries /\ renewals' = Append(renewals, e)
    <3>1. /\ hist \in Rows /\ reset \in Resets /\ sid \in Nat
      BY DEF HistoryInv, HistoryTypes
    <3>2. /\ reset.row.pend.id \in Nat /\ reset.row.pend.cut \in Nat /\ hist.sum \in Seq(H!Chat)
      BY <3>1 DEF Resets, Rows, Pends
    <3> QED
      BY <1>5, <3>1, <3>2 DEF Entries
  <2> HIDE DEF e
  <2>5. /\ DOMAIN renewals' = DOMAIN renewals \cup {Len(renewals) + 1}
        /\ \A i \in DOMAIN renewals : renewals'[i] = renewals[i]
        /\ renewals'[Len(renewals) + 1] = e
    BY <1>1, <2>4
  <2> SUFFICES ASSUME NEW i \in DOMAIN renewals', NEW m \in H!Chat, m <= renewals'[i].cut
               PROVE  m \in H!ToSet(renewals'[i].sum) \/ m <= hist'.bound
    BY DEF H!RenewedAfterFold
  <2>6. CASE i \in DOMAIN renewals
    BY <1>3, <1>5, <2>5, <2>6 DEF H!RenewedAfterFold
  <2>7. CASE i = Len(renewals) + 1
    BY <1>5, <2>3, <2>5, <2>7
  <2> QED
    BY <2>5, <2>6, <2>7
<1> QED
  BY <1>4, <1>5, RenewalSteps

LEMMA HistoryInit ==
  ASSUME H!Init, MaxEntries \in Nat
  PROVE  HistoryInv
<1>1. /\ hist = H!Fresh /\ sid = 1 /\ ctx = <<{}>> /\ left = <<{}>> /\ n = 0 /\ way = [m \in H!Msgs |-> H!NotYet]
      /\ cand = H!NoCand /\ hook = 0 /\ worker = H!Off /\ reset = H!NoReset /\ renewals = <<>>
  BY DEF H!Init
<1>2. \A m \in H!Msgs : m \in Nat /\ m >= 1 /\ way[m] = H!NotYet
  BY <1>1 DEF H!Msgs
<1>3. /\ H!Fresh.sum = <<>> /\ H!Fresh.bound = 0 /\ H!Fresh.through = 0 /\ H!Fresh.injFor = 0
  BY DEF H!Fresh
<1>4. HistoryTypes
  BY <1>1, StartsTyped DEF HistoryTypes
<1>5. CopiesInv
  BY <1>1, <1>2, <1>3 DEF CopiesInv, Behind, Older, H!Off, H!NoReset, H!NotYet
<1>6. SumInv
  BY <1>1, <1>3 DEF SumInv, H!Exact, H!Chat, H!Msgs
<1>7. HistoryLane
  BY <1>1, <1>2, <1>3 DEF HistoryLane, H!NotYet
<1>8. TurnOrder /\ CoverInv
  BY <1>2 DEF TurnOrder, CoverInv, H!NotYet, H!Chat
<1>9. WorkInv
  BY <1>1 DEF WorkInv, H!Off, H!NoReset
<1>10. ShownInv
  BY <1>1, <1>3 DEF ShownInv, Shown
<1>11. H!RenewedAfterFold
  BY <1>1 DEF H!RenewedAfterFold
<1> QED
  BY <1>4, <1>5, <1>6, <1>7, <1>8, <1>9, <1>10, <1>11 DEF HistoryInv

LEMMA HistoryStep ==
  ASSUME HistoryInv, H!Next, MaxEntries \in Nat, RunBlocks \in Nat
  PROVE  HistoryInv'
BY HistoryTypesKept, CopiesKept, SumKept, LaneKept, HistoryOrderKept, WorkKept, CoverKept,
   ShownKept, RenewalsKept DEF HistoryInv

LEMMA HistoryStutter ==
  ASSUME HistoryInv, UNCHANGED H!vars
  PROVE  HistoryInv'
<1>1. /\ UNCHANGED <<hist, sid, ctx, left, renewals, n, way, cand, hook, worker, reset>>
  BY DEF H!vars, H!hostVars, H!turnVars, H!workVars
<1> QED
  BY <1>1 DEF HistoryInv, HistoryTypes, CopiesInv, Behind, SumInv, H!Exact, HistoryLane,
     TurnOrder, WorkInv, CoverInv, ShownInv, Shown, H!RenewedAfterFold

LEMMA HistoryHolds ==
  ASSUME H!MaintenanceAssumption
  PROVE  H!Spec => []HistoryInv
<1>1. MaxEntries \in Nat /\ RunBlocks \in Nat
  BY DEF H!MaintenanceAssumption
<1>2. H!Init => HistoryInv
  BY <1>1, HistoryInit
<1>3. HistoryInv /\ [H!Next]_H!vars => HistoryInv'
  BY <1>1, HistoryStep, HistoryStutter
<1> QED
  BY <1>2, <1>3, PTL DEF H!Spec

\* A session the row takes for informed has been shown every message before the
\* present ones, but for those the budget left out of the last window it was shown:
\* no request of another session, no overtaken copy of the row and no reset that
\* comes late marks a session that has not been given the history.
THEOREM InformedIsShown ==
  ASSUME H!MaintenanceAssumption
  PROVE  H!Spec => []H!InformedSession
<1>1. HistoryInv => H!InformedSession
  BY DEF HistoryInv, ShownInv, Shown, H!InformedSession
<1> QED
  BY <1>1, HistoryHolds, PTL

\* The host's session is renewed only when all that the plan set out to fold is in
\* the summary then stored, or before a boundary of the user.
THEOREM FoldBeforeRenewal ==
  ASSUME H!MaintenanceAssumption
  PROVE  H!Spec => []H!RenewedAfterFold
<1>1. HistoryInv => H!RenewedAfterFold
  BY DEF HistoryInv
<1> QED
  BY <1>1, HistoryHolds, PTL

\* The published summary only grows, in ledger order and without gaps.
THEOREM SummaryGrows ==
  ASSUME H!MaintenanceAssumption
  PROVE  H!Spec => H!SummaryKept
<1>1. HistoryInv /\ [H!Next]_H!vars => [H!SummaryKeptStep]_hist
  <2> SUFFICES ASSUME HistoryInv, H!Next
               PROVE  H!SummaryKeptStep
    BY DEF H!vars
  <2> QED
    BY SumKept DEF H!SummaryKeptStep, SumInv
<1> QED
  BY <1>1, HistoryHolds, PTL DEF H!Spec, H!SummaryKept
================================================================================
