------------------------ MODULE AccessRequestsProofs ------------------------
(***************************************************************************)
(* Proofs about AccessRequests for any numbers of requests, guests,        *)
(* capabilities, turns, faults and stops: types, the cards that may still  *)
(* be answered, and that a decision is told once and recorded truly.  And  *)
(* about the authority of a turn, for any inputs in any order: what a      *)
(* guest's words run under is never more than the guest has.               *)
(***************************************************************************)
EXTENDS AccessRequests, Sequences, FiniteSetTheorems, TLAPS

\* The recovery of stale wakes and claims changes no type.
LEMMA RecoveredTypes ==
    ASSUME TypeOK
    PROVE  /\ Expired \in [Rows -> {"none", "failed", "expired"} \cup Open
                                   \cup Decided]
           /\ FreshWake \in [Rows -> {"none", "pending", "dispatching",
                                      "delivered", "failed"}]
           /\ FreshClaim \in [Rows -> Turns \cup {NoTurn, Lost}]
           /\ \A r \in Rows : /\ Expired[r] = "none" <=> status[r] = "none"
                              /\ Expired[r] \in Decided <=> status[r] \in Decided
                              /\ FreshWake[r] = "none" <=> wake[r] = "none"
BY DEF TypeOK, Expired, FreshWake, FreshClaim, Open, Decided, Stale

LEMMA InitTypes == Init => TypeOK
<1> SUFFICES ASSUME Init PROVE TypeOK
  OBVIOUS
<1>1. /\ requester \in [Rows -> People \cup {Nobody}]
      /\ capability \in [Rows -> Caps \cup {Nobody}]
      /\ claim \in [Rows -> Turns \cup {NoTurn, Lost}]
      /\ grant \in [People -> [Caps -> Modes \cup {"none"}]]
  BY DEF Init
<1>2. /\ spawned \in [Rows -> Nat] /\ told \in [Rows -> 0..2]
      /\ stops \in 0..MaxStops /\ faults \in 0..MaxFaults
  BY RequestAssumption DEF Init, RequestAssumption
<1>3. /\ turn \in [Turns -> {"idle", "host", "accepted"}]
      /\ carried \in [Turns -> SUBSET Rows]
      /\ receipts \subseteq SUBSET Rows /\ recovering \in BOOLEAN
  BY DEF Init
<1> QED BY <1>1, <1>2, <1>3 DEF Init, TypeOK, Open, Decided

LEMMA StepTypes == TypeOK /\ [Next]_vars => TypeOK'
<1> SUFFICES ASSUME TypeOK, [Next]_vars PROVE TypeOK'
  OBVIOUS
<1> USE RequestAssumption DEF RequestAssumption
<1>1. ASSUME NEW p \in People, NEW c \in Caps, Refuse(p, c) PROVE TypeOK'
  BY <1>1, RecoveredTypes DEF TypeOK, Refuse, rowVars, timeVars, callVars, taskVars, turnVars, procVars, toldVars
<1>2. ASSUME NEW p \in People, NEW c \in Caps, Reserve(p, c) PROVE TypeOK'
  BY <1>2, RecoveredTypes DEF TypeOK, Reserve, Unused, Fresh, Open, Decided, rowVars, timeVars, callVars, taskVars, turnVars, procVars, toldVars
<1>3. ASSUME NEW r \in Rows, Calling(r) PROVE TypeOK'
  <2>1. CASE SendCard(r)
    BY <2>1 DEF TypeOK, SendCard, rowVars, timeVars, taskVars, turnVars, procVars, toldVars
  <2>2. CASE CallCancelled(r)
    BY <2>2 DEF TypeOK, CallCancelled, Fault, rowVars, timeVars, taskVars, turnVars, procVars, toldVars
  <2>3. ASSUME NEW o \in {"pending", "failed"}, CallEnds(r, o), faults' \in 0..MaxFaults,
               call[r] # "idle"
        PROVE  TypeOK'
    BY <2>3 DEF TypeOK, CallEnds, Open, Decided, timeVars, taskVars, turnVars, procVars, toldVars
  <2>4. CASE MarkSent(r)
    BY <2>3, <2>4 DEF MarkSent, TypeOK
  <2>5. CASE MarkFailed(r)
    BY <2>3, <2>5 DEF MarkFailed, TypeOK, Fault
  <2> QED BY <1>3, <2>1, <2>2, <2>4, <2>5 DEF Calling
<1>4. ASSUME NEW r \in Rows, Waking(r) PROVE TypeOK'
  BY <1>4 DEF TypeOK, Waking, ClaimWake, ClaimRaises, WakeResolved, WakeIdle, WakeOffered, WakeAccepted, WakeRecorded, WakeRefused, WakeFails, WakeRaises, WakeEnds, Advance, Complete, SetWake, Tell, Fault, Open, Decided, Wakeable, rowVars, timeVars, callVars, taskVars, turnVars, procVars, toldVars
<1>5. ASSUME NEW r \in Rows, Passing(r) PROVE TypeOK'
  BY <1>5 DEF TypeOK, Passing, Cool, Age, Overdue, Lapse, Elapse, rowVars, timeVars, callVars, taskVars, turnVars, procVars, toldVars
<1>6. ASSUME NEW t \in Turns, Noticing(t) PROVE TypeOK'
  <2>1. ASSUME NEW p \in People, TakeNotice(t, p) PROVE TypeOK'
    BY <2>1, RecoveredTypes DEF TypeOK, TakeNotice, RecoverStale, SetWake, Unnotified, Outrun, Stale, Released, taskVars, procVars, callVars
  <2>2. CASE TurnAccepted(t)
    BY <2>2 DEF TypeOK, TurnAccepted, Tell, rowVars, timeVars, callVars, taskVars, procVars
  <2>3. ASSUME NEW b \in BOOLEAN, TurnEnds(t, b), faults' \in 0..MaxFaults,
               doubted' \subseteq Rows
        PROVE  TypeOK'
    BY <2>3 DEF TypeOK, TurnEnds, Claimed, callVars, taskVars, procVars
  <2>4. CASE TurnRecorded(t)
    BY <2>3, <2>4 DEF TurnRecorded, TypeOK
  <2>5. CASE TurnRefused(t)
    <3>1. faults' \in 0..MaxFaults /\ doubted' \subseteq Rows
      BY <2>5 DEF TurnRefused, TypeOK, Fault
    <3> QED BY <2>3, <2>5, <3>1 DEF TurnRefused
  <2>6. CASE TurnRaises(t)
    <3>1. faults' \in 0..MaxFaults
      BY <2>6 DEF TurnRaises, TypeOK, Fault
    <3>2. carried[t] \subseteq Rows
      BY DEF TypeOK
    <3>3. doubted' \subseteq Rows
      BY <2>6, <3>2 DEF TurnRaises, TypeOK
    <3> QED BY <2>3, <2>6, <3>1, <3>3 DEF TurnRaises
  <2> QED BY <1>6, <2>1, <2>2, <2>4, <2>5, <2>6 DEF Noticing
<1>7. CASE Running
  <2>1. ASSUME NEW ready \in BOOLEAN, Start(ready) PROVE TypeOK'
    BY <2>1 DEF TypeOK, Start, Fault, rowVars, timeVars, callVars, turnVars, toldVars
  <2>2. CASE Recover
    <3>1. spawned' \in [Rows -> Nat]
      BY <2>2 DEF TypeOK, Recover
    <3>2. doubted' \subseteq Rows /\ overdue' \subseteq Rows /\ lapsed' \subseteq Rows
      BY <2>2 DEF TypeOK, Recover, RecoverStale, SetWake, Outrun, Stale, Released
    <3>3. /\ status' = Expired /\ wake' = FreshWake /\ claim' = FreshClaim
          /\ recovering' = FALSE
      BY <2>2 DEF Recover, RecoverStale, SetWake
    <3>4. /\ status' \in [Rows -> {"none", "failed", "expired"} \cup Open \cup Decided]
          /\ wake' \in [Rows -> {"none", "pending", "dispatching", "delivered", "failed"}]
          /\ claim' \in [Rows -> Turns \cup {NoTurn, Lost}]
          /\ \A r \in Rows : /\ status'[r] = "none" <=> status[r] = "none"
                             /\ status'[r] \in Decided <=> status[r] \in Decided
                             /\ wake'[r] = "none" <=> wake[r] = "none"
      BY <3>3, RecoveredTypes
    <3> QED BY <2>2, <3>1, <3>2, <3>3, <3>4 DEF TypeOK, Recover, turnVars, procVars, callVars
  <2>3. CASE Disconnect
    <3>1. /\ spawned' \in [Rows -> Nat] /\ stops' \in 0..MaxStops
          /\ task' \in [Rows -> {"idle", "resolving", "waiting", "preparing", "host", "accepted"}]
      BY <2>3 DEF TypeOK, Disconnect
    <3>2. doubted' \subseteq Rows /\ overdue' \subseteq Rows
      BY <2>3 DEF TypeOK, Disconnect, SetWake
    <3>3. /\ wake' \in [Rows -> {"none", "pending", "dispatching", "delivered", "failed"}]
          /\ \A r \in Rows : wake'[r] = "none" <=> wake[r] = "none"
      BY <2>3 DEF TypeOK, Disconnect, SetWake
    <3>4. proc' = "off" /\ recovering' = FALSE
      BY <2>3 DEF Disconnect
    <3> QED BY <2>3, <3>1, <3>2, <3>3, <3>4 DEF TypeOK, Disconnect, callVars, turnVars
  <2>4. CASE Crash
    <3>1. /\ spawned' \in [Rows -> Nat] /\ stops' \in 0..MaxStops
          /\ call' \in [Rows -> {"idle", "sending", "handed"}]
          /\ task' \in [Rows -> {"idle", "resolving", "waiting", "preparing", "host", "accepted"}]
      BY <2>4 DEF TypeOK, Crash
    <3>2. /\ turn' \in [Turns -> {"idle", "host", "accepted"}]
          /\ carried' \in [Turns -> SUBSET Rows]
          /\ claim' \in [Rows -> Turns \cup {NoTurn, Lost}]
      BY <2>4 DEF TypeOK, Crash
    <3>3. UNION {carried[t] : t \in {u \in Turns : turn[u] = "accepted"}} \subseteq Rows
      BY DEF TypeOK
    <3>4. doubted' \subseteq Rows
      BY <2>4, <3>3 DEF TypeOK, Crash
    <3>5. \A r \in Rows : call'[r] = "idle"
      BY <2>4 DEF Crash
    <3>6. proc' = "dead" /\ recovering' = FALSE /\ receipts' = {}
      BY <2>4 DEF Crash
    <3> QED BY <2>4, <3>1, <3>2, <3>4, <3>5, <3>6 DEF TypeOK, Crash, timeVars
  <2> QED BY <1>7, <2>1, <2>2, <2>3, <2>4 DEF Running
<1>8. CASE Owning
  <2>1. ASSUME NEW S \in SUBSET Rows, NEW who \in SUBSET People, NEW what \in SUBSET Caps,
               NEW m \in Offered, Settle(S, who, what, m),
               \A r \in S : status'[r] = Verdict[m],
               \A r \in Rows \ S : status'[r] = Expired[r] \/ status'[r] = status[r],
               status' \in [Rows -> {"none", "failed", "expired"} \cup Open \cup Decided],
               \A r \in S : Live(r)
        PROVE  TypeOK'
    <3>1. Verdict[m] \in Decided
      BY DEF Offered, Verdict, Modes, Decided
    <3> QED BY <2>1, <3>1, RecoveredTypes DEF TypeOK, Settle, Live, Open, Decided, Offered, Modes, timeVars, callVars, turnVars, procVars, toldVars
  <2>2. ASSUME NEW r \in Rows, NEW m \in Offered, Decide(r, m) PROVE TypeOK'
    <3>1. Verdict[m] \in Decided
      BY DEF Offered, Verdict, Modes, Decided
    <3>2. /\ status' = [Expired EXCEPT ![r] = Verdict[m]] /\ Live(r)
          /\ Settle({r}, {requester[r]}, {capability[r]}, m)
      BY <2>2 DEF Decide
    <3>3. requester[r] \in People /\ capability[r] \in Caps
      BY <3>2 DEF TypeOK, Live, Open
    <3>4. status' \in [Rows -> {"none", "failed", "expired"} \cup Open \cup Decided]
      BY <3>1, <3>2, RecoveredTypes
    <3>5. status'[r] = Verdict[m] /\ \A q \in Rows \ {r} : status'[q] = Expired[q]
      BY <3>2, RecoveredTypes
    <3> QED BY <2>1, <3>2, <3>3, <3>4, <3>5
  <2>3. ASSUME NEW who \in SUBSET People, NEW what \in SUBSET Caps, NEW m \in Offered,
               Grant(who, what, m)
        PROVE  TypeOK'
    <3>1. Verdict[m] \in Decided
      BY DEF Offered, Verdict, Modes, Decided
    <3> QED BY <2>1, <2>3, <3>1 DEF Grant, Covered, TypeOK, Live
  <2>4. ASSUME NEW r \in Rows, DecideInVain(r) PROVE TypeOK'
    BY <2>4, RecoveredTypes DEF DecideInVain, TypeOK, timeVars, callVars, taskVars, turnVars, procVars, toldVars
  <2>5. ASSUME NEW p \in People, NEW c \in Caps, Forbid(p, c) \/ Revoke(p, c) PROVE TypeOK'
    <3> DEFINE Rules == [Caps -> Modes \cup {"none"}]
    <3>1. PICK v \in Modes \cup {"none"} : grant' = [grant EXCEPT ![p][c] = v]
      BY <2>5 DEF Forbid, Revoke, Modes
    <3>2. grant \in [People -> Rules]
      BY DEF TypeOK
    <3>3. [grant[p] EXCEPT ![c] = v] \in Rules
      BY <3>2
    <3>4. grant' = [grant EXCEPT ![p] = [grant[p] EXCEPT ![c] = v]]
      BY <3>1, <3>2
    <3> HIDE DEF Rules
    <3>5. grant' \in [People -> Rules]
      BY <3>2, <3>3, <3>4
    <3> QED BY <2>5, <3>5 DEF Rules, Forbid, Revoke, TypeOK, rowVars, timeVars, callVars, taskVars, turnVars, procVars, toldVars
  <2>6. ASSUME NEW S \in receipts, ReceiptEnds(S) PROVE TypeOK'
    BY <2>6 DEF ReceiptEnds, TypeOK, rowVars, timeVars, callVars, turnVars, procVars, toldVars
  <2> QED BY <1>8, <2>2, <2>3, <2>4, <2>5, <2>6 DEF Owning
<1>9. CASE UNCHANGED vars
  BY <1>9 DEF TypeOK, vars, rowVars, timeVars, callVars, taskVars, turnVars, procVars, toldVars
<1> QED BY <1>1, <1>2, <1>3, <1>4, <1>5, <1>6, <1>7, <1>8, <1>9 DEF Next, Asking

\* A state of the specification is well typed.
THEOREM TypesHold == Spec => []TypeOK
BY InitTypes, StepTypes, PTL DEF Spec

-----------------------------------------------------------------------------
(* The cards that may still be answered. *)

\* A step that changes no rule and no row's request, and makes no row live,
\* keeps the live cards open.
LEMMA NothingRevived ==
    ASSUME LiveCardsAreOpen, UNCHANGED <<requester, capability, grant>>,
           \A r \in Rows : Live(r)' => Live(r)
    PROVE  LiveCardsAreOpen'
BY DEF LiveCardsAreOpen

\* The owner's decision leaves no live card where it grants access.
LEMMA SettledCards ==
    ASSUME TypeOK, LiveCardsAreOpen,
           NEW S \in SUBSET Rows, NEW who, NEW what, NEW m, Settle(S, who, what, m),
           \A r \in Rows : Live(r)' => Live(r) /\ r \notin S,
           \A r \in Rows \ S : Live(r) => requester[r] \notin who \/ capability[r] \notin what
    PROVE  LiveCardsAreOpen'
<1> SUFFICES ASSUME NEW r \in Rows, Live(r)'
             PROVE  /\ grant'[requester[r]][capability[r]] \notin {"direct", "ask"}
                    /\ \A q \in Rows \ {r} : Live(q)' =>
                          <<requester[q], capability[q]>> # <<requester[r], capability[r]>>
  BY DEF LiveCardsAreOpen, Settle
<1>1. Live(r) /\ r \notin S /\ (requester[r] \notin who \/ capability[r] \notin what)
  OBVIOUS
<1>2. requester[r] \in People /\ capability[r] \in Caps
  BY <1>1 DEF Live, TypeOK, Open
<1>3. grant'[requester[r]][capability[r]] = grant[requester[r]][capability[r]]
  BY <1>1, <1>2 DEF Settle
<1> QED BY <1>1, <1>3 DEF LiveCardsAreOpen

LEMMA StepCards == TypeOK /\ LiveCardsAreOpen /\ [Next]_vars => LiveCardsAreOpen'
<1> SUFFICES ASSUME TypeOK, LiveCardsAreOpen, [Next]_vars PROVE LiveCardsAreOpen'
  OBVIOUS
<1>1. ASSUME NEW p \in People, NEW c \in Caps, Refuse(p, c) PROVE LiveCardsAreOpen'
  BY <1>1, NothingRevived DEF Refuse, Expired, Live, timeVars, TypeOK, Open
<1>2. ASSUME NEW p \in People, NEW c \in Caps, Reserve(p, c) PROVE LiveCardsAreOpen'
  <2> DEFINE f == Fresh
  <2>1. f \in Rows /\ status[f] = "none"
    BY <1>2 DEF Reserve, Unused, Fresh
  <2>2. /\ requester' = [requester EXCEPT ![f] = p]
        /\ capability' = [capability EXCEPT ![f] = c]
        /\ status' = [Expired EXCEPT ![f] = "sending"]
        /\ aged' = aged /\ grant' = grant
    BY <1>2 DEF Reserve, timeVars
  <2>3. grant[p][c] = "none" /\ \A q \in Rows : requester[q] = p /\ capability[q] = c => ~Live(q)
    BY <1>2 DEF Reserve, MayAsk, HasAccess, Waiting
  <2> HIDE DEF f
  <2>4. /\ requester'[f] = p /\ capability'[f] = c
        /\ \A q \in Rows \ {f} : requester'[q] = requester[q] /\ capability'[q] = capability[q]
    BY <2>1, <2>2 DEF TypeOK
  <2>5. ASSUME NEW q \in Rows \ {f}, Live(q)' PROVE Live(q)
    BY <2>1, <2>2, <2>5 DEF Live, Expired, Open
  <2>6. ASSUME NEW r \in Rows, Live(r)'
        PROVE  /\ grant'[requester'[r]][capability'[r]] \notin {"direct", "ask"}
               /\ \A q \in Rows \ {r} : Live(q)' =>
                     <<requester'[q], capability'[q]>> # <<requester'[r], capability'[r]>>
    <3>1. CASE r = f
      BY <3>1, <2>2, <2>3, <2>4, <2>5
    <3>2. CASE r # f
      BY <3>2, <2>2, <2>3, <2>4, <2>5, <2>6 DEF LiveCardsAreOpen
    <3> QED BY <3>1, <3>2
  <2> QED BY <2>6 DEF LiveCardsAreOpen
<1>3. ASSUME NEW r \in Rows, Calling(r) PROVE LiveCardsAreOpen'
  <2>1. UNCHANGED <<requester, capability, grant, aged>>
    BY <1>3 DEF Calling, SendCard, MarkSent, MarkFailed, CallEnds, CallCancelled, rowVars, timeVars
  <2>2. CASE UNCHANGED status
    BY <2>1, <2>2, NothingRevived DEF Live
  <2>3. ASSUME NEW o, CallEnds(r, o) PROVE LiveCardsAreOpen'
    BY <2>1, <2>3, NothingRevived DEF CallEnds, Live, Open, TypeOK
  <2> QED BY <1>3, <2>2, <2>3 DEF Calling, SendCard, MarkSent, MarkFailed, CallCancelled, rowVars
<1>4. ASSUME NEW r \in Rows, Waking(r) PROVE LiveCardsAreOpen'
  <2>1. UNCHANGED <<requester, capability, status, grant, aged>>
    BY <1>4 DEF Waking, ClaimWake, ClaimRaises, WakeResolved, WakeIdle, WakeOffered, WakeAccepted, WakeRecorded, WakeRefused, WakeFails, WakeRaises, WakeEnds, Advance, rowVars, timeVars
  <2> QED BY <2>1, NothingRevived DEF Live
<1>5. ASSUME NEW r \in Rows, Passing(r) PROVE LiveCardsAreOpen'
  <2>1. UNCHANGED <<requester, capability, status, grant>> /\ aged \subseteq aged'
    BY <1>5 DEF Passing, Cool, Age, Overdue, Lapse, Elapse, rowVars
  <2> QED BY <2>1, NothingRevived DEF Live
<1>6. ASSUME NEW t \in Turns, Noticing(t) PROVE LiveCardsAreOpen'
  <2>1. ASSUME NEW p \in People, TakeNotice(t, p) PROVE LiveCardsAreOpen'
    BY <2>1, NothingRevived DEF TakeNotice, RecoverStale, Expired, Live, Open
  <2>2. CASE TurnAccepted(t) \/ TurnRecorded(t) \/ TurnRefused(t) \/ TurnRaises(t)
    <3>1. UNCHANGED <<requester, capability, status, grant, aged>>
      BY <2>2 DEF TurnAccepted, TurnRecorded, TurnRefused, TurnRaises, TurnEnds, rowVars, timeVars
    <3> QED BY <3>1, NothingRevived DEF Live
  <2> QED BY <1>6, <2>1, <2>2 DEF Noticing
<1>7. CASE Running
  <2>1. CASE Recover
    BY <2>1, NothingRevived DEF Recover, RecoverStale, Expired, Live, Open
  <2>2. CASE Disconnect \/ Crash \/ \E ready \in BOOLEAN : Start(ready)
    <3>1. UNCHANGED <<requester, capability, status, grant, aged>>
      BY <2>2 DEF Disconnect, Crash, Start, rowVars, timeVars
    <3> QED BY <3>1, NothingRevived DEF Live
  <2> QED BY <1>7, <2>1, <2>2 DEF Running
<1>8. CASE Owning
  <2>1. ASSUME NEW m \in Offered PROVE Verdict[m] \notin Open
    BY DEF Offered, Verdict, Modes, Open
  <2>2. ASSUME NEW r \in Rows, NEW m \in Offered, Decide(r, m) PROVE LiveCardsAreOpen'
    <3>1. /\ Live(r) /\ Settle({r}, {requester[r]}, {capability[r]}, m)
          /\ status' = [Expired EXCEPT ![r] = Verdict[m]] /\ aged' = aged
      BY <2>2 DEF Decide, Settle, timeVars
    <3>2. \A q \in Rows : Live(q)' => Live(q) /\ q \notin {r}
      BY <2>1, <3>1 DEF Live, Expired, Open
    <3>3. \A q \in Rows \ {r} : Live(q) =>
             requester[q] \notin {requester[r]} \/ capability[q] \notin {capability[r]}
      BY <3>1 DEF LiveCardsAreOpen
    <3> QED BY <3>1, <3>2, <3>3, SettledCards
  <2>3. ASSUME NEW who \in SUBSET People, NEW what \in SUBSET Caps, NEW m \in Offered,
               Grant(who, what, m)
        PROVE  LiveCardsAreOpen'
    <3> DEFINE S == Covered(who, what)
    <3>1. /\ Settle(S, who, what, m) /\ aged' = aged
          /\ status' = [r \in Rows |-> IF r \in S THEN Verdict[m] ELSE status[r]]
      BY <2>3 DEF Grant, Settle, timeVars
    <3>2. S \in SUBSET Rows /\ \A r \in Rows \ S : Live(r) =>
             requester[r] \notin who \/ capability[r] \notin what
      BY DEF Covered
    <3> HIDE DEF S
    <3>3. \A q \in Rows : Live(q)' => Live(q) /\ q \notin S
      BY <2>1, <3>1 DEF Live
    <3> QED BY <3>1, <3>2, <3>3, SettledCards
  <2>4. ASSUME NEW r \in Rows, DecideInVain(r) PROVE LiveCardsAreOpen'
    BY <2>4, NothingRevived DEF DecideInVain, Expired, Live, Open, timeVars
  <2>5. ASSUME NEW p \in People, NEW c \in Caps, NEW v \in {"deny", "none"},
               grant' = [grant EXCEPT ![p][c] = v],
               UNCHANGED <<requester, capability, status, aged>>
        PROVE  LiveCardsAreOpen'
    <3>1. ASSUME NEW q \in People, NEW d \in Caps
          PROVE  grant'[q][d] = grant[q][d] \/ grant'[q][d] \in {"deny", "none"}
      BY <2>5 DEF TypeOK
    <3>2. \A r \in Rows : Live(r) => requester[r] \in People /\ capability[r] \in Caps
      BY DEF Live, TypeOK, Open
    <3> QED BY <2>5, <3>1, <3>2 DEF LiveCardsAreOpen, Live
  <2>6. ASSUME NEW p \in People, NEW c \in Caps, Forbid(p, c) \/ Revoke(p, c)
        PROVE  LiveCardsAreOpen'
    BY <2>5, <2>6 DEF Forbid, Revoke, rowVars, timeVars
  <2>7. ASSUME NEW S \in receipts, ReceiptEnds(S) PROVE LiveCardsAreOpen'
    BY <2>7, NothingRevived DEF ReceiptEnds, Live, rowVars, timeVars
  <2> QED BY <1>8, <2>2, <2>3, <2>4, <2>6, <2>7 DEF Owning
<1>9. CASE UNCHANGED vars
  BY <1>9, NothingRevived DEF Live, vars, rowVars, timeVars
<1> QED BY <1>1, <1>2, <1>3, <1>4, <1>5, <1>6, <1>7, <1>8, <1>9 DEF Next, Asking

\* However many requests are recorded, a card that may still be answered is
\* the only one of its guest and capability, whose guest has no access yet.
THEOREM CardsStayOpen == Spec => []LiveCardsAreOpen
<1>1. Init => LiveCardsAreOpen
  BY DEF Init, LiveCardsAreOpen, Live, Open
<1> QED BY <1>1, TypesHold, StepCards, PTL DEF Spec

-----------------------------------------------------------------------------
(* How often the host takes a decision. *)

\* What holds of a row however its records fared: only a decided row is woken,
\* carried or claimed, a claim is held by a turn that carries the notice, and
\* what was accepted or recorded was told.
Sound(r) ==
    /\ task[r] # "idle" => wake[r] \in {"dispatching", "failed"}
    /\ claim[r] # NoTurn => wake[r] = "failed" /\ r \notin notified
    /\ wake[r] \in {"none", "pending"} => told[r] = 0
    /\ task[r] = "accepted" => told[r] > 0
    /\ wake[r] = "delivered" \/ r \in notified => told[r] > 0
    /\ \A t \in Turns :
          /\ r \in carried[t] => wake[r] = "failed" /\ turn[t] # "idle"
          /\ claim[r] = t => r \in carried[t]
          /\ turn[t] = "accepted" /\ r \in carried[t] => told[r] > 0

\* Who may still tell a decision: the host's call of its wake or of the one
\* turn that carries it, and nobody once it was told.
Once(r) ==
    /\ told[r] <= 1
    /\ task[r] = "host" => told[r] = 0
    /\ task[r] \in {"host", "accepted"} => wake[r] = "dispatching" \/ r \in aged
    /\ wake[r] = "dispatching" /\ task[r] \notin {"host", "accepted"} => told[r] = 0
    /\ wake[r] = "failed" /\ r \notin aged \cup notified /\ claim[r] \in {NoTurn, Lost}
          => told[r] = 0 /\ \A t \in Turns : r \notin carried[t]
    /\ \A t \in Turns : r \in carried[t] =>
          /\ turn[t] = "host" => told[r] = 0
          /\ task[r] \notin {"host", "accepted"}
          /\ \A u \in Turns : r \in carried[u] => u = t

Records(r) == Sound(r) /\ (r \in doubted \/ Once(r))

\* A step that leaves a row's records, its task and the turns alone keeps what
\* is known of it.
LEMMA Untouched ==
    ASSUME NEW r \in Rows, Records(r),
           wake'[r] = wake[r], claim'[r] = claim[r], task'[r] = task[r], told'[r] = told[r],
           r \in notified' <=> r \in notified,
           aged \subseteq aged', doubted \subseteq doubted', turn' = turn, carried' = carried
    PROVE  Records(r)'
BY DEF Records, Sound, Once

LEMMA InitRecords == Init => \A r \in Rows : Records(r)
BY RequestAssumption DEF Init, Records, Sound, Once, RequestAssumption

LEMMA WakeRecords ==
    ASSUME TypeOK, \A q \in Rows : Records(q), NEW r \in Rows, Waking(r)
    PROVE  \A q \in Rows : Records(q)'
<1> USE RequestAssumption DEF RequestAssumption
<1>0. Records(r)
  OBVIOUS
<1>1. ASSUME UNCHANGED <<claim, notified, aged, turn, carried>>, doubted \subseteq doubted',
             \A q \in Rows \ {r} : /\ wake'[q] = wake[q] /\ task'[q] = task[q]
                                    /\ told'[q] = told[q],
             Records(r)'
      PROVE  \A q \in Rows : Records(q)'
  BY <1>1, Untouched
<1>2. CASE ClaimWake(r)
  <2>1. /\ UNCHANGED <<claim, notified, aged, turn, carried, doubted, told>>
        /\ \A q \in Rows \ {r} : wake'[q] = wake[q] /\ task'[q] = task[q]
    BY <1>2 DEF ClaimWake, TypeOK, timeVars, turnVars, toldVars
  <2>2. CASE wake'[r] = wake[r] /\ task'[r] = task[r]
    BY <2>1, <2>2, <1>0, Untouched
  <2>3. CASE wake[r] = "pending" /\ wake'[r] = "dispatching" /\ task'[r] = "resolving"
    <3>1. Records(r)'
      BY <2>1, <2>3, <1>0 DEF Records, Sound, Once
    <3> QED BY <2>1, <3>1, <1>1
  <2> QED BY <1>2, <2>2, <2>3 DEF ClaimWake, Wakeable, TypeOK
<1>3. CASE ClaimRaises(r)
  BY <1>3, Untouched DEF ClaimRaises, rowVars, timeVars, turnVars, toldVars
<1>4. ASSUME NEW from \in {"resolving", "waiting", "preparing"},
             NEW to \in {"waiting", "preparing", "host"},
             Advance(r, from, to), to = "host" => Checked(r)
      PROVE  \A q \in Rows : Records(q)'
  <2>1. /\ UNCHANGED <<wake, claim, notified, aged, turn, carried, doubted, told>>
        /\ task[r] = from /\ task'[r] = to /\ \A q \in Rows \ {r} : task'[q] = task[q]
    BY <1>4 DEF Advance, TypeOK, rowVars, timeVars, turnVars, toldVars
  <2>2. Records(r)'
    BY <2>1, <1>4, <1>0 DEF Records, Sound, Once, Checked
  <2> QED BY <2>1, <2>2, <1>1
<1>5. CASE WakeResolved(r) \/ WakeIdle(r) \/ WakeOffered(r)
  BY <1>4, <1>5 DEF WakeResolved, WakeIdle, WakeOffered
<1>6. CASE WakeAccepted(r)
  <2>1. /\ UNCHANGED <<wake, claim, notified, aged, turn, carried, doubted>>
        /\ task[r] = "host" /\ task'[r] = "accepted"
        /\ told'[r] = IF told[r] < 2 THEN told[r] + 1 ELSE told[r]
        /\ \A q \in Rows \ {r} : task'[q] = task[q] /\ told'[q] = told[q]
    BY <1>6 DEF WakeAccepted, Tell, TypeOK, rowVars, timeVars, turnVars
  <2>2. told[r] \in 0..2
    BY DEF TypeOK
  <2>3. Records(r)'
    BY <2>1, <2>2, <1>0 DEF Records, Sound, Once
  <2> QED BY <2>1, <2>3, <1>1
<1>7. ASSUME NEW outcome \in {"delivered", "failed"}, WakeEnds(r, outcome),
             doubted \subseteq doubted', task[r] # "idle",
             task[r] = "accepted" => outcome = "delivered" \/ r \in doubted',
             outcome = "delivered" => task[r] = "accepted"
      PROVE  \A q \in Rows : Records(q)'
  <2>1. /\ UNCHANGED <<claim, notified, aged, turn, carried, told>> /\ task'[r] = "idle"
        /\ wake'[r] = IF wake[r] = "dispatching" THEN outcome ELSE wake[r]
        /\ \A q \in Rows \ {r} : task'[q] = task[q] /\ wake'[q] = wake[q]
    BY <1>7 DEF WakeEnds, Complete, SetWake, TypeOK, turnVars
  <2>2. Records(r)'
    BY <2>1, <1>7, <1>0 DEF Records, Sound, Once
  <2> QED BY <2>1, <2>2, <1>1, <1>7
<1>8. CASE WakeRecorded(r)
  BY <1>7, <1>8 DEF WakeRecorded
<1>9. CASE WakeRefused(r) \/ WakeFails(r)
  BY <1>7, <1>9 DEF WakeRefused, WakeFails
<1>10. CASE WakeRaises(r)
  BY <1>7, <1>10 DEF WakeRaises
<1> QED BY <1>2, <1>3, <1>5, <1>6, <1>8, <1>9, <1>10 DEF Waking

\* The recovery of stale wakes and claims, by itself or before the notices S
\* of a turn are claimed, keeps what is known of the rows it does not doubt.
LEMMA RecoveryRecords ==
    ASSUME TypeOK, NEW r \in Rows, Records(r),
           doubted' = doubted \cup Outrun, wake' = FreshWake, claim'[r] = FreshClaim[r],
           UNCHANGED <<notified, aged, task, told>>,
           \A t \in Turns : /\ r \in carried'[t] <=> r \in carried[t]
                            /\ r \in carried[t] => turn'[t] = turn[t]
    PROVE  Records(r)'
<1> USE RequestAssumption DEF RequestAssumption
<1>1. wake'[r] = IF r \in Stale THEN "failed" ELSE wake[r]
  BY DEF FreshWake
<1>2. claim'[r] = IF r \in Released THEN NoTurn ELSE claim[r]
  BY DEF FreshClaim
<1>3. wake'[r] = wake[r] \/ (wake[r] = "dispatching" /\ wake'[r] = "failed")
  BY <1>1 DEF Stale
<1>4. Sound(r)'
  BY <1>2, <1>3 DEF Records, Sound
<1>5. ASSUME r \notin doubted' PROVE Once(r)'
  <2>1. /\ Once(r) /\ Sound(r) /\ r \notin Outrun
    BY <1>5 DEF Records
  <2>2. CASE r \in aged
    BY <2>1, <2>2, <1>3 DEF Sound, Once
  <2>3. CASE r \notin aged
    <3>1. r \in Stale => task[r] \notin {"host", "accepted"}
      BY <2>1, <2>3 DEF Outrun
    <3>2. r \in Released => claim[r] \notin Turns
      BY <2>1, <2>3 DEF Outrun
    <3>3. claim'[r] \in {NoTurn, Lost} => claim[r] \in {NoTurn, Lost}
      BY <3>2, <1>2 DEF TypeOK
    <3>4. CASE r \in Stale
      BY <3>1, <3>3, <3>4, <2>1, <1>1 DEF Sound, Once, Stale
    <3>5. CASE r \notin Stale
      BY <3>3, <3>5, <2>1, <1>1 DEF Sound, Once
    <3> QED BY <3>4, <3>5
  <2> QED BY <2>2, <2>3
<1> QED BY <1>4, <1>5 DEF Records

LEMMA NoticeRecords ==
    ASSUME TypeOK, \A q \in Rows : Records(q), NEW t \in Turns, NEW p \in People,
           TakeNotice(t, p), NEW r \in Rows
    PROVE  Records(r)'
<1> USE RequestAssumption DEF RequestAssumption
<1> DEFINE S == Unnotified(p)
<1>1. /\ turn[t] = "idle" /\ doubted' = doubted \cup Outrun /\ wake' = FreshWake
      /\ UNCHANGED <<notified, aged, task, told>>
      /\ claim' = [q \in Rows |-> IF q \in S THEN t ELSE FreshClaim[q]]
      /\ carried' = [carried EXCEPT ![t] = S]
      /\ turn' = [turn EXCEPT ![t] = IF S = {} THEN "idle" ELSE "host"]
  BY DEF TakeNotice, RecoverStale, SetWake, taskVars
<1>2. /\ carried'[t] = S /\ turn'[t] = IF S = {} THEN "idle" ELSE "host"
      /\ \A u \in Turns \ {t} : carried'[u] = carried[u] /\ turn'[u] = turn[u]
  BY <1>1 DEF TypeOK
<1>3. r \notin carried[t]
  BY <1>1 DEF Records, Sound
<1>4. CASE r \notin S
  BY <1>1, <1>2, <1>3, <1>4, RecoveryRecords
<1>5. CASE r \in S
  <2>1. /\ FreshWake[r] = "failed" /\ FreshClaim[r] = NoTurn
        /\ r \notin aged /\ r \notin notified /\ r \in Rows
    BY <1>5 DEF Unnotified
  <2>2. claim'[r] = t /\ wake'[r] = "failed" /\ r \in carried'[t] /\ turn'[t] = "host"
    BY <1>1, <1>2, <1>5, <2>1
  <2>3. /\ r \in Stale \/ (r \notin Stale /\ wake[r] = "failed")
        /\ r \in Stale => wake[r] = "dispatching"
        /\ r \in Released \/ claim[r] = NoTurn
    BY <2>1 DEF FreshWake, FreshClaim, Stale
  <2>4. Sound(r)'
    BY <2>1, <2>2, <2>3, <1>1, <1>2 DEF Records, Sound
  <2>5. ASSUME r \notin doubted' PROVE Once(r)'
    <3>1. Once(r) /\ Sound(r) /\ r \notin Outrun
      BY <1>1, <2>5 DEF Records
    <3>2. /\ r \in Stale => task[r] \notin {"host", "accepted"}
          /\ r \in Released => claim[r] \notin Turns
      BY <3>1, <2>1 DEF Outrun
    <3>3. claim[r] \in {NoTurn, Lost}
      BY <2>3, <3>2 DEF TypeOK
    <3>4. /\ told[r] = 0 /\ task[r] \notin {"host", "accepted"}
          /\ \A u \in Turns : r \notin carried[u]
      BY <3>1, <3>2, <3>3, <2>1, <2>3 DEF Sound, Once
    <3> QED BY <3>4, <2>2, <1>1, <1>2 DEF Once
  <2> QED BY <2>4, <2>5 DEF Records
<1> QED BY <1>4, <1>5

LEMMA TurnRecords ==
    ASSUME TypeOK, \A q \in Rows : Records(q), NEW t \in Turns, NEW r \in Rows,
           TurnAccepted(t) \/ TurnRecorded(t) \/ TurnRefused(t) \/ TurnRaises(t)
    PROVE  Records(r)'
<1> USE RequestAssumption DEF RequestAssumption
<1>0. Records(r)
  OBVIOUS
<1>1. CASE TurnAccepted(t)
  <2>1. /\ UNCHANGED <<wake, claim, notified, aged, task, carried, doubted>>
        /\ turn[t] = "host" /\ turn'[t] = "accepted"
        /\ \A u \in Turns \ {t} : turn'[u] = turn[u]
        /\ told'[r] = IF r \in carried[t] /\ told[r] < 2 THEN told[r] + 1 ELSE told[r]
    BY <1>1 DEF TurnAccepted, Tell, TypeOK, rowVars, timeVars, taskVars
  <2>2. told[r] \in 0..2
    BY DEF TypeOK
  <2>3. CASE r \in carried[t]
    BY <2>1, <2>2, <2>3, <1>0 DEF Records, Sound, Once
  <2>4. CASE r \notin carried[t]
    BY <2>1, <2>4, <1>0 DEF Records, Sound, Once
  <2> QED BY <2>3, <2>4
<1>2. ASSUME NEW consumed \in BOOLEAN, TurnEnds(t, consumed), turn[t] # "idle",
             consumed => turn[t] = "accepted", doubted \subseteq doubted',
             turn[t] = "accepted" /\ ~consumed => carried[t] \subseteq doubted'
      PROVE  Records(r)'
  <2>1. /\ UNCHANGED <<wake, aged, task, told>> /\ turn'[t] = "idle" /\ carried'[t] = {}
        /\ \A u \in Turns \ {t} : turn'[u] = turn[u] /\ carried'[u] = carried[u]
        /\ claim'[r] = IF r \in Claimed(t) THEN NoTurn ELSE claim[r]
        /\ notified' = notified \cup IF consumed THEN Claimed(t) \ aged ELSE {}
    BY <1>2 DEF TurnEnds, TypeOK, taskVars
  <2>2. r \in Claimed(t) <=> claim[r] = t /\ r \notin notified
    BY DEF Claimed
  <2>3. r \in Claimed(t) <=> claim[r] = t
    BY <2>2, <1>0 DEF Records, Sound
  <2>4. turn[t] \in {"host", "accepted"}
    BY <1>2 DEF TypeOK
  <2>5. CASE r \in Claimed(t)
    <3>1. claim[r] = t /\ claim'[r] = NoTurn /\ r \in carried[t] /\ wake[r] = "failed"
      BY <2>1, <2>3, <2>5, <1>0 DEF Records, Sound
    <3>2. r \in notified' <=> r \in notified \/ (consumed /\ r \notin aged)
      BY <2>1, <2>5
    <3>3. Sound(r)'
      BY <3>1, <3>2, <2>1, <1>0, <1>2 DEF Records, Sound
    <3>4. ASSUME r \notin doubted' PROVE Once(r)'
      <4>1. Once(r)
        BY <3>4, <1>0, <1>2 DEF Records
      <4>2. ~consumed => turn[t] = "host"
        BY <3>1, <3>4, <2>4, <1>2
      <4> QED BY <3>1, <3>2, <4>1, <4>2, <2>1 DEF Once
    <3> QED BY <3>3, <3>4 DEF Records
  <2>6. CASE r \notin Claimed(t)
    <3>1. claim'[r] = claim[r] /\ claim[r] # t /\ (r \in notified' <=> r \in notified)
      BY <2>1, <2>3, <2>6
    <3> QED BY <3>1, <2>1, <1>0, <1>2 DEF Records, Sound, Once
  <2> QED BY <2>5, <2>6
<1>3. CASE TurnRecorded(t)
  BY <1>2, <1>3 DEF TurnRecorded
<1>4. CASE TurnRefused(t)
  BY <1>2, <1>4 DEF TurnRefused
<1>5. CASE TurnRaises(t)
  BY <1>2, <1>5 DEF TurnRaises
<1> QED BY <1>1, <1>3, <1>4, <1>5

LEMMA RunningRecords ==
    ASSUME TypeOK, \A q \in Rows : Records(q), NEW r \in Rows, Running
    PROVE  Records(r)'
<1> USE RequestAssumption DEF RequestAssumption
<1>0. Records(r) /\ told[r] \in 0..2 /\ claim[r] \in Turns \cup {NoTurn, Lost}
  BY DEF TypeOK
<1>1. ASSUME NEW ready \in BOOLEAN, Start(ready) PROVE Records(r)'
  BY <1>1, Untouched DEF Start, rowVars, timeVars, turnVars, toldVars
<1>2. CASE Recover
  <2>1. /\ doubted' = doubted \cup Outrun /\ wake' = FreshWake /\ claim' = FreshClaim
        /\ UNCHANGED <<notified, aged, task, told, turn, carried>>
    BY <1>2 DEF Recover, RecoverStale, SetWake, turnVars
  <2> QED BY <2>1, RecoveryRecords
<1>3. CASE Disconnect
  <2>1. /\ UNCHANGED <<claim, notified, aged, turn, carried, told>> /\ task'[r] = "idle"
        /\ wake'[r] = IF task[r] # "idle" /\ wake[r] = "dispatching" THEN "failed" ELSE wake[r]
        /\ doubted' = doubted \cup {q \in Rows : task[q] = "accepted"}
    BY <1>3 DEF Disconnect, SetWake, turnVars
  <2>2. r \in doubted' <=> r \in doubted \/ task[r] = "accepted"
    BY <2>1
  <2> QED BY <2>1, <2>2, <1>0 DEF Records, Sound, Once
<1>4. CASE Crash
  <2> DEFINE Held == UNION {carried[t] : t \in {u \in Turns : turn[u] = "accepted"}}
  <2>1. /\ UNCHANGED <<wake, notified, aged, told>> /\ task'[r] = "idle"
        /\ \A t \in Turns : turn'[t] = "idle" /\ carried'[t] = {}
        /\ claim'[r] = IF claim[r] \in Turns THEN Lost ELSE claim[r]
        /\ doubted' = doubted \cup {q \in Rows : task[q] = "accepted"} \cup Held
    BY <1>4 DEF Crash, timeVars
  <2>2. r \in Held <=> \E t \in Turns : turn[t] = "accepted" /\ r \in carried[t]
    OBVIOUS
  <2> HIDE DEF Held
  <2>3. /\ doubted \subseteq doubted'
        /\ task[r] = "accepted" => r \in doubted'
        /\ \A t \in Turns : turn[t] = "accepted" /\ r \in carried[t] => r \in doubted'
    BY <2>1, <2>2
  <2>4. Sound(r)'
    BY <2>1, <1>0 DEF Records, Sound
  <2>5. ASSUME r \notin doubted' PROVE Once(r)'
    <3>1. Once(r) /\ Sound(r) /\ task[r] # "accepted"
      BY <2>3, <2>5, <1>0 DEF Records
    <3>2. \A t \in Turns : r \in carried[t] => turn[t] = "host" /\ told[r] = 0
      BY <2>3, <2>5, <3>1 DEF TypeOK, Sound, Once
    <3>3. claim[r] \in Turns => told[r] = 0
      BY <3>1, <3>2 DEF Sound
    <3> QED BY <3>1, <3>3, <2>1, <1>0 DEF Once
  <2> QED BY <2>4, <2>5 DEF Records
<1> QED BY <1>1, <1>2, <1>3, <1>4 DEF Running

LEMMA OwningRecords ==
    ASSUME TypeOK, \A q \in Rows : Records(q), NEW r \in Rows, Owning
    PROVE  Records(r)'
<1> USE RequestAssumption DEF RequestAssumption
<1>0. Records(r)
  OBVIOUS
<1>1. ASSUME NEW S, NEW who, NEW what, NEW m, Settle(S, who, what, m),
             \A q \in S : Live(q)
      PROVE  Records(r)'
  <2>1. /\ UNCHANGED <<claim, notified, aged, task, turn, carried, told, doubted>>
        /\ wake'[r] = IF r \in S THEN "pending" ELSE wake[r]
    BY <1>1 DEF Settle, timeVars, turnVars, toldVars
  <2>2. r \in S => wake[r] = "none"
    BY <1>1 DEF Live, TypeOK, Open, Decided
  <2> QED BY <2>1, <2>2, <1>0 DEF Records, Sound, Once
<1>2. ASSUME NEW q \in Rows, NEW m \in Offered, Decide(q, m) PROVE Records(r)'
  BY <1>1, <1>2 DEF Decide
<1>3. ASSUME NEW who, NEW what, NEW m, Grant(who, what, m) PROVE Records(r)'
  BY <1>1, <1>3 DEF Grant, Covered
<1>4. ASSUME NEW q \in Rows, DecideInVain(q) PROVE Records(r)'
  BY <1>4, Untouched DEF DecideInVain, timeVars, taskVars, turnVars, toldVars
<1>5. ASSUME NEW p \in People, NEW c \in Caps, Forbid(p, c) \/ Revoke(p, c) PROVE Records(r)'
  BY <1>5, Untouched DEF Forbid, Revoke, rowVars, timeVars, taskVars, turnVars, toldVars
<1>6. ASSUME NEW S \in receipts, ReceiptEnds(S) PROVE Records(r)'
  BY <1>6, Untouched DEF ReceiptEnds, rowVars, timeVars, turnVars, toldVars
<1> QED BY <1>2, <1>3, <1>4, <1>5, <1>6 DEF Owning

LEMMA StepRecords ==
    TypeOK /\ (\A r \in Rows : Records(r)) /\ [Next]_vars => \A r \in Rows : Records(r)'
<1> SUFFICES ASSUME TypeOK, \A q \in Rows : Records(q), [Next]_vars, NEW r \in Rows
             PROVE  Records(r)'
  OBVIOUS
<1>1. CASE Asking
  BY <1>1, Untouched DEF Asking, Refuse, Reserve, timeVars, taskVars, turnVars, toldVars
<1>2. ASSUME NEW q \in Rows, Calling(q) PROVE Records(r)'
  BY <1>2, Untouched DEF Calling, SendCard, MarkSent, MarkFailed, CallCancelled, CallEnds, rowVars, timeVars, taskVars, turnVars, toldVars
<1>3. ASSUME NEW q \in Rows, Passing(q) PROVE Records(r)'
  BY <1>3, Untouched DEF Passing, Cool, Age, Overdue, Lapse, Elapse, rowVars, taskVars, turnVars, toldVars
<1>4. ASSUME NEW q \in Rows, Waking(q) PROVE Records(r)'
  BY <1>4, WakeRecords
<1>5. ASSUME NEW t \in Turns, Noticing(t) PROVE Records(r)'
  BY <1>5, NoticeRecords, TurnRecords DEF Noticing
<1>6. CASE UNCHANGED vars
  BY <1>6, Untouched DEF vars, rowVars, timeVars, taskVars, turnVars, toldVars
<1> QED BY <1>1, <1>2, <1>3, <1>4, <1>5, <1>6, RunningRecords, OwningRecords DEF Next

\* The records of every row, as the theorems need them.
RecordsKept == \A r \in Rows : Records(r)

LEMMA RecordsHold == Spec => []RecordsKept
<1>1. Init => RecordsKept
  BY InitRecords DEF RecordsKept
<1>2. TypeOK /\ RecordsKept /\ [Next]_vars => RecordsKept'
  BY StepRecords DEF RecordsKept
<1> QED BY <1>1, <1>2, TypesHold, PTL DEF Spec

\* However many requests, turns and restarts there are, the host takes a
\* decision once where no record of a delivery was lost or outrun.
THEOREM DecisionsToldOnce == Spec => []ToldOnce
<1>1. RecordsKept => ToldOnce
  BY DEF RecordsKept, Records, Once, ToldOnce
<1> QED BY <1>1, RecordsHold, PTL

\* A wake recorded as delivered and a request recorded as notified were told.
THEOREM DeliveriesRecorded == Spec => []RecordsAreTrue
<1>1. RecordsKept => RecordsAreTrue
  BY DEF RecordsKept, Records, Sound, RecordsAreTrue
<1> QED BY <1>1, RecordsHold, PTL

\* All three together, for any number of requests, people and turns.
THEOREM CardsStayRight == Spec => []CardsRight
<1>1. LiveCardsAreOpen /\ ToldOnce /\ RecordsAreTrue => CardsRight
  BY DEF CardsRight
<1> QED BY <1>1, CardsStayOpen, DecisionsToldOnce, DeliveriesRecorded, PTL

-----------------------------------------------------------------------------
(* Who may do what in a turn of the owner's direct chat, with constants    *)
(* and variables of its own: going is the held message that is being       *)
(* dispatched and calling the orchestration call between its checks.       *)

CONSTANTS
    Owners,     \* messages of the owner
    Guests,     \* inputs of somebody else
    Rich,       \* those whose sender has been granted the tool
    Notices,    \* the plugin's own notifications
    Greetings,  \* notifications that carry the owner's action
    Receipts,   \* results of an approved orchestration, to be tried again
    Wakes,      \* events the host starts by itself
    MaxInputs,  \* how many of them come
    NoInput

VARIABLES
    reg,      \* turn_grants: see NoTurns
    phase,    \* each input's way through the adapter
    restr,    \* arrival_restriction of each input being prepared
    held,     \* _owner_input_pending
    going,    \* the held input being dispatched
    run, pend,\* the host: the running turn and what it has queued
    steer,    \* the host's busy-input mode
    calling,  \* an orchestration call between its check and its handler
    alone,    \* history: inputs of the owner that arrived at rest, see Alone
    strayed   \* history: a turn was bound to an input that is not in it

T == INSTANCE TurnAuthority WITH call <- calling, task <- going

Phases == {"none", "deferred", "held", "routed", "prep", "checked", "ready", "host", "done"}

Limits == [is : BOOLEAN, grants : SUBSET T!All, non : SUBSET Guests]

\* The registry is a record whose tables have the types of the code's.
IsReg(r) ==
  /\ r = [live |-> r.live, snap |-> r.snap, order |-> r.order, mark |-> r.mark,
          consumed |-> r.consumed, bound |-> r.bound, exec |-> r.exec]
  /\ r.live \subseteq T!Inputs /\ r.snap \in [T!Inputs -> T!Snapshot]
  /\ r.mark \in [T!Inputs -> {"no", "open", "named"}] /\ r.bound \in [T!Inputs -> Nat]

\* What a guest's words leave of a snapshot they may be run under.
Restricted(s, g) == ~T!MayOrchestrate(s) /\ ~s.verified /\ s.grants \subseteq T!Has(g)

\* An input's snapshot is of its kind, and is narrowed by every guest's input that
\* is announced and not yet bound: from its announcement nothing is verified, and
\* from its registration it has no more than the guest.
SnapsOf(r) ==
  /\ \A t \in r.live : r.snap[t].notice <=> t \in T!Trusted
  /\ \A g \in Guests \cap r.live : g \in r.snap[g].non /\ Restricted(r.snap[g], g)
  /\ \A g \in Guests, t \in r.live :
       /\ r.mark[g] = "named" => Restricted(r.snap[t], g)
       /\ r.mark[g] # "no" => ~r.snap[t].verified
  /\ \A g \in Guests : r.mark[g] = "named" => g \in r.live

RecordsInv ==
  /\ phase \in [T!Inputs -> Phases]
  /\ run = [at |-> run.at, ctx |-> run.ctx,
            turn |-> run.turn, inputs |-> run.inputs]
  /\ run.at \in {"idle", "busy"} /\ run.turn \in Nat
  /\ restr \in [T!Inputs -> Limits] /\ strayed \in BOOLEAN

\* What the host runs or has queued was handed to it, and runs once.
HostInv ==
  /\ run.at = "idle" => run.inputs = {} /\ pend = {}
  /\ run.at = "busy" =>
       /\ run.ctx \in T!Inputs /\ phase[run.ctx] = "host"
       /\ run.ctx \notin pend /\ run.turn >= 1
  /\ run.inputs \cup pend \subseteq {i \in T!Inputs : phase[i] = "host"}
  /\ run.inputs \cap pend = {}

\* Only the owner's messages are held, each once; an event of the host is not
\* prepared.
HoldInv ==
  /\ held \in Seq(Owners) /\ going \in Owners \cup {NoInput}
  /\ \A k \in 1..Len(held) : phase[held[k]] = "held"
  /\ \A k, l \in 1..Len(held) : held[k] = held[l] => k = l
  /\ \A i \in T!Inputs : phase[i] \in {"held", "routed"} => i \in Owners
  /\ \A i \in Wakes : phase[i] \in {"none", "ready", "host", "done"}

\* What is on its way to the host or there is still registered.
InHost(i) == phase[i] = "ready" \/ i \in run.inputs \/ i \in pend
PresentOf(r) ==
  /\ \A i \in T!Inputs \ Wakes : phase[i] = "ready" => i \in r.live
  /\ \A g \in Guests : InHost(g) => g \in r.live

\* A guest's input is announced until its own turn is bound.
MarksOf(r) ==
  \A g \in Guests :
    /\ phase[g] \in {"prep", "checked"} => r.mark[g] = "open"
    /\ InHost(g) => r.mark[g] = "named" \/ r.bound[g] # 0

\* A turn is bound to one input, and, unless one strayed, to one that it runs.
BoundsOf(r) ==
  /\ \A i, j \in T!Inputs : r.bound[i] # 0 /\ r.bound[i] = r.bound[j] => i = j
  /\ \A i \in T!Inputs : r.bound[i] <= run.turn
  /\ ~strayed => \A i \in T!Inputs : r.bound[i] # 0 =>
       /\ phase[i] = "host" /\ i \notin pend
       /\ i \in run.inputs => r.bound[i] = run.turn

\* Since the owner's message came at rest, only the owner's have come.
RestOf(r) ==
  alone # {} =>
    /\ \A i \in T!Inputs : r.mark[i] = "no"
    /\ r.live \subseteq Owners
    /\ \A j \in r.live : r.snap[j].owner /\ r.snap[j].verified
RestInv ==
  /\ alone \subseteq Owners
  /\ alone # {} =>
       \A i \in T!Dispatching : i \in Owners /\ (phase[i] # "ready" => ~restr[i].is)

\* What the rest of the state takes the registry for.
RegistryFits(r) ==
  /\ IsReg(r) /\ SnapsOf(r) /\ PresentOf(r) /\ MarksOf(r) /\ BoundsOf(r) /\ RestOf(r)

AuthInv == RecordsInv /\ HostInv /\ HoldInv /\ RestInv /\ RegistryFits(reg)

-----------------------------------------------------------------------------
(* What the operations of turn_grants leave as it was. *)

LEMMA BlankType == T!Blank \in T!Snapshot
BY DEF T!Blank, T!Snapshot

LEMMA NoTurnsReg == IsReg(T!NoTurns)
BY BlankType DEF IsReg, T!NoTurns

LEMMA KindsApart ==
  ASSUME T!AuthorityNames
  PROVE  /\ NoInput \notin T!Inputs
         /\ \A i \in Guests : /\ i \notin Owners /\ i \notin T!Trusted /\ i \notin Receipts
                              /\ i \notin Wakes /\ i \notin Greetings /\ i \in T!Inputs
         /\ \A i \in Owners : /\ i \notin T!Trusted /\ i \notin Receipts /\ i \notin Wakes
                              /\ i \in T!Inputs
BY DEF T!AuthorityNames, T!Trusted, T!Inputs

\* A snapshot that has become no stronger.
Weaker(t, s) ==
  /\ T!MayOrchestrate(t) => T!MayOrchestrate(s)
  /\ t.verified => s.verified
  /\ t.grants \subseteq s.grants /\ s.non \subseteq t.non
  /\ t.notice = s.notice

LEMMA WeakerRestricted ==
  ASSUME NEW s, NEW t, NEW g, Weaker(t, s), Restricted(s, g)
  PROVE  Restricted(t, g)
BY DEF Weaker, Restricted

\* The tables but the snapshots are the same, the snapshots no stronger.
Narrows(R, r) ==
  /\ IsReg(R)
  /\ R.live = r.live /\ R.mark = r.mark /\ R.bound = r.bound
  /\ \A t \in r.live : Weaker(R.snap[t], r.snap[t])

LEMMA RevokedNarrows ==
  ASSUME NEW r, IsReg(r), NEW b \in BOOLEAN
  PROVE  /\ Narrows(T!Revoked(r, b), r)
         /\ \A t \in r.live : ~T!Revoked(r, b).snap[t].verified
<1> DEFINE new == [i \in T!Inputs |->
             IF i \notin r.live THEN r.snap[i]
             ELSE IF b THEN [r.snap[i] EXCEPT !.verified = FALSE]
             ELSE [r.snap[i] EXCEPT !.verified = FALSE, !.owner = FALSE, !.legacy = FALSE,
                                    !.orch = FALSE, !.grants = {}]]
<1>1. T!Revoked(r, b) = [r EXCEPT !.snap = new]
  BY DEF T!Revoked
<1>2. \A i \in T!Inputs : new[i] \in T!Snapshot
  <2> TAKE i \in T!Inputs
  <2>1. r.snap[i] \in T!Snapshot
    BY DEF IsReg
  <2> QED
    BY <2>1 DEF T!Snapshot
<1>3. \A t \in r.live : Weaker(new[t], r.snap[t]) /\ ~new[t].verified
  <2> TAKE t \in r.live
  <2>1. r.snap[t] \in T!Snapshot /\ t \in T!Inputs
    BY DEF IsReg
  <2> QED
    BY <2>1 DEF T!Snapshot, Weaker, T!MayOrchestrate
<1>4. new \in [T!Inputs -> T!Snapshot]
  BY <1>2
<1> HIDE DEF new
<1>5. /\ T!Revoked(r, b).live = r.live /\ T!Revoked(r, b).mark = r.mark
      /\ T!Revoked(r, b).bound = r.bound /\ T!Revoked(r, b).snap = new
      /\ T!Revoked(r, b) = [live |-> r.live, snap |-> new, order |-> r.order,
           mark |-> r.mark, consumed |-> r.consumed, bound |-> r.bound, exec |-> r.exec]
  BY <1>1 DEF IsReg
<1>6. IsReg(T!Revoked(r, b))
  BY <1>4, <1>5 DEF IsReg
<1> QED
  BY <1>3, <1>5, <1>6 DEF Narrows

LEMMA NarrowedSnaps ==
  ASSUME NEW r, NEW R, SnapsOf(r), Narrows(R, r)
  PROVE  SnapsOf(R)
<1>1. \A t \in R.live : R.snap[t].notice <=> t \in T!Trusted
  BY DEF SnapsOf, Narrows, Weaker
<1>2. ASSUME NEW g \in Guests \cap R.live
      PROVE  g \in R.snap[g].non /\ Restricted(R.snap[g], g)
  <2>1. g \in r.live /\ Weaker(R.snap[g], r.snap[g]) /\ Restricted(r.snap[g], g)
        /\ g \in r.snap[g].non
    BY DEF SnapsOf, Narrows
  <2> QED
    BY <2>1, WeakerRestricted DEF Weaker
<1>3. ASSUME NEW g \in Guests, NEW t \in R.live
      PROVE  /\ R.mark[g] = "named" => Restricted(R.snap[t], g)
             /\ R.mark[g] # "no" => ~R.snap[t].verified
  <2>1. /\ t \in r.live /\ Weaker(R.snap[t], r.snap[t]) /\ R.mark[g] = r.mark[g]
        /\ r.mark[g] = "named" => Restricted(r.snap[t], g)
        /\ r.mark[g] # "no" => ~r.snap[t].verified
    BY DEF SnapsOf, Narrows
  <2> QED
    BY <2>1, WeakerRestricted DEF Weaker
<1>4. \A g \in Guests : R.mark[g] = "named" => g \in R.live
  BY DEF SnapsOf, Narrows
<1> QED
  BY <1>1, <1>2, <1>3, <1>4 DEF SnapsOf

\* An announcement takes the verification of all that is registered.
LEMMA MarkedInput ==
  ASSUME NEW r, IsReg(r), SnapsOf(r), NEW i \in T!Inputs
  PROVE  /\ IsReg(T!MarkInput(r, i)) /\ SnapsOf(T!MarkInput(r, i))
         /\ T!MarkInput(r, i).live = r.live /\ T!MarkInput(r, i).bound = r.bound
         /\ T!MarkInput(r, i).mark = [r.mark EXCEPT ![i] = "open"]
<1> DEFINE v == T!Revoked(r, FALSE)
           w == T!MarkInput(r, i)
<1>1. /\ IsReg(v) /\ SnapsOf(v) /\ v.live = r.live /\ v.mark = r.mark /\ v.bound = r.bound
      /\ \A t \in v.live : ~v.snap[t].verified
  BY RevokedNarrows, NarrowedSnaps DEF Narrows
<1>2. w = [v EXCEPT !.mark[i] = "open"]
  BY DEF T!MarkInput
<1> HIDE DEF v, w
<1>3. /\ w.live = v.live /\ w.bound = v.bound /\ w.snap = v.snap
      /\ w.mark = [v.mark EXCEPT ![i] = "open"]
      /\ w = [live |-> v.live, snap |-> v.snap, order |-> v.order, mark |-> w.mark,
           consumed |-> v.consumed, bound |-> v.bound, exec |-> v.exec]
  BY <1>1, <1>2 DEF IsReg
<1>4. IsReg(w)
  BY <1>1, <1>3 DEF IsReg
<1>5. \A j \in T!Inputs : w.mark[j] = IF j = i THEN "open" ELSE v.mark[j]
  BY <1>1, <1>3 DEF IsReg
<1>6. SnapsOf(w)
  BY <1>1, <1>3, <1>5 DEF SnapsOf, T!Inputs
<1> QED
  BY <1>1, <1>3, <1>4, <1>6 DEF w

-----------------------------------------------------------------------------
(* What a registration does to the snapshots. *)

\* A turn that is registered restricts what it overlaps with, and is restricted by
\* it: by a guest's input that is announced under every circumstance.
LEMMA RegisteredSnaps ==
  ASSUME T!AuthorityNames, NEW r, IsReg(r), SnapsOf(r), NEW i \in T!Inputs,
         NEW limit \in Limits, i \in Guests => r.mark[i] = "open"
  PROVE  /\ IsReg(T!Registered(r, i, limit)) /\ SnapsOf(T!Registered(r, i, limit))
         /\ T!Registered(r, i, limit).live = r.live \cup {i}
         /\ T!Registered(r, i, limit).bound = r.bound
         /\ T!Registered(r, i, limit).mark =
              [r.mark EXCEPT ![i] = IF @ = "open" THEN "named" ELSE @]
         /\ (i \in Owners /\ T!Marked(r) = {} /\ ~limit.is /\ r.live \subseteq Owners
              /\ \A j \in r.live : r.snap[j].owner /\ r.snap[j].verified) =>
            \A j \in r.live \cup {i} : /\ T!Registered(r, i, limit).snap[j].owner
                                       /\ T!Registered(r, i, limit).snap[j].verified
<1> DEFINE marks == T!Marked(r)
           orig  == i \in Owners \cup Wakes
           clean == marks = {} /\ ~limit.is
           side  == orig /\ clean
           own   == CASE side -> T!All [] i \in Guests -> T!Has(i) [] OTHER -> {}
           mine  == (IF i \in Guests THEN {i} ELSE {}) \cup limit.non
           near  == {j \in r.live : j \notin r.consumed \/ marks # {}}
           over  == {j \in near : ~(orig /\ r.snap[j].notice)}
           plain == \A j \in over : r.snap[j].non = {}
           legacy == i \in Greetings /\ clean /\ mine = {} /\ plain
           orch  == /\ side \/ legacy \/ i \in Receipts
                    /\ mine = {} /\ plain
                    /\ i \in Receipts \/ \A j \in over : T!MayOrchestrate(r.snap[j])
           left  == T!Meet({own, limit.grants} \cup {r.snap[j].grants : j \in over})
           non   == mine \cup UNION {r.snap[j].non : j \in over}
           kept(s) == i \in T!Trusted /\ (s.orig \/ s.owner \/ s.legacy)
           Narrowed(s) ==
               IF kept(s) THEN [s EXCEPT !.verified = FALSE]
               ELSE [s EXCEPT !.grants = left, !.non = non,
                              !.owner = @ /\ side, !.legacy = @ /\ non = {},
                              !.orch = T!MayOrchestrate(s) /\ orch /\ non = {}]
           owner == side /\ \A k \in over : r.snap[k].owner
           verified == i \in Owners /\ clean /\ \A k \in near : ~r.snap[k].notice
           trusted == i \in T!Trusted
           new == [owner |-> owner, verified |-> verified, legacy |-> legacy, orch |-> orch,
                   orig |-> orig, notice |-> trusted, non |-> non, grants |-> left]
           snaps == [j \in T!Inputs |-> IF j = i THEN new
                                      ELSE IF j \in over THEN Narrowed(r.snap[j])
                                      ELSE r.snap[j]]
           marking == [r.mark EXCEPT ![i] = IF @ = "open" THEN "named" ELSE @]
           R == T!Registered(r, i, limit)
<1> USE KindsApart
<1>1. R = [r EXCEPT !.live = @ \cup {i}, !.order = Append(@, i), !.snap = snaps,
                    !.mark[i] = IF @ = "open" THEN "named" ELSE @,
                    !.consumed = IF limit.is /\ marks = {} THEN @ \cup {i} ELSE @]
  BY DEF T!Registered
<1>2. /\ R.live = r.live \cup {i} /\ R.bound = r.bound /\ R.snap = snaps /\ R.mark = marking
      /\ R = [live |-> R.live, snap |-> R.snap, order |-> R.order, mark |-> R.mark,
              consumed |-> R.consumed, bound |-> R.bound, exec |-> R.exec]
  <2> HIDE DEF marks, snaps, R
  <2> QED
    BY <1>1 DEF IsReg
<1>3. /\ left \subseteq T!All /\ left \subseteq own
      /\ \A j \in over : left \subseteq r.snap[j].grants
  BY DEF T!Meet
<1>4. \A j \in r.live : j \in T!Inputs /\ r.snap[j] \in T!Snapshot
  BY DEF IsReg
<1>5. over \subseteq near /\ near \subseteq r.live
  OBVIOUS
<1>6. /\ non \subseteq Guests /\ mine \subseteq non
      /\ \A j \in over : r.snap[j].non \subseteq non
  <2>1. mine \subseteq Guests
    BY DEF Limits
  <2>2. \A j \in over : r.snap[j].non \subseteq Guests
    BY <1>4, <1>5 DEF T!Snapshot
  <2> HIDE DEF mine, over
  <2> QED
    BY <2>1, <2>2
<1>7. /\ orig \in BOOLEAN /\ side \in BOOLEAN /\ owner \in BOOLEAN /\ verified \in BOOLEAN
      /\ trusted \in BOOLEAN /\ legacy \in BOOLEAN /\ orch \in BOOLEAN
  OBVIOUS
<1>8. new \in T!Snapshot
  <2> HIDE DEF orig, side, owner, verified, trusted, legacy, orch, left, non
  <2> QED
    BY <1>3, <1>6, <1>7 DEF T!Snapshot
<1>9. ASSUME NEW j \in over
      PROVE  /\ Narrowed(r.snap[j]) \in T!Snapshot
             /\ Weaker(Narrowed(r.snap[j]), r.snap[j])
  <2>1. /\ r.snap[j] \in T!Snapshot /\ left \subseteq r.snap[j].grants
        /\ r.snap[j].non \subseteq non
    BY <1>3, <1>4, <1>5, <1>6
  <2> HIDE DEF left, non, over, orch, side
  <2>2. CASE kept(r.snap[j])
    <3> HIDE DEF kept
    <3> QED
      BY <2>1, <2>2 DEF T!Snapshot, Weaker, T!MayOrchestrate
  <2>3. CASE ~kept(r.snap[j])
    <3> HIDE DEF kept
    <3> DEFINE s == r.snap[j]
               o == s.owner /\ side
               l == s.legacy /\ non = {}
               m == T!MayOrchestrate(s) /\ orch /\ non = {}
    <3>1. /\ s = [owner |-> s.owner, verified |-> s.verified, legacy |-> s.legacy,
                  orch |-> s.orch, orig |-> s.orig, notice |-> s.notice,
                  non |-> s.non, grants |-> s.grants]
          /\ s.verified \in BOOLEAN /\ s.orig \in BOOLEAN /\ s.notice \in BOOLEAN
      BY <2>1 DEF T!Snapshot
    <3>2. Narrowed(s) = [s EXCEPT !.grants = left, !.non = non, !.owner = o,
                                  !.legacy = l, !.orch = m]
      BY <2>3
    <3>3. o \in BOOLEAN /\ l \in BOOLEAN /\ m \in BOOLEAN
      OBVIOUS
    <3>4. (o => s.owner) /\ (l => s.legacy) /\ (m => T!MayOrchestrate(s))
      OBVIOUS
    <3> HIDE DEF o, l, m, s, Narrowed
    <3>5. Narrowed(s) = [owner |-> o, verified |-> s.verified, legacy |-> l, orch |-> m,
                         orig |-> s.orig, notice |-> s.notice, non |-> non, grants |-> left]
      BY <3>1, <3>2
    <3>6. Narrowed(s) \in T!Snapshot
      BY <3>1, <3>3, <3>5, <1>3, <1>6 DEF T!Snapshot
    <3>7. Weaker(Narrowed(s), s)
      BY <2>1, <3>4, <3>5 DEF Weaker, T!MayOrchestrate, s
    <3> QED
      BY <3>6, <3>7 DEF s
  <2> QED
    BY <2>2, <2>3
<1>10. /\ snaps[i] = new
       /\ \A j \in over \ {i} : snaps[j] = Narrowed(r.snap[j])
       /\ \A j \in r.live \ (over \cup {i}) : snaps[j] = r.snap[j]
  <2> HIDE DEF new, over, Narrowed
  <2> QED
    BY <1>4, <1>5
<1>11. \A j \in r.live \ {i} : Weaker(snaps[j], r.snap[j])
  <2> SUFFICES ASSUME NEW j \in r.live \ {i}
               PROVE  Weaker(snaps[j], r.snap[j])
    OBVIOUS
  <2>1. CASE j \in over
    <3> HIDE DEF snaps, Narrowed, over
    <3> QED
      BY <2>1, <1>9, <1>10
  <2>2. CASE j \notin over
    <3>1. snaps[j] = r.snap[j]
      <4> HIDE DEF snaps, Narrowed, over, new
      <4> QED
        BY <2>2, <1>10
    <3> HIDE DEF snaps
    <3> QED
      BY <3>1 DEF Weaker
  <2> QED
    BY <2>1, <2>2
<1>12. snaps \in [T!Inputs -> T!Snapshot]
  <2>1. \A j \in T!Inputs : r.snap[j] \in T!Snapshot
    BY DEF IsReg
  <2> HIDE DEF new, over, Narrowed
  <2> QED
    BY <2>1, <1>8, <1>9
<1>13. marking \in [T!Inputs -> {"no", "open", "named"}]
       /\ \A j \in T!Inputs : marking[j] = IF j = i /\ r.mark[j] = "open" THEN "named"
                                         ELSE r.mark[j]
  BY DEF IsReg
<1>14. IsReg(R)
  <2> HIDE DEF R, snaps, marking
  <2> QED
    BY <1>2, <1>12, <1>13 DEF IsReg
<1>15. \A t \in r.live \cup {i} : snaps[t].notice <=> t \in T!Trusted
  <2>1. new.notice = (i \in T!Trusted)
    OBVIOUS
  <2> HIDE DEF snaps, new
  <2> QED
    BY <2>1, <1>10, <1>11 DEF SnapsOf, Weaker
\* An input's announcement narrows what is registered with it ...
<1>16. ASSUME NEW g \in Guests, r.mark[g] = "named"
       PROVE  Restricted(new, g)
  <2>1. /\ g \in r.live /\ Restricted(r.snap[g], g) /\ g \in r.snap[g].non
        /\ ~r.snap[g].notice /\ marks # {}
    <3>1. g \in T!Inputs /\ g \notin T!Trusted /\ g \in marks
      BY <1>16 DEF T!Marked
    <3>2. g \in r.live
      BY <1>16 DEF SnapsOf
    <3> HIDE DEF marks
    <3> QED
      BY <3>1, <3>2 DEF SnapsOf
  <2>2. g \in over
    BY <2>1
  <2>3. left \subseteq T!Has(g)
    <3> HIDE DEF left, over
    <3> QED
      BY <2>1, <2>2, <1>3 DEF Restricted
  <2>4. ~clean /\ ~plain
    BY <2>1, <2>2
  <2>5. ~owner /\ ~verified /\ ~legacy /\ ~orch
    <3> HIDE DEF clean, plain, over, near
    <3> QED
      BY <2>4
  <2> HIDE DEF left, owner, verified, legacy, orch, non, orig, trusted
  <2> QED
    BY <2>3, <2>5 DEF Restricted, T!MayOrchestrate
\* ... and a guest's input narrows them all.
<1>17. ASSUME i \in Guests
       PROVE  /\ Restricted(new, i) /\ i \in new.non
              /\ \A t \in r.live \ {i} : Restricted(snaps[t], i)
  <2>1. marks # {} /\ ~orig /\ r.mark[i] = "open" /\ ~trusted /\ i \in mine
    BY <1>17 DEF T!Marked
  <2>2. ~clean /\ ~side /\ over = r.live /\ own = T!Has(i)
    BY <1>17, <2>1
  <2>3. left \subseteq T!Has(i) /\ i \in non
    <3> HIDE DEF left, non, mine, own, over
    <3> QED
      BY <2>1, <2>2, <1>3, <1>6
  <2>4. ~owner /\ ~verified /\ ~legacy /\ ~orch
    <3> HIDE DEF mine, over, plain
    <3> QED
      BY <2>2, <1>17, KindsApart
  <2>5. Restricted(new, i) /\ i \in new.non
    <3> HIDE DEF left, owner, verified, legacy, orch, non, orig, trusted
    <3> QED
      BY <2>3, <2>4 DEF Restricted, T!MayOrchestrate
  <2>6. ASSUME NEW t \in r.live \ {i}
        PROVE  Restricted(snaps[t], i)
    <3>1. ~r.snap[t].verified /\ r.snap[t] \in T!Snapshot
      BY <2>1, <1>4, <1>17 DEF SnapsOf
    <3>2. snaps[t] = [r.snap[t] EXCEPT !.grants = left, !.non = non,
                        !.owner = FALSE, !.legacy = FALSE, !.orch = FALSE]
      <4>1. snaps[t] = Narrowed(r.snap[t])
        <5> HIDE DEF snaps, Narrowed, over, new
        <5> QED
          BY <1>10, <2>2
      <4>2. ~kept(r.snap[t]) /\ non # {}
        <5> HIDE DEF non
        <5> QED
          BY <2>1, <2>3
      <4>3. r.snap[t].owner \in BOOLEAN /\ r.snap[t].legacy \in BOOLEAN
        BY <3>1 DEF T!Snapshot
      <4> HIDE DEF snaps, left, non, orch, side, kept
      <4> QED
        BY <4>1, <4>2, <4>3, <2>2, <2>4
    <3> HIDE DEF snaps, left, non
    <3> QED
      BY <3>1, <3>2, <2>3 DEF Restricted, T!MayOrchestrate, T!Snapshot
  <2> QED
    BY <2>5, <2>6
<1>18. ASSUME NEW g \in Guests, NEW t \in r.live \cup {i}
       PROVE  /\ marking[g] = "named" => Restricted(snaps[t], g)
              /\ marking[g] # "no" => ~snaps[t].verified
  <2>1. g \in T!Inputs /\ snaps[i] = new
    BY <1>10
  <2> HIDE DEF snaps, new, marking
  <2>2. CASE g = i
    <3>1. \A u \in r.live \cup {i} : Restricted(snaps[u], i)
      BY <1>17, <2>1, <2>2
    <3> QED
      BY <3>1, <2>2 DEF Restricted
  <2>3. CASE g # i /\ t # i
    <3>1. /\ marking[g] = r.mark[g] /\ Weaker(snaps[t], r.snap[t])
          /\ r.mark[g] = "named" => Restricted(r.snap[t], g)
          /\ r.mark[g] # "no" => ~r.snap[t].verified
      BY <1>11, <1>13, <2>1, <2>3 DEF SnapsOf
    <3> QED
      BY <3>1, WeakerRestricted DEF Weaker
  <2>4. CASE g # i /\ t = i
    <3>1. marking[g] = r.mark[g] /\ snaps[t] = new
      BY <1>13, <2>1, <2>4
    <3>2. r.mark[g] # "no" => ~new.verified
      <4>1. r.mark[g] # "no" => marks # {}
        BY <2>1 DEF T!Marked
      <4>2. new.verified => marks = {}
        BY DEF new
      <4> QED
        BY <4>1, <4>2
    <3> QED
      BY <3>1, <3>2, <1>16
  <2> QED
    BY <2>2, <2>3, <2>4
<1>19. ASSUME NEW g \in Guests \cap (r.live \cup {i})
       PROVE  g \in snaps[g].non /\ Restricted(snaps[g], g)
  <2>1. snaps[i] = new
    BY <1>10
  <2> HIDE DEF snaps, new
  <2>2. CASE g = i
    BY <2>1, <2>2, <1>17
  <2>3. CASE g # i
    <3>1. /\ g \in r.snap[g].non /\ Restricted(r.snap[g], g)
          /\ Weaker(snaps[g], r.snap[g])
      BY <2>3, <1>11 DEF SnapsOf
    <3> QED
      BY <3>1, WeakerRestricted DEF Weaker
  <2> QED
    BY <2>2, <2>3
<1>20. \A g \in Guests : marking[g] = "named" => g \in r.live \cup {i}
  <2> HIDE DEF marking
  <2> QED
    BY <1>13, KindsApart DEF SnapsOf
<1>21. SnapsOf(R)
  <2> HIDE DEF R, snaps, marking
  <2> QED
    BY <1>2, <1>15, <1>18, <1>19, <1>20 DEF SnapsOf
<1>22. ASSUME i \in Owners, T!Marked(r) = {}, ~limit.is, r.live \subseteq Owners,
              \A j \in r.live : r.snap[j].owner /\ r.snap[j].verified,
              NEW j \in r.live \cup {i}
       PROVE  snaps[j].owner /\ snaps[j].verified
  <2>1. side /\ ~trusted
    BY <1>22
  <2>2. \A k \in r.live : ~r.snap[k].notice
    BY <1>22 DEF SnapsOf
  <2>3. owner /\ verified
    <3> HIDE DEF over, near, side, clean
    <3>1. clean
      BY <2>1 DEF side
    <3> QED
      BY <2>1, <2>2, <3>1, <1>5, <1>22
  <2>4. CASE j = i
    <3>1. new.owner /\ new.verified
      <4> HIDE DEF owner, verified
      <4> QED
        BY <2>3
    <3> HIDE DEF new, snaps
    <3> QED
      BY <3>1, <2>4, <1>10
  <2>5. CASE j # i /\ j \in over
    <3>1. snaps[j] = Narrowed(r.snap[j])
      <4> HIDE DEF snaps, Narrowed, over, new
      <4> QED
        BY <1>10, <2>5
    <3>2. /\ r.snap[j].owner /\ r.snap[j].verified
          /\ r.snap[j] \in T!Snapshot /\ ~kept(r.snap[j])
      BY <1>4, <1>22, <2>1, <2>5
    <3> HIDE DEF snaps, side, left, non, orch, kept
    <3> QED
      BY <3>1, <3>2, <2>1 DEF T!Snapshot
  <2>6. CASE j # i /\ j \notin over
    <3>1. snaps[j] = r.snap[j]
      <4> HIDE DEF snaps, Narrowed, over, new
      <4> QED
        BY <1>10, <2>6, <1>22
    <3> HIDE DEF snaps
    <3> QED
      BY <3>1, <1>22, <2>6
  <2> QED
    BY <2>4, <2>5, <2>6
<1> HIDE DEF R, snaps, marking
<1>23. R.live = r.live \cup {i} /\ R.bound = r.bound /\ R.mark = marking
  BY <1>2
<1>24. (i \in Owners /\ T!Marked(r) = {} /\ ~limit.is /\ r.live \subseteq Owners
         /\ \A j \in r.live : r.snap[j].owner /\ r.snap[j].verified) =>
       \A j \in r.live \cup {i} : R.snap[j].owner /\ R.snap[j].verified
  BY <1>22, <1>2
<1> QED
  BY <1>14, <1>21, <1>23, <1>24 DEF R, marking

-----------------------------------------------------------------------------
(* What is dropped and what is bound. *)

\* What is left is as it was, except that an announcement may have ended.
Drops(R, r) ==
  /\ IsReg(R) /\ R.live \subseteq r.live
  /\ \A t \in R.live : R.snap[t] = r.snap[t]
  /\ \A j \in T!Inputs : R.mark[j] = r.mark[j] \/ R.mark[j] = "no"
  /\ \A j \in T!Inputs : R.mark[j] = "named" /\ j \in r.live => j \in R.live

LEMMA DroppedSnaps ==
  ASSUME NEW r, NEW R, IsReg(r), SnapsOf(r), Drops(R, r)
  PROVE  SnapsOf(R)
<1>1. \A g \in Guests : g \in T!Inputs
  BY DEF T!Inputs
<1>2. \A g \in Guests : R.mark[g] = "named" => r.mark[g] = "named"
  BY <1>1 DEF Drops
<1>3. \A g \in Guests : R.mark[g] # "no" => r.mark[g] # "no"
  BY <1>1 DEF Drops
<1>4. \A g \in Guests : R.mark[g] = "named" => g \in R.live
  BY <1>1, <1>2 DEF Drops, SnapsOf
<1>5. \A t \in R.live : t \in r.live /\ R.snap[t] = r.snap[t]
  BY DEF Drops
<1> QED
  BY <1>2, <1>3, <1>4, <1>5 DEF SnapsOf

\* The announcement of the turn that is bound or unbound ends.
LEMMA ConsumedMarks ==
  ASSUME NEW r, IsReg(r), NEW x, NEW turns
  PROVE  LET s == T!Consumed(r, x, turns)
         IN  /\ IsReg(s) /\ s.live = r.live /\ s.snap = r.snap /\ s.bound = r.bound
             /\ \A j \in T!Inputs :
                  s.mark[j] = IF j = x /\ r.mark[j] = "named" THEN "no" ELSE r.mark[j]
<1> DEFINE s == T!Consumed(r, x, turns)
<1>1. CASE r.mark[x] = "named"
  <2>1. s = [r EXCEPT !.mark[x] = "no", !.consumed = @ \cup turns]
    BY <1>1 DEF T!Consumed
  <2> HIDE DEF s
  <2>2. /\ s.live = r.live /\ s.snap = r.snap /\ s.bound = r.bound
        /\ s.mark = [r.mark EXCEPT ![x] = "no"]
        /\ s = [live |-> s.live, snap |-> s.snap, order |-> s.order, mark |-> s.mark,
                consumed |-> s.consumed, bound |-> s.bound, exec |-> s.exec]
    BY <2>1 DEF IsReg
  <2>3. /\ s.mark \in [T!Inputs -> {"no", "open", "named"}]
        /\ \A j \in T!Inputs :
             s.mark[j] = IF j = x /\ r.mark[j] = "named" THEN "no" ELSE r.mark[j]
    BY <2>2, <1>1 DEF IsReg
  <2>4. IsReg(s)
    BY <2>2, <2>3 DEF IsReg
  <2> QED
    BY <2>2, <2>3, <2>4 DEF s
<1>2. CASE r.mark[x] # "named"
  BY <1>2 DEF T!Consumed
<1> QED
  BY <1>1, <1>2

LEMMA ReleasedTurn ==
  ASSUME NEW r, IsReg(r), NEW x \in T!Inputs
  PROVE  LET R == T!Released(r, x)
         IN  /\ Drops(R, r) /\ R.live = r.live \ {x}
             /\ \A j \in T!Inputs \ {x} : R.mark[j] = r.mark[j] /\ R.bound[j] = r.bound[j]
             /\ R.bound[x] = 0
<1> DEFINE c == T!Consumed(r, x, r.live)
           s == T!Unbound(r, x, r.live)
           R == T!Released(r, x)
<1>1. /\ IsReg(c) /\ c.live = r.live /\ c.snap = r.snap /\ c.bound = r.bound
      /\ \A j \in T!Inputs :
           c.mark[j] = IF j = x /\ r.mark[j] = "named" THEN "no" ELSE r.mark[j]
  BY ConsumedMarks
<1>2. s = [c EXCEPT !.bound[x] = 0, !.consumed = @ \ {x},
                    !.exec = [i \in T!Inputs |->
                        IF i = x \/ c.exec[i] = x THEN NoInput ELSE c.exec[i]]]
  BY DEF T!Unbound
<1> HIDE DEF c
<1>3. /\ s.live = c.live /\ s.snap = c.snap /\ s.mark = c.mark
      /\ s.bound = [c.bound EXCEPT ![x] = 0]
      /\ s = [live |-> s.live, snap |-> s.snap, order |-> s.order, mark |-> s.mark,
              consumed |-> s.consumed, bound |-> s.bound, exec |-> s.exec]
  <2> HIDE DEF s
  <2> QED
    BY <1>1, <1>2 DEF IsReg
<1>4. R = [s EXCEPT !.live = @ \ {x}, !.snap[x] = T!Blank, !.order = T!Remove(@, x)]
  BY DEF T!Released
<1> HIDE DEF s, R
<1>5. /\ R.live = s.live \ {x} /\ R.snap = [s.snap EXCEPT ![x] = T!Blank]
      /\ R.mark = s.mark /\ R.bound = s.bound
      /\ R = [live |-> R.live, snap |-> R.snap, order |-> R.order, mark |-> R.mark,
              consumed |-> R.consumed, bound |-> R.bound, exec |-> R.exec]
  BY <1>3, <1>4
<1>6. R.snap \in [T!Inputs -> T!Snapshot] /\ \A t \in T!Inputs \ {x} : R.snap[t] = r.snap[t]
  BY <1>1, <1>3, <1>5, BlankType DEF IsReg
<1>7. /\ R.bound \in [T!Inputs -> Nat] /\ R.bound[x] = 0
      /\ \A j \in T!Inputs \ {x} : R.bound[j] = r.bound[j]
  BY <1>1, <1>3, <1>5 DEF IsReg
<1>8. R.live = r.live \ {x} /\ R.mark = c.mark
  BY <1>1, <1>3, <1>5
<1>9. IsReg(R)
  BY <1>1, <1>5, <1>6, <1>7, <1>8 DEF IsReg
<1>10. Drops(R, r)
  <2>1. R.live \subseteq T!Inputs
    BY <1>9 DEF IsReg
  <2>2. \A j \in T!Inputs :
          R.mark[j] = IF j = x /\ r.mark[j] = "named" THEN "no" ELSE r.mark[j]
    BY <1>1, <1>8
  <2>3. R.mark[x] # "named"
    BY <2>2
  <2> QED
    BY <2>1, <2>2, <2>3, <1>6, <1>8, <1>9 DEF Drops
<1> QED
  BY <1>1, <1>7, <1>8, <1>10 DEF R

\* A session that is released keeps no turn, and of the announcements those of
\* inputs that are not registered yet.
LEMMA ReleasedSession ==
  ASSUME NEW r, IsReg(r), NEW all \in BOOLEAN
  PROVE  LET s == T!SessionReleased(r)
             R == IF all THEN [s EXCEPT !.mark = [i \in T!Inputs |-> "no"]] ELSE s
         IN  /\ Drops(R, r) /\ R.live = {} /\ \A j \in T!Inputs : R.bound[j] = 0
             /\ \A j \in T!Inputs : ~all /\ r.mark[j] = "open" => R.mark[j] = "open"
             /\ \A j \in T!Inputs : all => R.mark[j] = "no"
<1> DEFINE left == [i \in T!Inputs |->
             IF r.mark[i] = "named" /\ i \in r.live THEN "no" ELSE r.mark[i]]
           s == T!SessionReleased(r)
           no == [i \in T!Inputs |-> "no"]
           R == IF all THEN [s EXCEPT !.mark = no] ELSE s
<1>1. s = [T!NoTurns EXCEPT !.mark = left, !.consumed = r.consumed \ r.live]
  BY DEF T!SessionReleased
<1>2. /\ left \in [T!Inputs -> {"no", "open", "named"}]
      /\ \A j \in T!Inputs : left[j] = r.mark[j] \/ left[j] = "no"
      /\ \A j \in T!Inputs : r.mark[j] = "open" => left[j] = "open"
      /\ \A j \in r.live : left[j] # "named"
  BY DEF IsReg
<1>3. /\ no \in [T!Inputs -> {"no", "open", "named"}] /\ \A j \in T!Inputs : no[j] = "no"
  OBVIOUS
<1> HIDE DEF s, left, no
<1>4. /\ s.live = {} /\ s.snap = [i \in T!Inputs |-> T!Blank] /\ s.mark = left
      /\ s.bound = [i \in T!Inputs |-> 0]
      /\ s = [live |-> s.live, snap |-> s.snap, order |-> s.order, mark |-> s.mark,
              consumed |-> s.consumed, bound |-> s.bound, exec |-> s.exec]
  BY <1>1 DEF T!NoTurns
<1>5. /\ R.live = {} /\ R.snap = [i \in T!Inputs |-> T!Blank]
      /\ R.mark = IF all THEN no ELSE left
      /\ R.bound = [i \in T!Inputs |-> 0]
      /\ R = [live |-> R.live, snap |-> R.snap, order |-> R.order, mark |-> R.mark,
              consumed |-> R.consumed, bound |-> R.bound, exec |-> R.exec]
  BY <1>4
<1> HIDE DEF R
<1>6. IsReg(R)
  BY <1>2, <1>3, <1>5, BlankType DEF IsReg
<1>7. /\ \A j \in T!Inputs : R.mark[j] = r.mark[j] \/ R.mark[j] = "no"
      /\ \A j \in r.live : R.mark[j] # "named"
  BY <1>2, <1>3, <1>5 DEF IsReg
<1>8. Drops(R, r)
  BY <1>5, <1>6, <1>7 DEF Drops
<1>9. \A j \in T!Inputs : ~all /\ r.mark[j] = "open" => R.mark[j] = "open"
  BY <1>2, <1>5
<1>10. \A j \in T!Inputs : all => R.mark[j] = "no"
  BY <1>3, <1>5
<1> QED
  BY <1>5, <1>8, <1>9, <1>10 DEF R, no, s

\* A turn is bound to one input at most, which none was bound to before.
Binds(R, r, nth, x) ==
  /\ \A j \in T!Inputs : r.bound[j] # nth
  /\ Drops(R, r) /\ R.live = r.live
  /\ \A j \in T!Inputs :
       /\ R.bound[j] = IF j = x THEN nth ELSE r.bound[j]
       /\ j # x \/ r.mark[j] # "named" => R.mark[j] = r.mark[j]

LEMMA BoundTurn ==
  ASSUME NEW r, IsReg(r), NEW c \in T!Inputs, NEW nth \in Nat
  PROVE  T!BoundTo(r, c, nth) = r \/ \E x : Binds(T!BoundTo(r, c, nth), r, nth, x)
<1> DEFINE Newest(s) == T!Last(SelectSeq(r.order, LAMBDA x : x \in s))
           free  == {j \in r.live : r.bound[j] = 0}
           texts == {j \in free : ~r.snap[j].notice}
           x == IF r.bound[c] = 0 THEN c
                ELSE IF free = {} THEN NoInput
                ELSE Newest(IF texts # {} THEN texts ELSE free)
           stays == c \notin r.live \/ x = NoInput \/ (\E j \in T!Inputs : r.bound[j] = nth)
           b == [r EXCEPT !.bound[x] = nth]
           s == T!Consumed(b, x, r.live)
           R == T!BoundTo(r, c, nth)
<1>1. R = IF stays THEN r ELSE [s EXCEPT !.exec[c] = x]
  BY DEF T!BoundTo
<1>2. stays \/ \A j \in T!Inputs : r.bound[j] # nth
  OBVIOUS
<1> HIDE DEF x, stays
<1>3. /\ b.live = r.live /\ b.snap = r.snap /\ b.mark = r.mark
      /\ b.bound = [r.bound EXCEPT ![x] = nth]
      /\ b = [live |-> b.live, snap |-> b.snap, order |-> b.order, mark |-> b.mark,
              consumed |-> b.consumed, bound |-> b.bound, exec |-> b.exec]
  BY DEF IsReg
<1> HIDE DEF b
<1>4. /\ b.bound \in [T!Inputs -> Nat]
      /\ \A j \in T!Inputs : b.bound[j] = IF j = x THEN nth ELSE r.bound[j]
  BY <1>3 DEF IsReg
<1>5. IsReg(b)
  BY <1>3, <1>4 DEF IsReg
<1>6. /\ IsReg(s) /\ s.live = b.live /\ s.snap = b.snap /\ s.bound = b.bound
      /\ \A j \in T!Inputs :
           s.mark[j] = IF j = x /\ b.mark[j] = "named" THEN "no" ELSE b.mark[j]
  BY <1>5, ConsumedMarks
<1> HIDE DEF s, R
<1>7. CASE ~stays
  <2>1. R = [s EXCEPT !.exec[c] = x]
    BY <1>1, <1>7
  <2>2. /\ R.live = s.live /\ R.snap = s.snap /\ R.mark = s.mark /\ R.bound = s.bound
        /\ R = [live |-> R.live, snap |-> R.snap, order |-> R.order, mark |-> R.mark,
                consumed |-> R.consumed, bound |-> R.bound, exec |-> R.exec]
    BY <2>1, <1>6 DEF IsReg
  <2>3. IsReg(R)
    BY <2>2, <1>6 DEF IsReg
  <2>4. \A j \in T!Inputs :
          R.mark[j] = IF j = x /\ r.mark[j] = "named" THEN "no" ELSE r.mark[j]
    BY <2>2, <1>3, <1>6
  <2>5. R.live = r.live /\ R.snap = r.snap
    BY <2>2, <1>3, <1>6
  <2>6. Drops(R, r)
    BY <2>3, <2>4, <2>5 DEF Drops
  <2>7. \A j \in T!Inputs : /\ R.bound[j] = IF j = x THEN nth ELSE r.bound[j]
                            /\ j # x \/ r.mark[j] # "named" => R.mark[j] = r.mark[j]
    BY <2>2, <2>4, <1>4, <1>6
  <2> QED
    BY <1>2, <1>7, <2>5, <2>6, <2>7 DEF R, Binds
<1>8. CASE stays
  BY <1>1, <1>8 DEF R
<1> QED
  BY <1>7, <1>8

-----------------------------------------------------------------------------
(* The steps. *)

LEMMA AuthInit ==
  ASSUME T!AuthorityNames, T!Init
  PROVE  AuthInv
<1> USE KindsApart
<1>1. RecordsInv
  <2>1. restr \in [T!Inputs -> Limits]
    BY DEF T!Init, T!NoRestr, Limits, T!All
  <2> QED
    BY <2>1, NoTurnsReg DEF T!Init, RecordsInv, T!Idle, Phases
<1>2. HostInv
  BY DEF T!Init, HostInv, T!Idle
<1>3. HoldInv
  BY DEF T!Init, HoldInv, T!Inputs
<1>4. PresentOf(reg) /\ MarksOf(reg)
  BY DEF T!Init, PresentOf, MarksOf, InHost, T!Idle, T!Inputs
<1>5. BoundsOf(reg)
  BY DEF T!Init, BoundsOf, T!NoTurns, T!Idle
<1>6. SnapsOf(reg) /\ IsReg(reg)
  BY NoTurnsReg DEF T!Init, SnapsOf, T!NoTurns, T!Inputs
<1>7. RestInv /\ RestOf(reg)
  BY DEF T!Init, RestInv, RestOf
<1> QED
  BY <1>1, <1>2, <1>3, <1>4, <1>5, <1>6, <1>7 DEF AuthInv, RegistryFits

LEMMA AuthStutter ==
  ASSUME AuthInv, UNCHANGED <<reg, phase, restr, held, T!hostVars, alone, strayed>>,
         going' \in {going, NoInput}
  PROVE  AuthInv'
<1>1. RecordsInv' /\ HostInv' /\ HoldInv' /\ RestInv'
  BY DEF AuthInv, RecordsInv, HostInv, HoldInv, RestInv, T!Dispatching, T!hostVars
<1>2. PresentOf(reg)' /\ MarksOf(reg)'
  BY DEF AuthInv, RegistryFits, PresentOf, MarksOf, InHost, T!hostVars
<1>3. BoundsOf(reg)' /\ RestOf(reg)' /\ SnapsOf(reg)' /\ IsReg(reg)'
  BY DEF AuthInv, RegistryFits, BoundsOf, RestOf, T!hostVars
<1> QED
  BY <1>1, <1>2, <1>3 DEF AuthInv, RegistryFits

LEMMA SameCount ==
  \A S : T!Cardinality(S) = Cardinality(S) /\ (T!IsFiniteSet(S) <=> IsFiniteSet(S))
BY DEF T!Cardinality, Cardinality, T!IsFiniteSet, IsFiniteSet

\* A session found idle has no input of its own on the way but the one for which it
\* is looked at, before that one is registered.
LEMMA IdleSession ==
  ASSUME T!AuthorityNames, AuthInv, NEW own \in {0, 1}, ~T!Busy(own),
         own = 1 => \E i \in T!Inputs \ Wakes : phase[i] = "prep"
  PROVE  /\ run.at = "idle" /\ pend = {} /\ run.inputs = {}
         /\ \A i \in T!Inputs \ Wakes : phase[i] # "ready"
         /\ own = 0 => T!Dispatching \ Wakes = {}
<1> DEFINE D == T!Dispatching \ Wakes
<1>1. IsFiniteSet(D)
  <2>1. D \subseteq T!Inputs
    BY DEF T!Dispatching
  <2> QED
    BY <2>1, FS_Subset, SameCount DEF T!AuthorityNames
<1>2. Cardinality(D) \in Nat /\ Cardinality(D) <= own
  BY <1>1, FS_CardinalityType, SameCount DEF T!Busy
<1>3. run.at = "idle" /\ pend = {} /\ run.inputs = {}
  BY DEF T!Busy, T!HostBusy, AuthInv, RecordsInv, HostInv
<1>4. CASE own = 0
  <2>1. D = {}
    BY <1>1, <1>2, <1>4, FS_EmptySet
  <2> QED
    BY <2>1, <1>3 DEF T!Dispatching
<1>5. CASE own = 1
  <2>1. PICK i \in T!Inputs \ Wakes : phase[i] = "prep"
    BY <1>5
  <2>2. i \in D
    BY <2>1 DEF T!Dispatching
  <2>3. IsFiniteSet(D \ {i}) /\ Cardinality(D \ {i}) = Cardinality(D) - 1
    BY <1>1, <2>2, FS_RemoveElement
  <2>4. Cardinality(D \ {i}) = 0
    <3>1. Cardinality(D \ {i}) \in Nat
      BY <2>3, FS_CardinalityType
    <3> QED
      BY <3>1, <2>3, <1>2, <1>5
  <2>5. D \ {i} = {}
    BY <2>3, <2>4, FS_EmptySet
  <2>6. \A j \in T!Inputs \ Wakes : phase[j] # "ready"
    BY <2>1, <2>5 DEF T!Dispatching
  <2> QED
    BY <2>6, <1>3, <1>5
<1> QED
  BY <1>4, <1>5

\* The registry is as it was, or nothing is registered and none was to be.
Tidied(R) ==
  /\ Drops(R, reg) /\ SnapsOf(R)
  /\ \/ R = reg
     \/ /\ R.live = {} /\ \A j \in T!Inputs : R.bound[j] = 0
        /\ run.at = "idle" /\ pend = {} /\ run.inputs = {}
        /\ \A i \in T!Inputs \ Wakes : phase[i] # "ready"
        /\ \A j \in T!Inputs \ Wakes :
             phase[j] \in {"prep", "checked"} /\ reg.mark[j] = "open" => R.mark[j] = "open"

LEMMA TidiedSame ==
  ASSUME AuthInv
  PROVE  Tidied(reg)
BY DEF AuthInv, RegistryFits, Tidied, Drops

LEMMA TidiedSession ==
  ASSUME T!AuthorityNames, AuthInv, NEW own \in {0, 1},
         own = 1 => \E i \in T!Inputs \ Wakes : phase[i] = "prep"
  PROVE  /\ Tidied(T!AfterBusy(own))
         /\ own = 0 /\ ~T!Busy(0) =>
              /\ T!AfterBusy(own).live = {}
              /\ \A j \in T!Inputs : T!AfterBusy(own).mark[j] = "no"
<1>1. CASE T!Busy(own)
  BY <1>1, TidiedSame DEF T!AfterBusy
<1>2. CASE ~T!Busy(own)
  <2> DEFINE all == T!Dispatching \ Wakes = {}
             s == T!SessionReleased(reg)
             no == [i \in T!Inputs |-> "no"]
             R == IF all THEN [s EXCEPT !.mark = no] ELSE s
  <2>1. T!AfterBusy(own) = R
    BY <1>2 DEF T!AfterBusy
  <2>2. IsReg(reg) /\ SnapsOf(reg)
    BY DEF AuthInv, RegistryFits
  <2>3. all \in BOOLEAN
    OBVIOUS
  <2> HIDE DEF all
  <2>4. /\ Drops(R, reg) /\ R.live = {} /\ \A j \in T!Inputs : R.bound[j] = 0
        /\ \A j \in T!Inputs : ~all /\ reg.mark[j] = "open" => R.mark[j] = "open"
        /\ \A j \in T!Inputs : all => R.mark[j] = "no"
    BY <2>2, <2>3, ReleasedSession
  <2>5. SnapsOf(R)
    <3> HIDE DEF R
    <3> QED
      BY <2>2, <2>4, DroppedSnaps
  <2>6. /\ run.at = "idle" /\ pend = {} /\ run.inputs = {}
        /\ \A i \in T!Inputs \ Wakes : phase[i] # "ready"
        /\ own = 0 => all
    BY <1>2, IdleSession DEF all
  <2>7. all => \A j \in T!Inputs \ Wakes : phase[j] \notin {"prep", "checked"}
    BY DEF all, T!Dispatching
  <2> HIDE DEF R
  <2> QED
    BY <2>1, <2>4, <2>5, <2>6, <2>7 DEF Tidied
<1> QED
  BY <1>1, <1>2

LEMMA TidiedFits ==
  ASSUME T!AuthorityNames, AuthInv, NEW R, Tidied(R)
  PROVE  RegistryFits(R)
<1>1. CASE R = reg
  BY <1>1 DEF AuthInv
<1>2. CASE R # reg
  <2> USE KindsApart DEF AuthInv, RegistryFits
  <2>1. /\ IsReg(R) /\ SnapsOf(R) /\ R.live = {} /\ \A j \in T!Inputs : R.bound[j] = 0
        /\ run.at = "idle" /\ pend = {} /\ run.inputs = {}
        /\ \A i \in T!Inputs \ Wakes : phase[i] # "ready"
        /\ \A j \in T!Inputs \ Wakes :
             phase[j] \in {"prep", "checked"} /\ reg.mark[j] = "open" => R.mark[j] = "open"
        /\ \A j \in T!Inputs : R.mark[j] = reg.mark[j] \/ R.mark[j] = "no"
    BY <1>2 DEF Tidied, Drops
  <2>2. PresentOf(R)
    BY <2>1 DEF PresentOf, InHost
  <2>3. MarksOf(R)
    BY <2>1 DEF MarksOf, InHost
  <2>4. BoundsOf(R)
    BY <2>1 DEF BoundsOf, RecordsInv
  <2>5. RestOf(R)
    BY <2>1 DEF RestOf
  <2> QED
    BY <2>1, <2>2, <2>3, <2>4, <2>5
<1> QED
  BY <1>1, <1>2

\* An input goes on in the adapter: what fits the registry still does.
LEMMA AdapterMove ==
  ASSUME T!AuthorityNames, AuthInv, NEW i \in T!Inputs, NEW p \in Phases, p # "host",
         phase[i] # "host", phase' = [phase EXCEPT ![i] = p],
         UNCHANGED <<T!hostVars, strayed>>,
         IsReg(reg'), SnapsOf(reg'), PresentOf(reg'), MarksOf(reg'), BoundsOf(reg'),
         RestOf(reg)',
         p = "ready" => /\ i \in reg'.live \cup Wakes
                        /\ i \in Guests => i \in reg'.live /\ reg'.mark[i] = "named",
         p \in {"prep", "checked"} /\ i \in Guests => reg'.mark[i] = "open"
  PROVE  phase' \in [T!Inputs -> Phases] /\ HostInv' /\ RegistryFits(reg)'
<1> USE KindsApart DEF AuthInv, T!hostVars
<1>1. /\ phase' \in [T!Inputs -> Phases] /\ phase'[i] = p
      /\ \A j \in T!Inputs \ {i} : phase'[j] = phase[j]
  BY DEF RecordsInv
<1>2. HostInv'
  BY <1>1 DEF HostInv
<1>3. i \notin run.inputs /\ i \notin pend
  BY DEF HostInv
<1>4. PresentOf(reg)'
  BY <1>1, <1>3 DEF PresentOf, InHost
<1>5. MarksOf(reg)'
  BY <1>1, <1>3 DEF MarksOf, InHost
<1>6. BoundsOf(reg)'
  BY <1>1 DEF BoundsOf
<1> QED
  BY <1>1, <1>2, <1>4, <1>5, <1>6 DEF RegistryFits

\* ... and what is held.
LEMMA HeldMove ==
  ASSUME HoldInv, RecordsInv, NEW i \in T!Inputs, NEW p \in Phases, phase[i] # "held",
         phase' = [phase EXCEPT ![i] = p], UNCHANGED held, going' \in {going, NoInput},
         p \in {"held", "routed"} => i \in Owners,
         i \in Wakes => p \in {"none", "ready", "host", "done"}
  PROVE  HoldInv'
<1>1. phase'[i] = p /\ \A j \in T!Inputs \ {i} : phase'[j] = phase[j]
  BY DEF RecordsInv
<1>2. \A k \in 1..Len(held) : held[k] \in T!Inputs /\ held[k] # i
  BY DEF HoldInv, T!Inputs
<1>3. \A k \in 1..Len(held') : phase'[held'[k]] = "held"
  BY <1>1, <1>2 DEF HoldInv
<1>4. \A j \in T!Inputs : phase'[j] \in {"held", "routed"} => j \in Owners
  BY <1>1 DEF HoldInv
<1>5. \A j \in Wakes : phase'[j] \in {"none", "ready", "host", "done"}
  BY <1>1 DEF HoldInv, T!Inputs
<1> QED
  BY <1>3, <1>4, <1>5 DEF HoldInv

LEMMA HoldsOne ==
  ASSUME T!AuthorityNames, HoldInv, RecordsInv, NEW i \in Owners, phase[i] # "held",
         T!Hold(i), UNCHANGED going
  PROVE  HoldInv'
<1> USE KindsApart
<1>1. phase'[i] = "held" /\ \A j \in T!Inputs \ {i} : phase'[j] = phase[j]
  BY DEF RecordsInv, T!Hold
<1>2. /\ held' \in Seq(Owners) /\ Len(held') = Len(held) + 1 /\ held'[Len(held) + 1] = i
      /\ \A k \in 1..Len(held) : held'[k] = held[k] /\ held[k] \in Owners /\ held[k] # i
      /\ Len(held) \in Nat
  BY DEF T!Hold, HoldInv
<1>3. \A k \in 1..Len(held') : phase'[held'[k]] = "held"
  <2> TAKE k \in 1..Len(held')
  <2>1. CASE k \in 1..Len(held)
    BY <2>1, <1>1, <1>2 DEF HoldInv
  <2>2. CASE k = Len(held) + 1
    BY <2>2, <1>1, <1>2
  <2> QED
    BY <2>1, <2>2, <1>2
<1>4. \A k, l \in 1..Len(held') : held'[k] = held'[l] => k = l
  <2> TAKE k, l \in 1..Len(held')
  <2>1. CASE k \in 1..Len(held) /\ l \in 1..Len(held)
    BY <2>1, <1>2 DEF HoldInv
  <2>2. CASE k = Len(held) + 1 \/ l = Len(held) + 1
    BY <2>2, <1>2
  <2> QED
    BY <2>1, <2>2, <1>2
<1>5. \A j \in T!Inputs : phase'[j] \in {"held", "routed"} => j \in Owners
  BY <1>1 DEF HoldInv
<1>6. \A j \in Wakes : phase'[j] \in {"none", "ready", "host", "done"}
  BY <1>1 DEF HoldInv, T!Inputs
<1> QED
  BY <1>2, <1>3, <1>4, <1>5, <1>6 DEF HoldInv

LEMMA HeldGoesStep ==
  ASSUME T!AuthorityNames, AuthInv, T!HeldGoes
  PROVE  AuthInv'
<1> DEFINE i == Head(held)
<1> USE KindsApart DEF AuthInv
<1>1. /\ held # <<>> /\ going' = i /\ held' = Tail(held)
      /\ phase' = [phase EXCEPT ![i] = "routed"]
      /\ UNCHANGED <<restr, T!hostVars, alone, strayed>>
      /\ reg' = T!AfterBusy(0) \/ reg' = reg
  BY DEF T!HeldGoes
<1>2. i \in Owners /\ phase[i] = "held" /\ Len(held) \in Nat /\ Len(held) >= 1
  BY <1>1 DEF HoldInv
<1>3. RegistryFits(reg')
  BY <1>1, TidiedSame, TidiedSession, TidiedFits
<1> HIDE DEF i
<1>4. phase' \in [T!Inputs -> Phases] /\ HostInv' /\ RegistryFits(reg)'
  <2>1. RestOf(reg)'
    BY <1>1, <1>3 DEF RegistryFits, RestOf
  <2> QED
    BY <2>1, <1>1, <1>2, <1>3, AdapterMove DEF RegistryFits, Phases
<1>5. RecordsInv'
  BY <1>1, <1>4 DEF RecordsInv, T!hostVars
<1>6. HoldInv'
  <2>1. phase'[i] = "routed" /\ \A j \in T!Inputs \ {i} : phase'[j] = phase[j]
    BY <1>1, <1>2 DEF RecordsInv
  <2>2. /\ held' \in Seq(Owners) /\ Len(held') = Len(held) - 1
        /\ \A k \in 1..Len(held') : held'[k] = held[k + 1] /\ k + 1 \in 1..Len(held)
    BY <1>1, <1>2 DEF HoldInv
  <2>3. held[1] = i /\ 1 \in 1..Len(held)
    BY <1>2 DEF HoldInv, i
  <2>4. \A k \in 1..Len(held') : phase'[held'[k]] = "held"
    <3> TAKE k \in 1..Len(held')
    <3>1. held[k + 1] # i /\ held[k + 1] \in Owners /\ phase[held[k + 1]] = "held"
      BY <2>2, <2>3 DEF HoldInv
    <3> QED
      BY <3>1, <2>1, <2>2
  <2>5. \A k, l \in 1..Len(held') : held'[k] = held'[l] => k = l
    BY <2>2 DEF HoldInv
  <2>6. /\ \A j \in T!Inputs : phase'[j] \in {"held", "routed"} => j \in Owners
        /\ \A j \in Wakes : phase'[j] \in {"none", "ready", "host", "done"}
    BY <2>1, <1>2 DEF HoldInv, T!Inputs
  <2> QED
    BY <2>2, <2>4, <2>5, <2>6, <1>1, <1>2 DEF HoldInv
<1>7. RestInv'
  <2>1. \A j \in T!Inputs \ {i} : phase'[j] = phase[j]
    BY <1>1, <1>2 DEF RecordsInv
  <2>2. phase'[i] = "routed"
    BY <1>1, <1>2 DEF RecordsInv
  <2> QED
    BY <1>1, <2>1, <2>2 DEF RestInv, T!Dispatching
<1> QED
  BY <1>4, <1>5, <1>6, <1>7

LEMMA RestrictionType ==
  ASSUME NEW r, IsReg(r)
  PROVE  /\ T!Restriction(r) \in Limits
         /\ (\A i \in T!Inputs : r.mark[i] = "no") => ~T!Restriction(r).is
<1>1. T!NoRestr \in Limits /\ ~T!NoRestr.is
  BY DEF T!NoRestr, Limits, T!All
<1>2. \A i \in r.live : r.snap[i].non \subseteq Guests
  BY DEF IsReg, T!Snapshot
<1>3. CASE T!Marked(r) = {}
  BY <1>1, <1>3 DEF T!Restriction
<1>4. CASE T!Marked(r) # {}
  <2> DEFINE non == UNION {r.snap[i].non : i \in r.live}
  <2>1. non \subseteq Guests
    BY <1>2
  <2>2. T!Restriction(r) = [is |-> TRUE, grants |-> {}, non |-> non]
    BY <1>4 DEF T!Restriction
  <2> HIDE DEF non
  <2> QED
    BY <1>4, <2>1, <2>2 DEF Limits, T!Marked
<1> QED
  BY <1>3, <1>4

\* The input of the owner finds a registry that fits; another one announces itself.
LEMMA AdmitStep ==
  ASSUME T!AuthorityNames, AuthInv, NEW i \in T!Inputs \ Wakes, T!Admit(i),
         phase[i] \in {"none", "deferred", "routed"},
         UNCHANGED <<held, going, T!hostVars, strayed>>
  PROVE  AuthInv'
<1> USE KindsApart DEF AuthInv
<1> DEFINE r == IF i \in Owners THEN T!AfterBusy(0) ELSE reg
<1>1. /\ restr' = [restr EXCEPT ![i] = T!Restriction(r)]
      /\ reg' = IF i \in Owners THEN r
                ELSE IF i \in T!Trusted THEN T!Revoked(r, TRUE)
                ELSE T!MarkInput(T!Revoked(r, FALSE), i)
      /\ phase' = [phase EXCEPT ![i] = "prep"]
      /\ alone' = T!Alone(i)
  BY DEF T!Admit
<1>2. RegistryFits(r)
  BY TidiedSame, TidiedSession, TidiedFits
<1>3. i \in Owners /\ ~T!Busy(0) => r.live = {} /\ \A j \in T!Inputs : r.mark[j] = "no"
  BY TidiedSession
<1> HIDE DEF r
<1>4. /\ IsReg(reg') /\ SnapsOf(reg') /\ reg'.live = r.live /\ reg'.bound = r.bound
      /\ \A j \in T!Inputs \ {i} : reg'.mark[j] = r.mark[j]
      /\ i \in Guests => reg'.mark[i] = "open"
      /\ i \notin Guests /\ reg'.mark[i] # r.mark[i] => i \notin Owners
      /\ i \in Owners => reg' = r
  <2>1. CASE i \in Owners
    BY <2>1, <1>1, <1>2 DEF RegistryFits
  <2>2. CASE i \in T!Trusted
    <3>1. Narrows(T!Revoked(r, TRUE), r)
      BY <1>2, RevokedNarrows DEF RegistryFits
    <3> QED
      BY <2>2, <3>1, <1>1, <1>2, NarrowedSnaps DEF RegistryFits, Narrows
  <2>3. CASE i \notin Owners /\ i \notin T!Trusted
    <3> DEFINE v == T!Revoked(r, FALSE)
    <3>1. IsReg(v) /\ SnapsOf(v) /\ v.live = r.live /\ v.bound = r.bound /\ v.mark = r.mark
      BY <1>2, RevokedNarrows, NarrowedSnaps DEF RegistryFits, Narrows
    <3>2. reg' = T!MarkInput(v, i)
      BY <2>3, <1>1
    <3> HIDE DEF v
    <3>3. /\ IsReg(reg') /\ SnapsOf(reg') /\ reg'.live = v.live /\ reg'.bound = v.bound
          /\ reg'.mark = [v.mark EXCEPT ![i] = "open"]
      BY <3>1, <3>2, MarkedInput
    <3>4. reg'.mark[i] = "open" /\ \A j \in T!Inputs \ {i} : reg'.mark[j] = v.mark[j]
      BY <3>1, <3>3 DEF IsReg
    <3> QED
      BY <2>3, <3>1, <3>3, <3>4
  <2> QED
    BY <2>1, <2>2, <2>3
<1>5. i \notin run.inputs /\ i \notin pend
  BY DEF HostInv
<1>6. PresentOf(reg')
  BY <1>2, <1>4 DEF RegistryFits, PresentOf
<1>7. ASSUME NEW g \in Guests
      PROVE  /\ phase[g] \in {"prep", "checked"} => reg'.mark[g] = "open"
             /\ InHost(g) => reg'.mark[g] = "named" \/ reg'.bound[g] # 0
  <2>1. g = i => ~InHost(g) /\ phase[g] \notin {"prep", "checked"}
    BY <1>5 DEF InHost
  <2>2. g # i => reg'.mark[g] = r.mark[g] /\ reg'.bound[g] = r.bound[g]
    BY <1>4
  <2> QED
    BY <2>1, <2>2, <1>2 DEF RegistryFits, MarksOf
<1>8. BoundsOf(reg')
  BY <1>2, <1>4 DEF RegistryFits, BoundsOf
<1>9. i \in Owners \/ alone' = {}
  BY <1>1 DEF T!Alone
<1>10. alone' \in {alone, alone \cup {i}, {}} /\ (alone' = alone \cup {i} => i \in Owners)
  BY <1>1 DEF T!Alone
<1>11. i \in Owners /\ alone' # {} =>
        /\ \A j \in T!Inputs : r.mark[j] = "no"
        /\ r.live \subseteq Owners
        /\ \A j \in r.live : r.snap[j].owner /\ r.snap[j].verified
        /\ \A j \in T!Dispatching : j \in Owners /\ (phase[j] # "ready" => ~restr[j].is)
  <2> SUFFICES ASSUME i \in Owners, alone' # {}
               PROVE  /\ \A j \in T!Inputs : r.mark[j] = "no"
                      /\ r.live \subseteq Owners
                      /\ \A j \in r.live : r.snap[j].owner /\ r.snap[j].verified
                      /\ \A j \in T!Dispatching :
                           j \in Owners /\ (phase[j] # "ready" => ~restr[j].is)
    OBVIOUS
  <2>1. CASE ~T!Busy(0) /\ T!Dispatching = {}
    BY <2>1, <1>3
  <2>2. CASE ~(~T!Busy(0) /\ T!Dispatching = {})
    <3>1. alone # {}
      BY <2>2, <1>1 DEF T!Alone
    <3> QED
      BY <3>1, <1>2 DEF RegistryFits, RestOf, RestInv
  <2> QED
    BY <2>1, <2>2
<1>12. RestOf(reg)'
  BY <1>4, <1>9, <1>11 DEF RestOf
<1>13. phase' \in [T!Inputs -> Phases] /\ HostInv' /\ RegistryFits(reg)'
  <2>1. MarksOf(reg')
    BY <1>7 DEF MarksOf
  <2>2. "prep" \in Phases /\ phase[i] # "host"
    BY DEF Phases
  <2> QED
    BY <2>1, <2>2, <1>1, <1>4, <1>6, <1>8, <1>12, AdapterMove
<1>14. T!Restriction(r) \in Limits
  BY <1>2, RestrictionType DEF RegistryFits
<1>15. RecordsInv'
  BY <1>1, <1>13, <1>14 DEF RecordsInv, T!hostVars
<1>16. HoldInv'
  BY <1>1, HeldMove DEF Phases
<1>17. RestInv'
  <2>1. alone' \subseteq Owners
    BY <1>10 DEF RestInv
  <2>2. ASSUME alone' # {}, NEW j \in T!Dispatching'
        PROVE  j \in Owners /\ (phase'[j] # "ready" => ~restr'[j].is)
    <3>1. i \in Owners /\ \A k \in T!Inputs : r.mark[k] = "no"
      BY <2>2, <1>9, <1>11
    <3>2. j \in T!Inputs
      BY DEF T!Dispatching
    <3>3. CASE j = i
      <4>1. restr'[i] = T!Restriction(r)
        BY <1>1 DEF RecordsInv
      <4> QED
        BY <4>1, <3>1, <3>3, <1>2, RestrictionType DEF RegistryFits
    <3>4. CASE j # i
      <4>1. phase'[j] = phase[j] /\ restr'[j] = restr[j]
        BY <3>2, <3>4, <1>1 DEF RecordsInv
      <4>2. j \in T!Dispatching
        BY <4>1 DEF T!Dispatching
      <4> QED
        BY <4>1, <4>2, <2>2, <3>1, <1>11
    <3> QED
      BY <3>3, <3>4
  <2> QED
    BY <2>1, <2>2 DEF RestInv
<1> QED
  BY <1>13, <1>15, <1>16, <1>17

LEMMA DefersStep ==
  ASSUME T!AuthorityNames, AuthInv, NEW i \in T!Inputs \ Wakes, phase[i] = "none",
         phase' = [phase EXCEPT ![i] = "deferred"],
         UNCHANGED <<reg, restr, held, going, T!hostVars, alone, strayed>>
  PROVE  AuthInv'
<1> USE KindsApart DEF AuthInv
<1>1. phase' \in [T!Inputs -> Phases] /\ HostInv' /\ RegistryFits(reg)'
  <2>1. RestOf(reg)'
    BY DEF RegistryFits, RestOf
  <2> QED
    BY <2>1, AdapterMove DEF RegistryFits, Phases
<1>2. RecordsInv'
  BY <1>1 DEF RecordsInv, T!hostVars
<1>3. HoldInv'
  BY HeldMove DEF Phases
<1>4. RestInv'
  BY DEF RestInv, RecordsInv, T!Dispatching
<1> QED
  BY <1>1, <1>2, <1>3, <1>4

LEMMA HoldStep ==
  ASSUME T!AuthorityNames, AuthInv, NEW i \in Owners, phase[i] \in {"none", "prep"},
         T!Hold(i),
         UNCHANGED <<reg, restr, going, T!hostVars, alone, strayed>>
  PROVE  AuthInv'
<1> USE KindsApart DEF AuthInv
<1>1. phase' = [phase EXCEPT ![i] = "held"]
  BY DEF T!Hold
<1>2. phase' \in [T!Inputs -> Phases] /\ HostInv' /\ RegistryFits(reg)'
  <2>1. RestOf(reg)'
    BY DEF RegistryFits, RestOf
  <2> QED
    BY <1>1, <2>1, AdapterMove DEF RegistryFits, Phases
<1>3. RecordsInv'
  BY <1>2 DEF RecordsInv, T!hostVars
<1>4. HoldInv'
  BY HoldsOne
<1>5. RestInv'
  BY <1>1 DEF RestInv, RecordsInv, T!Dispatching
<1> QED
  BY <1>2, <1>3, <1>4, <1>5

LEMMA ArriveStep ==
  ASSUME T!AuthorityNames, AuthInv, NEW i \in T!Inputs, T!Arrive(i)
  PROVE  AuthInv'
<1>1. phase[i] = "none" /\ i \notin Wakes /\ UNCHANGED <<going, T!hostVars, strayed>>
  BY DEF T!Arrive, T!Come
<1>2. CASE i \in Receipts /\ T!Busy(0)
  BY <1>1, <1>2, DefersStep DEF T!Arrive
<1>3. CASE ~(i \in Receipts /\ T!Busy(0)) /\ T!MustHold(i)
  <2>1. i \in Owners
    BY <1>3 DEF T!MustHold
  <2> QED
    BY <1>1, <1>3, <2>1, HoldStep DEF T!Arrive
<1>4. CASE ~(i \in Receipts /\ T!Busy(0)) /\ ~T!MustHold(i)
  BY <1>1, <1>4, AdmitStep DEF T!Arrive
<1> QED
  BY <1>2, <1>3, <1>4

LEMMA LaterStep ==
  ASSUME T!AuthorityNames, AuthInv, NEW i \in T!Inputs, T!RetryGoes(i) \/ T!AdmitHeld(i)
  PROVE  AuthInv'
<1>1. /\ phase[i] \in {"deferred", "routed"} /\ T!Admit(i)
      /\ UNCHANGED <<held, going, T!hostVars, strayed>>
  BY DEF T!RetryGoes, T!AdmitHeld, T!holdVars
<1>2. i \notin Wakes
  BY <1>1 DEF AuthInv, HoldInv
<1> QED
  BY <1>1, <1>2, AdmitStep

LEMMA RecheckStep ==
  ASSUME T!AuthorityNames, AuthInv, NEW i \in T!Inputs, T!Recheck(i)
  PROVE  AuthInv'
<1> USE KindsApart
<1>1. /\ phase[i] = "prep" /\ i \notin Wakes
      /\ UNCHANGED <<restr, going, T!hostVars, calling, alone, strayed>>
  BY DEF T!Recheck, AuthInv, HoldInv
<1>2. CASE T!MustHold(i)
  <2>1. i \in Owners
    BY <1>2 DEF T!MustHold
  <2> QED
    BY <1>1, <1>2, <2>1, HoldStep DEF T!Recheck
<1>3. CASE ~T!MustHold(i)
  <2> USE DEF AuthInv
  <2>1. /\ phase' = [phase EXCEPT ![i] = "checked"] /\ UNCHANGED held
        /\ reg' = reg \/ reg' = T!AfterBusy(1)
    BY <1>3 DEF T!Recheck
  <2>2. RegistryFits(reg')
    <3>1. Tidied(T!AfterBusy(1))
      BY <1>1, TidiedSession
    <3> QED
      BY <2>1, <3>1, TidiedSame, TidiedFits
  <2>3. phase' \in [T!Inputs -> Phases] /\ HostInv' /\ RegistryFits(reg)'
    <3>1. RestOf(reg)'
      BY <1>1, <2>2 DEF RegistryFits, RestOf
    <3>2. i \in Guests => reg'.mark[i] = "open"
      BY <1>1, <2>2 DEF RegistryFits, MarksOf
    <3> QED
      BY <1>1, <2>1, <2>2, <3>1, <3>2, AdapterMove DEF RegistryFits, Phases
  <2>4. RecordsInv'
    BY <1>1, <2>3 DEF RecordsInv, T!hostVars
  <2>5. HoldInv'
    BY <1>1, <2>1, HeldMove DEF Phases
  <2>6. RestInv'
    BY <1>1, <2>1 DEF RestInv, RecordsInv, T!Dispatching
  <2> QED
    BY <2>3, <2>4, <2>5, <2>6
<1> QED
  BY <1>2, <1>3

\* A turn is registered: after its announcement, or for an event of the host.
LEMMA RegisteredStep ==
  ASSUME T!AuthorityNames, AuthInv, NEW i \in T!Inputs, NEW limit \in Limits,
         reg' = T!Registered(reg, i, limit), phase' = [phase EXCEPT ![i] = "ready"],
         \/ phase[i] = "checked" /\ limit = restr[i] /\ alone' = alone
         \/ phase[i] = "none" /\ i \in Wakes /\ alone' = {},
         restr' \in {restr, [restr EXCEPT ![i] = T!NoRestr]},
         UNCHANGED <<held, going, T!hostVars, strayed>>
  PROVE  AuthInv'
<1> USE KindsApart DEF AuthInv
<1>1. i \in Guests => reg.mark[i] = "open"
  BY DEF RegistryFits, MarksOf
<1>2. /\ IsReg(reg') /\ SnapsOf(reg') /\ reg'.live = reg.live \cup {i}
      /\ reg'.bound = reg.bound
      /\ reg'.mark = [reg.mark EXCEPT ![i] = IF @ = "open" THEN "named" ELSE @]
      /\ (i \in Owners /\ T!Marked(reg) = {} /\ ~limit.is /\ reg.live \subseteq Owners
              /\ \A j \in reg.live : reg.snap[j].owner /\ reg.snap[j].verified) =>
            \A j \in reg.live \cup {i} : reg'.snap[j].owner /\ reg'.snap[j].verified
  BY <1>1, RegisteredSnaps DEF RegistryFits
<1>3. \A j \in T!Inputs : reg'.mark[j] = IF j = i /\ reg.mark[j] = "open" THEN "named"
                                      ELSE reg.mark[j]
  BY <1>2 DEF RegistryFits, IsReg
<1>4. PresentOf(reg')
  BY <1>2 DEF RegistryFits, PresentOf
<1>5. i \notin run.inputs /\ i \notin pend
  BY DEF HostInv
<1>6. ASSUME NEW g \in Guests \ {i}
      PROVE  /\ phase[g] \in {"prep", "checked"} => reg'.mark[g] = "open"
             /\ InHost(g) => reg'.mark[g] = "named" \/ reg'.bound[g] # 0
  BY <1>2, <1>3 DEF RegistryFits, MarksOf
<1>7. BoundsOf(reg')
  BY <1>2 DEF RegistryFits, BoundsOf
<1>8. RestOf(reg)'
  <2> SUFFICES ASSUME alone' # {}
               PROVE  /\ \A j \in T!Inputs : reg'.mark[j] = "no"
                      /\ reg'.live \subseteq Owners
                      /\ \A j \in reg'.live : reg'.snap[j].owner /\ reg'.snap[j].verified
    BY DEF RestOf
  <2>1. alone # {} /\ phase[i] = "checked" /\ limit = restr[i]
    OBVIOUS
  <2>2. i \in Owners /\ ~limit.is
    BY <2>1 DEF RestInv, T!Dispatching
  <2>3. /\ \A j \in T!Inputs : reg.mark[j] = "no"
        /\ reg.live \subseteq Owners
        /\ \A j \in reg.live : reg.snap[j].owner /\ reg.snap[j].verified
    BY <2>1 DEF RegistryFits, RestOf
  <2>4. T!Marked(reg) = {}
    BY <2>3 DEF T!Marked
  <2> QED
    BY <2>2, <2>3, <2>4, <1>2, <1>3
<1>9. /\ phase' \in [T!Inputs -> Phases] /\ phase'[i] = "ready"
      /\ \A j \in T!Inputs \ {i} : phase'[j] = phase[j]
  BY DEF RecordsInv, Phases
<1>10. HostInv'
  BY <1>9 DEF HostInv, T!hostVars
<1>11. PresentOf(reg)'
  BY <1>2, <1>4, <1>9 DEF PresentOf, InHost, T!hostVars
<1>12. MarksOf(reg)'
  <2> SUFFICES ASSUME NEW g \in Guests
               PROVE  /\ phase'[g] \in {"prep", "checked"} => reg'.mark[g] = "open"
                      /\ InHost(g)' => reg'.mark[g] = "named" \/ reg'.bound[g] # 0
    BY DEF MarksOf
  <2>1. CASE g = i
    BY <2>1, <1>1, <1>3, <1>9
  <2>2. CASE g # i
    BY <2>2, <1>6, <1>9 DEF InHost, T!hostVars
  <2> QED
    BY <2>1, <2>2
<1>13. BoundsOf(reg)'
  <2>1. phase[i] # "host"
    OBVIOUS
  <2> QED
    BY <2>1, <1>7, <1>9 DEF BoundsOf, T!hostVars
<1>14. RegistryFits(reg)'
  BY <1>2, <1>8, <1>11, <1>12, <1>13 DEF RegistryFits
<1>15. RecordsInv'
  <2>1. T!NoRestr \in Limits
    BY DEF T!NoRestr, Limits, T!All
  <2> QED
    BY <1>9, <2>1 DEF RecordsInv, T!hostVars
<1>16. HoldInv'
  BY HeldMove DEF Phases
<1>17. RestInv'
  <2>1. alone' \subseteq Owners
    BY DEF RestInv
  <2>2. ASSUME alone' # {}, NEW j \in T!Dispatching'
        PROVE  j \in Owners /\ (phase'[j] # "ready" => ~restr'[j].is)
    <3>1. alone # {} /\ phase[i] = "checked" /\ j \in T!Inputs
      BY <2>2 DEF T!Dispatching
    <3>2. i \in T!Dispatching
      BY <3>1 DEF T!Dispatching
    <3>3. CASE j = i
      BY <3>1, <3>2, <3>3, <1>9 DEF RestInv
    <3>4. CASE j # i
      <4>1. phase'[j] = phase[j] /\ restr'[j] = restr[j]
        BY <3>1, <3>4, <1>9 DEF RecordsInv
      <4>2. j \in T!Dispatching
        BY <3>1, <4>1 DEF T!Dispatching
      <4> QED
        BY <3>1, <4>1, <4>2 DEF RestInv
    <3> QED
      BY <3>3, <3>4
  <2> QED
    BY <2>1, <2>2 DEF RestInv
<1> QED
  BY <1>10, <1>14, <1>15, <1>16, <1>17

LEMMA RegisterStep ==
  ASSUME T!AuthorityNames, AuthInv, NEW i \in T!Inputs, T!Register(i) \/ T!Wake(i)
  PROVE  AuthInv'
<1>1. CASE T!Register(i)
  <2>1. restr[i] \in Limits
    BY DEF AuthInv, RecordsInv
  <2> QED
    BY <1>1, <2>1, RegisteredStep DEF T!Register, T!holdVars
<1>2. CASE T!Wake(i)
  <2>1. T!NoRestr \in Limits
    BY DEF T!NoRestr, Limits, T!All
  <2> QED
    BY <1>2, <2>1, RegisteredStep DEF T!Wake, T!Come, T!holdVars
<1> QED
  BY <1>1, <1>2

\* An input ends without a turn of the host.
LEMMA EndsStep ==
  ASSUME T!AuthorityNames, AuthInv, NEW i \in T!Inputs, T!GiveUp(i) \/ T!Reject(i)
  PROVE  AuthInv'
<1> USE KindsApart DEF AuthInv
<1>1. /\ phase[i] \in {"prep", "checked", "ready"}
      /\ phase' = [phase EXCEPT ![i] = "done"]
      /\ restr' \in {restr, [restr EXCEPT ![i] = T!NoRestr]}
      /\ UNCHANGED <<held, going, T!hostVars, alone, strayed>>
      /\ reg' = reg \/ reg' = T!Released(reg, i)
  BY DEF T!GiveUp, T!Reject, T!holdVars
<1>2. /\ Drops(reg', reg) /\ reg.live \ {i} \subseteq reg'.live
      /\ \A j \in T!Inputs \ {i} :
           reg'.mark[j] = reg.mark[j] /\ reg'.bound[j] = reg.bound[j]
      /\ reg'.bound[i] \in {0, reg.bound[i]}
  <2>1. CASE reg' = reg
    BY <2>1 DEF RegistryFits, Drops
  <2>2. CASE reg' = T!Released(reg, i)
    BY <2>2, ReleasedTurn DEF RegistryFits
  <2> QED
    BY <1>1, <2>1, <2>2
<1>3. IsReg(reg') /\ SnapsOf(reg')
  BY <1>2, DroppedSnaps DEF RegistryFits, Drops
<1>4. /\ phase' \in [T!Inputs -> Phases] /\ phase'[i] = "done"
      /\ \A j \in T!Inputs \ {i} : phase'[j] = phase[j]
  BY <1>1 DEF RecordsInv, Phases
<1>5. HostInv'
  BY <1>1, <1>4 DEF HostInv, T!hostVars
<1>6. i \notin run.inputs /\ i \notin pend
  BY <1>1 DEF HostInv
<1>7. PresentOf(reg)'
  BY <1>1, <1>2, <1>4, <1>6 DEF RegistryFits, PresentOf, InHost, T!hostVars
<1>8. MarksOf(reg)'
  BY <1>1, <1>2, <1>4, <1>6 DEF RegistryFits, MarksOf, InHost, T!hostVars
<1>9. BoundsOf(reg)'
  <2>1. \A j \in T!Inputs : reg'.bound[j] = 0 \/ reg'.bound[j] = reg.bound[j]
    BY <1>2
  <2>2. \A j \in T!Inputs : reg.bound[j] \in Nat /\ run.turn \in Nat
    BY DEF RegistryFits, IsReg, RecordsInv
  <2> QED
    BY <1>1, <1>4, <2>1, <2>2 DEF RegistryFits, BoundsOf, T!hostVars
<1>10. RestOf(reg)'
  BY <1>1, <1>2 DEF RegistryFits, RestOf, Drops
<1>11. RecordsInv'
  <2>1. T!NoRestr \in Limits
    BY DEF T!NoRestr, Limits, T!All
  <2> QED
    BY <1>1, <1>4, <2>1 DEF RecordsInv, T!hostVars
<1>12. HoldInv'
  BY <1>1, HeldMove DEF Phases
<1>13. RestInv'
  <2>1. ASSUME NEW j \in T!Dispatching'
        PROVE  j \in T!Dispatching /\ phase'[j] = phase[j] /\ restr'[j] = restr[j]
    <3>1. j \in T!Inputs /\ j # i
      BY <1>4 DEF T!Dispatching
    <3> QED
      BY <3>1, <1>1, <1>4 DEF T!Dispatching, RecordsInv
  <2> QED
    BY <1>1, <2>1 DEF RestInv
<1> QED
  BY <1>3, <1>5, <1>7, <1>8, <1>9, <1>10, <1>11, <1>12, <1>13 DEF RegistryFits

\* The host takes an input: to run it, to merge it or to queue it.
LEMMA TakenStep ==
  ASSUME T!AuthorityNames, AuthInv, NEW i \in T!Inputs,
         T!Start(i) \/ T!Steer(i) \/ T!Queue(i)
  PROVE  AuthInv'
<1> USE KindsApart DEF AuthInv
<1>1. /\ phase[i] = "ready" /\ phase' = [phase EXCEPT ![i] = "host"]
      /\ UNCHANGED <<reg, restr, held, going, alone, strayed>>
  BY DEF T!Start, T!Steer, T!Queue, T!Taken, T!holdVars
<1>2. \/ /\ run.at = "idle" /\ pend = {} /\ pend' = pend /\ run.inputs = {}
         /\ run' = [at |-> "busy", ctx |-> i, turn |-> run.turn + 1, inputs |-> {i}]
      \/ /\ run.at = "busy" /\ pend' = pend
         /\ run' = [at |-> run.at, ctx |-> run.ctx, turn |-> run.turn,
                    inputs |-> run.inputs \cup {i}]
      \/ /\ run.at = "busy" /\ run' = run /\ pend' = pend \cup {i}
  <2>1. CASE T!Start(i)
    BY <2>1 DEF T!Start, T!HostBusy, HostInv, RecordsInv
  <2>2. CASE T!Steer(i)
    <3>1. run' = [run EXCEPT !.inputs = @ \cup {i}] /\ run.at = "busy" /\ pend' = pend
      BY <2>2 DEF T!Steer
    <3> QED
      BY <3>1 DEF RecordsInv
  <2>3. CASE T!Queue(i)
    BY <2>3 DEF T!Queue
  <2> QED
    BY <2>1, <2>2, <2>3
<1>3. /\ phase' \in [T!Inputs -> Phases] /\ phase'[i] = "host"
      /\ \A j \in T!Inputs \ {i} : phase'[j] = phase[j]
  BY <1>1 DEF RecordsInv, Phases
<1>4. RecordsInv'
  BY <1>1, <1>2, <1>3 DEF RecordsInv
<1>5. i \notin run.inputs /\ i \notin pend /\ (run.at = "busy" => i # run.ctx)
  BY <1>1 DEF HostInv
<1>6. HostInv'
  <2>1. run'.inputs \cup pend' \subseteq run.inputs \cup pend \cup {i}
    BY <1>2
  <2>2. run'.inputs \cup pend' \subseteq {j \in T!Inputs : phase'[j] = "host"}
    BY <2>1, <1>3 DEF HostInv
  <2>3. run'.inputs \cap pend' = {}
    BY <1>2, <1>5 DEF HostInv
  <2>4. run'.at = "busy" /\ run'.ctx \in T!Inputs /\ phase'[run'.ctx] = "host"
        /\ run'.ctx \notin pend' /\ run'.turn >= 1
    BY <1>2, <1>3, <1>5 DEF HostInv, RecordsInv
  <2> QED
    BY <2>2, <2>3, <2>4 DEF HostInv
<1>7. \A g \in T!Inputs : InHost(g)' => InHost(g)
  BY <1>1, <1>2, <1>3 DEF InHost
<1>8. PresentOf(reg)' /\ MarksOf(reg)'
  BY <1>1, <1>3, <1>7 DEF RegistryFits, PresentOf, MarksOf
<1>9. BoundsOf(reg)'
  <2>1. /\ run.turn \in Nat /\ run'.turn \in Nat /\ run.turn <= run'.turn
        /\ \A j \in T!Inputs : reg.bound[j] \in Nat
    BY <1>2 DEF RecordsInv, RegistryFits, IsReg
  <2>2. ~strayed => reg.bound[i] = 0
    BY <1>1 DEF RegistryFits, BoundsOf
  <2>3. ASSUME ~strayed, NEW j \in T!Inputs, reg.bound[j] # 0
        PROVE  phase'[j] = "host" /\ j \notin pend'
               /\ (j \in run'.inputs => reg.bound[j] = run'.turn)
    <3>1. j # i
      BY <2>2, <2>3
    <3>2. /\ phase[j] = "host" /\ j \notin pend
          /\ j \in run.inputs => reg.bound[j] = run.turn
      BY <2>3 DEF RegistryFits, BoundsOf
    <3> QED
      BY <3>1, <3>2, <1>2, <1>3
  <2>4. \A j \in T!Inputs : reg.bound[j] <= run'.turn
    BY <2>1 DEF RegistryFits, BoundsOf
  <2> QED
    BY <2>3, <2>4, <1>1 DEF RegistryFits, BoundsOf
<1>10. RestOf(reg)' /\ IsReg(reg)' /\ SnapsOf(reg)'
  BY <1>1 DEF RegistryFits, RestOf
<1>11. HoldInv'
  BY <1>1, HeldMove DEF Phases
<1>12. RestInv'
  <2>1. \A j \in T!Dispatching' : j \in T!Dispatching /\ phase'[j] = phase[j]
    BY <1>3 DEF T!Dispatching
  <2> QED
    BY <1>1, <2>1 DEF RestInv
<1> QED
  BY <1>4, <1>6, <1>8, <1>9, <1>10, <1>11, <1>12 DEF RegistryFits

LEMMA PreLlmCallStep ==
  ASSUME T!AuthorityNames, AuthInv, T!PreLlmCall
  PROVE  AuthInv'
<1> USE KindsApart DEF AuthInv
<1>1. /\ run.at = "busy" /\ reg' = T!BoundTo(reg, run.ctx, run.turn)
      /\ strayed' = (\/ strayed
                     \/ \E i \in T!Inputs \ run.inputs : reg'.bound[i] # reg.bound[i])
      /\ UNCHANGED <<phase, restr, held, going, run, pend, steer, alone>>
  BY DEF T!PreLlmCall, T!holdVars, T!hostVars
<1>2. run.ctx \in T!Inputs /\ run.turn \in Nat /\ run.turn >= 1
  BY <1>1 DEF HostInv, RecordsInv
<1>3. CASE reg' = reg
  <2>1. strayed' = strayed
    BY <1>1, <1>3 DEF RecordsInv
  <2> QED
    BY <1>1, <1>3, <2>1, AuthStutter DEF T!hostVars
<1>4. CASE reg' # reg
  <2>1. PICK x : Binds(reg', reg, run.turn, x)
    <3>1. IsReg(reg)
      BY DEF RegistryFits
    <3> QED
      BY <1>1, <1>2, <1>4, <3>1, BoundTurn
  <2>2. /\ \A j \in T!Inputs : reg.bound[j] # run.turn
        /\ Drops(reg', reg) /\ reg'.live = reg.live
        /\ \A j \in T!Inputs :
             /\ reg'.bound[j] = IF j = x THEN run.turn ELSE reg.bound[j]
             /\ j # x \/ reg.mark[j] # "named" => reg'.mark[j] = reg.mark[j]
    BY <2>1 DEF Binds
  <2>3. IsReg(reg') /\ SnapsOf(reg')
    BY <2>2, DroppedSnaps DEF RegistryFits, Drops
  <2>4. RecordsInv' /\ HostInv' /\ HoldInv' /\ RestInv'
    BY <1>1 DEF RecordsInv, HostInv, HoldInv, RestInv, T!Dispatching
  <2>5. PresentOf(reg)'
    BY <1>1, <2>2 DEF RegistryFits, PresentOf, InHost
  <2>6. MarksOf(reg)'
    <3> SUFFICES ASSUME NEW g \in Guests
                 PROVE  /\ phase[g] \in {"prep", "checked"} => reg'.mark[g] = "open"
                        /\ InHost(g) => reg'.mark[g] = "named" \/ reg'.bound[g] # 0
      BY <1>1 DEF MarksOf, InHost
    <3>1. CASE g = x
      <4>1. reg'.bound[g] # 0
        BY <3>1, <2>2, <1>2
      <4>2. phase[g] \in {"prep", "checked"} => reg'.mark[g] = "open"
        BY <2>2 DEF RegistryFits, MarksOf
      <4> QED
        BY <4>1, <4>2
    <3>2. CASE g # x
      BY <3>2, <2>2 DEF RegistryFits, MarksOf
    <3> QED
      BY <3>1, <3>2
  <2>7. BoundsOf(reg)'
    <3>1. \A i, j \in T!Inputs : reg'.bound[i] # 0 /\ reg'.bound[i] = reg'.bound[j] => i = j
      BY <1>2, <2>2, <2>2 DEF RegistryFits, BoundsOf
    <3>2. \A i \in T!Inputs : reg'.bound[i] <= run.turn
      BY <1>2, <2>2 DEF RegistryFits, BoundsOf
    <3>3. ASSUME ~strayed', NEW i \in T!Inputs, reg'.bound[i] # 0
          PROVE  phase[i] = "host" /\ i \notin pend
                 /\ (i \in run.inputs => reg'.bound[i] = run.turn)
      <4>1. CASE i = x
        <5>1. i \in run.inputs /\ reg'.bound[i] = run.turn
          BY <4>1, <3>3, <1>1, <2>2, <2>2
        <5> QED
          BY <5>1 DEF HostInv
      <4>2. CASE i # x
        BY <4>2, <3>3, <1>1, <2>2 DEF RegistryFits, BoundsOf
      <4> QED
        BY <4>1, <4>2
    <3> QED
      BY <3>1, <3>2, <3>3, <1>1 DEF BoundsOf
  <2>8. RestOf(reg)'
    BY <1>1, <2>2 DEF RegistryFits, RestOf, Drops
  <2> QED
    BY <2>3, <2>4, <2>5, <2>6, <2>7, <2>8 DEF RegistryFits
<1> QED
  BY <1>3, <1>4

\* A turn of the host ends, and with it the turn that was registered for it.
LEMMA TurnOverStep ==
  ASSUME T!AuthorityNames, AuthInv, T!TurnEnds \/ T!FollowUp \/ T!NextEvent
  PROVE  AuthInv'
<1> USE KindsApart DEF AuthInv
<1>1. /\ run.at = "busy" /\ pend' = {}
      /\ UNCHANGED <<phase, restr, held, going, alone, strayed>>
  BY DEF T!TurnEnds, T!FollowUp, T!NextEvent, T!holdVars
<1>2. /\ run.ctx \in T!Inputs /\ run.turn \in Nat /\ phase[run.ctx] = "host"
      /\ run.ctx \notin pend
  BY <1>1 DEF HostInv, RecordsInv
<1>3. \/ /\ reg' = T!Released(reg, run.ctx)
         /\ run' = [at |-> "idle", ctx |-> NoInput,
                    turn |-> run.turn, inputs |-> {}]
      \/ /\ reg' = T!Released(reg, run.ctx)
         /\ \E c \in pend :
              run' = [at |-> "busy", ctx |-> c,
                      turn |-> run.turn + 1, inputs |-> pend]
      \/ /\ reg' = reg
         /\ run' = [at |-> run.at, ctx |-> run.ctx, turn |-> run.turn + 1, inputs |-> pend]
  <2>1. CASE T!TurnEnds
    BY <2>1 DEF T!TurnEnds, T!Idle
  <2>2. CASE T!FollowUp
    <3>1. run' = [run EXCEPT !.turn = @ + 1, !.inputs = pend] /\ reg' = reg
      BY <2>2 DEF T!FollowUp
    <3> QED
      BY <3>1 DEF RecordsInv
  <2>3. CASE T!NextEvent
    BY <2>3 DEF T!NextEvent
  <2> QED
    BY <2>1, <2>2, <2>3
<1>4. /\ run'.inputs \subseteq pend
      /\ run'.turn \in Nat /\ run.turn <= run'.turn
      /\ run'.at \in {"idle", "busy"}
      /\ run' = [at |-> run'.at, ctx |-> run'.ctx,
                 turn |-> run'.turn, inputs |-> run'.inputs]
      /\ run'.at = "busy" =>
           run'.ctx \in pend \cup {run.ctx} /\ run'.turn >= 1
      /\ run'.at = "idle" => run'.inputs = {}
  BY <1>1, <1>2, <1>3
<1>5. RecordsInv'
  BY <1>1, <1>4 DEF RecordsInv
<1>6. HostInv'
  BY <1>1, <1>2, <1>4 DEF HostInv
<1>7. /\ Drops(reg', reg) /\ reg.live \ {run.ctx} \subseteq reg'.live
      /\ \A j \in T!Inputs \ {run.ctx} :
           reg'.mark[j] = reg.mark[j] /\ reg'.bound[j] = reg.bound[j]
      /\ reg'.bound[run.ctx] = 0 \/ reg'.bound[run.ctx] = reg.bound[run.ctx]
  <2>1. CASE reg' = reg
    BY <2>1 DEF RegistryFits, Drops
  <2>2. CASE reg' = T!Released(reg, run.ctx)
    BY <2>2, <1>2, ReleasedTurn DEF RegistryFits
  <2> QED
    BY <1>3, <2>1, <2>2
<1>8. IsReg(reg') /\ SnapsOf(reg')
  BY <1>7, DroppedSnaps DEF RegistryFits, Drops
<1>9. \A g \in T!Inputs : /\ InHost(g)' => InHost(g) /\ g # run.ctx
                          /\ phase[g] \in {"ready", "prep", "checked"} => g # run.ctx
  BY <1>1, <1>2, <1>4 DEF InHost
<1>10. PresentOf(reg)'
  BY <1>1, <1>7, <1>9 DEF RegistryFits, PresentOf
<1>11. MarksOf(reg)'
  BY <1>1, <1>7, <1>9 DEF RegistryFits, MarksOf
<1>12. BoundsOf(reg)'
  <2>1. \A j \in T!Inputs : reg'.bound[j] = 0 \/ reg'.bound[j] = reg.bound[j]
    BY <1>7
  <2>2. \A j \in T!Inputs : reg.bound[j] \in Nat
    BY DEF RegistryFits, IsReg
  <2>3. \A i, j \in T!Inputs : reg'.bound[i] # 0 /\ reg'.bound[i] = reg'.bound[j] => i = j
    BY <2>1 DEF RegistryFits, BoundsOf
  <2>4. \A i \in T!Inputs : reg'.bound[i] <= run'.turn
    BY <2>1, <2>2, <1>2, <1>4 DEF RegistryFits, BoundsOf
  <2>5. ~strayed => \A i \in T!Inputs :
          reg'.bound[i] # 0 => phase[i] = "host" /\ i \notin pend
    BY <2>1 DEF RegistryFits, BoundsOf
  <2> QED
    BY <1>1, <1>4, <2>3, <2>4, <2>5 DEF BoundsOf
<1>13. RestOf(reg)'
  BY <1>1, <1>7 DEF RegistryFits, RestOf, Drops
<1>14. HoldInv' /\ RestInv'
  BY <1>1 DEF HoldInv, RestInv, T!Dispatching
<1> QED
  BY <1>5, <1>6, <1>8, <1>10, <1>11, <1>12, <1>13, <1>14 DEF RegistryFits

LEMMA AuthStep ==
  ASSUME T!AuthorityNames, AuthInv, T!Next
  PROVE  AuthInv'
<1>1. ASSUME NEW i \in T!Inputs,
             \/ T!Arrive(i) \/ T!Wake(i) \/ T!GiveUp(i) \/ T!Steer(i) \/ T!Reject(i)
             \/ T!AdapterStep(i)
      PROVE  AuthInv'
  <2>1. ASSUME T!Arrive(i)
        PROVE  AuthInv'
    BY <2>1, ArriveStep
  <2>2. ASSUME T!Wake(i) \/ T!Register(i)
        PROVE  AuthInv'
    BY <2>2, RegisterStep
  <2>3. ASSUME T!GiveUp(i) \/ T!Reject(i)
        PROVE  AuthInv'
    BY <2>3, EndsStep
  <2>4. ASSUME T!Start(i) \/ T!Steer(i) \/ T!Queue(i)
        PROVE  AuthInv'
    BY <2>4, TakenStep
  <2>5. ASSUME T!RetryGoes(i) \/ T!AdmitHeld(i)
        PROVE  AuthInv'
    BY <2>5, LaterStep
  <2>6. ASSUME T!Recheck(i)
        PROVE  AuthInv'
    BY <2>6, RecheckStep
  <2> QED
    BY <1>1, <2>1, <2>2, <2>3, <2>4, <2>5, <2>6 DEF T!AdapterStep
<1>2. ASSUME T!HeldDone \/ T!CheckCall \/ T!RunHandler
      PROVE  AuthInv'
  <2>1. /\ UNCHANGED <<reg, phase, restr, held, T!hostVars, alone, strayed>>
        /\ going' \in {going, NoInput}
    BY <1>2 DEF T!HeldDone, T!CheckCall, T!RunHandler, T!holdVars
  <2> QED
    BY <2>1, AuthStutter
<1>3. ASSUME T!HeldGoes
      PROVE  AuthInv'
  BY <1>3, HeldGoesStep
<1>4. ASSUME T!PreLlmCall
      PROVE  AuthInv'
  BY <1>4, PreLlmCallStep
<1>5. ASSUME T!TurnEnds \/ T!FollowUp \/ T!NextEvent
      PROVE  AuthInv'
  BY <1>5, TurnOverStep
<1> QED
  BY <1>1, <1>2, <1>3, <1>4, <1>5 DEF T!Next

\* A guest's input in the running turn restricts whatever the turn is judged by:
\* it is still announced, or the turn is bound to that very input.
LEMMA GuestRestricts ==
  ASSUME T!AuthorityNames, AuthInv, ~strayed, T!Judged # NoInput,
         NEW g \in Guests, g \in run.inputs
  PROVE  Restricted(reg.snap[T!Judged], g)
<1> USE KindsApart DEF AuthInv, RegistryFits
<1> DEFINE those == {j \in reg.live : reg.bound[j] = run.turn}
           t == CHOOSE j \in those : TRUE
<1>1. those # {} /\ T!Judged = t
  BY DEF T!Judged, T!Lookup
<1>2. t \in reg.live /\ reg.bound[t] = run.turn /\ t \in T!Inputs
  BY <1>1 DEF IsReg
<1> HIDE DEF those, t
<1>3. g \in reg.live
  BY DEF PresentOf, InHost
<1>4. CASE reg.mark[g] = "named"
  BY <1>1, <1>2, <1>4 DEF SnapsOf
<1>5. CASE reg.mark[g] # "named"
  <2>1. reg.bound[g] # 0
    BY <1>5 DEF MarksOf, InHost
  <2>2. reg.bound[g] = run.turn
    BY <2>1 DEF BoundsOf
  <2>3. g = t
    BY <2>1, <2>2, <1>2 DEF BoundsOf
  <2> QED
    BY <2>3, <1>1, <1>3 DEF SnapsOf
<1> QED
  BY <1>4, <1>5

LEMMA AuthHolds ==
  ASSUME T!AuthorityNames
  PROVE  T!Spec => []AuthInv
<1>1. T!Init => AuthInv
  BY AuthInit
<1>2. AuthInv /\ [T!Next]_T!vars => AuthInv'
  <2> SUFFICES ASSUME AuthInv, [T!Next]_T!vars
               PROVE  AuthInv'
    OBVIOUS
  <2>1. CASE T!Next
    BY <2>1, AuthStep
  <2>2. CASE UNCHANGED T!vars
    BY <2>2, AuthStutter DEF T!vars, T!holdVars
  <2> QED
    BY <2>1, <2>2
<1> QED
  BY <1>1, <1>2, PTL DEF T!Spec

\* A turn is never judged with authority a guest's words run under: whatever the
\* host merges or queues, and in whatever order inputs come and are registered.
THEOREM NothingBorrowed ==
  ASSUME T!AuthorityNames
  PROVE  T!Spec => []T!NoBorrowedAuthority
<1>1. AuthInv => T!NoBorrowedAuthority
  <2> SUFFICES ASSUME AuthInv, T!Judged # NoInput, ~strayed
               PROVE  /\ run.inputs \cap Guests # {} =>
                           /\ ~T!MayOrchestrate(reg.snap[T!Judged])
                           /\ ~reg.snap[T!Judged].verified
                      /\ \A g \in run.inputs \cap Guests :
                           reg.snap[T!Judged].grants \subseteq T!Has(g)
    BY DEF T!NoBorrowedAuthority
  <2> QED
    BY GuestRestricts DEF Restricted
<1> QED
  BY <1>1, AuthHolds, PTL

\* A message of the owner that arrives at rest is registered with the owner's
\* authority, whatever guests announced before and never saw to its end.
THEOREM RestIsOwners ==
  ASSUME T!AuthorityNames
  PROVE  T!Spec => []T!OwnerAtRest
<1>1. AuthInv => T!OwnerAtRest
  <2> SUFFICES ASSUME AuthInv, NEW i \in alone, phase[i] = "ready"
               PROVE  reg.snap[i].owner /\ reg.snap[i].verified
    BY DEF T!OwnerAtRest
  <2>1. i \in T!Inputs \ Wakes
    BY KindsApart DEF AuthInv, RestInv
  <2> QED
    BY <2>1 DEF AuthInv, RegistryFits, PresentOf, RestOf
<1> QED
  BY <1>1, AuthHolds, PTL

\* What the hook allowed is withdrawn by a guest's input that came before the
\* handler of the orchestration runs.
THEOREM ChecksAreFresh ==
  ASSUME T!AuthorityNames
  PROVE  T!Spec => T!NoStaleCheck
<1>1. AuthInv /\ [T!Next]_T!vars => [T!NoStaleCheckStep]_T!vars
  <2> SUFFICES ASSUME AuthInv, T!Next, calling.at = "checked", calling'.at = "done"
               PROVE  /\ T!MayOrchestrate(reg.snap[calling.by])
                      /\ (T!Judged = calling.by /\ ~strayed) => run.inputs \cap Guests = {}
    BY DEF T!NoStaleCheckStep
  <2>1. T!RunHandler
    <3>1. calling' # calling
      OBVIOUS
    <3>2. ASSUME NEW i \in T!Inputs,
                 \/ T!Arrive(i) \/ T!Wake(i) \/ T!GiveUp(i) \/ T!Steer(i) \/ T!Reject(i)
                 \/ T!AdapterStep(i)
          PROVE  calling' = calling
      BY <3>2 DEF T!Arrive, T!Wake, T!GiveUp, T!Steer, T!Reject, T!AdapterStep,
         T!RetryGoes, T!AdmitHeld, T!Recheck, T!Register, T!Start, T!Queue
    <3>3. ASSUME \/ T!HeldGoes \/ T!HeldDone \/ T!PreLlmCall
                 \/ T!TurnEnds \/ T!FollowUp \/ T!NextEvent
          PROVE  calling' = calling
      BY <3>3 DEF T!HeldGoes, T!HeldDone, T!PreLlmCall, T!TurnEnds, T!FollowUp, T!NextEvent
    <3>4. ~T!CheckCall
      BY DEF T!CheckCall
    <3> QED
      BY <3>1, <3>2, <3>3, <3>4 DEF T!Next
  <2>2. calling.by \in reg.live /\ T!MayOrchestrate(reg.snap[calling.by])
    BY <2>1 DEF T!RunHandler, T!HandlerMay, T!NoCall
  <2>3. ASSUME T!Judged = calling.by, ~strayed, NEW g \in run.inputs \cap Guests
        PROVE  FALSE
    <3>1. T!Judged # NoInput
      BY <2>2, <2>3, KindsApart DEF AuthInv, RegistryFits, IsReg
    <3> QED
      BY <2>2, <2>3, <3>1, GuestRestricts DEF Restricted
  <2> QED
    BY <2>2, <2>3
<1> QED
  BY <1>1, AuthHolds, PTL DEF T!Spec, T!NoStaleCheck
=============================================================================
