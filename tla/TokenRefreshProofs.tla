------------------------- MODULE TokenRefreshProofs -------------------------
(***************************************************************************)
(* TokenRefresh for every set of tasks and every bound.                    *)
(*                                                                         *)
(* Memory never runs ahead of the store because a rotation reaches a task  *)
(* only as a success, and a success is reported only after the write       *)
(* (Stored).  The row is changed only by the outcome of a request that     *)
(* compares it with the pair its callbacks are bound to.  What is logged   *)
(* out was refused, or a task tied it to the refresh of another pair: the  *)
(* markers and the outcomes name no other pair (RInv, below).              *)
(***************************************************************************)
EXTENDS TokenRefresh, TLAPS

Gateways == [cfg : MaybePair, memMark : MaybePair, rejected : MaybePair, pend : MaybePair,
             latch : MaybePair, last : MaybePair, finishing : MaybePair,
             suspended : BOOLEAN, failures : 0..ReadLimit]
Flights == [pc : {"none", "queued", "wire", "answered", "marked", "notifying"},
            pair : MaybePair, bound : MaybePair,
            answer : {"none", "rotated", "refused", "transient"}, new : MaybePair,
            owner : Callers \cup {NoCaller}]
Tasks == [pc : {"idle", "asked", "waiting", "success", "permanent"},
          pair : MaybePair, new : MaybePair]

\* What the gateway may have in memory: a pair the row has had, and a pending
\* refusal only of that pair during a suspension.
GoodMemory(g) ==
  /\ g \in Gateways
  /\ g.pend # NoPair => g.suspended /\ g.pend = g.cfg
  /\ g.cfg \in written \cup {NoPair}

\* A flight is for a real pair, and so is the rotation it brings back.
GoodFlight ==
  /\ flight \in Flights
  /\ flight.pc # "none" => flight.pair \in Pairs
  /\ flight.answer = "rotated" => flight.new \in Pairs

GoodCallers ==
  /\ caller \in [Callers -> Tasks]
  /\ \A c \in Callers :
       /\ caller[c].pc = "asked" => caller[c].pair \in Pairs
       /\ caller[c].pc = "waiting" => flight.pc # "none"
       /\ caller[c].pc = "success" => caller[c].new \in written

Stored == row \in written \cup {NoPair} /\ written \subseteq Pairs

GoodServer ==
  /\ acts \in 0..Acts /\ tip \in [1..Acts -> 0..MaxRotations] /\ dead \subseteq 1..Acts
  /\ refused \subseteq Pairs

GoodMarks ==
  /\ dbMark \in MaybePair /\ known \subseteq Pairs /\ strays \subseteq Pairs
  /\ mishaps \in 0..MaxMishaps

Inv ==
  /\ GoodMemory(gw) /\ GoodFlight /\ GoodCallers /\ Stored /\ GoodServer /\ GoodMarks

-----------------------------------------------------------------------------
\* Fields that say nothing of the pair in use may be set to any pair.
LEMMA MarkedMemory ==
  ASSUME NEW g, GoodMemory(g), NEW p \in MaybePair
  PROVE  /\ GoodMemory([g EXCEPT !.memMark = p])
         /\ GoodMemory([g EXCEPT !.latch = p])
         /\ GoodMemory([g EXCEPT !.last = p])
         /\ GoodMemory([g EXCEPT !.finishing = p])
  BY DEF GoodMemory, Gateways

\* What the connection does to its memory leaves it good.
LEMMA MemoryKept ==
  ASSUME GoodMemory(gw), Stored
  PROVE  /\ GoodMemory(Forgotten) /\ GoodMemory(ReadOk) /\ ReadOk.cfg = gw.cfg
         /\ \A b \in BOOLEAN : GoodMemory(ReadRaised(b)) /\ ReadRaised(b).cfg = gw.cfg
         /\ \A q \in written : GoodMemory(Applied(q))
<1>a. NoPair \in MaybePair /\ NoPair \notin Pairs /\ ReadLimit \in Nat \ {0} /\ 0 \in 0..ReadLimit
  BY RefreshAssumption DEF MaybePair
<1>b. gw \in Gateways
  BY DEF GoodMemory
<1>1. GoodMemory(Forgotten)
  BY <1>a, <1>b DEF GoodMemory, Forgotten, Gateways
<1>2. GoodMemory(ReadOk) /\ ReadOk.cfg = gw.cfg
  BY <1>a, <1>b DEF GoodMemory, ReadOk, Gateways
<1>3. ASSUME NEW b \in BOOLEAN
      PROVE  GoodMemory(ReadRaised(b)) /\ ReadRaised(b).cfg = gw.cfg
  <2>1. CASE AtLimit
    <3>1. ReadRaised(b) = [gw EXCEPT !.failures = ReadLimit, !.suspended = TRUE,
                                     !.pend = IF b THEN gw.cfg ELSE gw.pend]
      BY <1>b, <2>1 DEF ReadRaised, Gateways
    <3>2. ReadLimit \in 0..ReadLimit
      BY <1>a
    <3> QED
      BY <1>b, <3>1, <3>2 DEF GoodMemory, Gateways
  <2>2. CASE ~AtLimit
    <3>1. ReadRaised(b) = [gw EXCEPT !.failures = gw.failures + 1]
      BY <1>b, <2>2 DEF ReadRaised, Gateways
    <3>2. gw.failures + 1 \in 0..ReadLimit
      BY <1>a, <1>b, <2>2 DEF AtLimit, Gateways
    <3> QED
      BY <1>b, <3>1, <3>2 DEF GoodMemory, Gateways
  <2> QED
    BY <2>1, <2>2
<1>4. ASSUME NEW q \in written PROVE GoodMemory(Applied(q))
  <2>1. q \in MaybePair
    BY DEF Stored, MaybePair
  <2> QED
    BY <1>a, <1>b, <2>1 DEF GoodMemory, Applied, Gateways
<1> QED
  BY <1>1, <1>2, <1>3, <1>4

\* A step of the loop that changes nothing but memory, the markers and the row.
LEMMA MemoryStep ==
  ASSUME Inv, GoodMemory(gw'),
         row' \in {row, NoPair}, dbMark' \in MaybePair, mishaps' \in 0..MaxMishaps,
         UNCHANGED <<flight, caller, server, written, known, strays>>
  PROVE  Inv'
<1>1. GoodMemory(gw)'
  BY DEF GoodMemory
<1>2. GoodFlight' /\ GoodCallers' /\ Stored' /\ GoodServer' /\ GoodMarks'
  BY DEF Inv, GoodFlight, GoodCallers, Stored, GoodServer, GoodMarks, server
<1> QED
  BY <1>1, <1>2 DEF Inv

\* The flight ends: nobody waits any more, and a success is a stored pair.
LEMMA FlightEnds ==
  ASSUME Inv, GoodMemory(gw'),
         \/ Ends
         \/ EndsAs("permanent", NoPair)
         \/ EndsAs("success", flight.new) /\ flight.new \in written',
         written \subseteq written', Stored',
         GoodServer', known' \subseteq Pairs, dbMark' \in MaybePair, mishaps' \in 0..MaxMishaps,
         UNCHANGED strays
  PROVE  Inv'
<1>a. NoPair \in MaybePair /\ NoPair \notin Pairs
  BY RefreshAssumption DEF MaybePair
<1>1. GoodMemory(gw)'
  BY DEF GoodMemory
<1>2. flight' = NoFlight
  BY DEF Ends, EndsAs
<1>3. GoodFlight'
  BY <1>a, <1>2 DEF GoodFlight, Flights, NoFlight
<1>4. /\ caller' \in [Callers -> Tasks]
      /\ \A c \in Callers :
           /\ caller[c].pc # "waiting" => caller'[c] = caller[c]
           /\ caller[c].pc = "waiting" =>
                \/ caller'[c].pc \in {"idle", "permanent"}
                \/ caller'[c].pc = "success" /\ caller'[c].new \in written'
  <2>1. caller \in [Callers -> Tasks]
    BY DEF Inv, GoodCallers
  <2>2. CASE Ends
    BY <1>a, <2>1, <2>2 DEF Ends, Idle, Tasks
  <2>3. ASSUME NEW o \in {"success", "permanent"}, NEW p \in MaybePair, EndsAs(o, p),
               o = "success" => p \in written'
        PROVE  <1>4!1 /\ <1>4!2
    <3>1. caller' = [c \in Callers |-> IF caller[c].pc = "waiting"
                                         THEN [caller[c] EXCEPT !.pc = o, !.new = p]
                                         ELSE caller[c]]
      BY <2>3 DEF EndsAs
    <3>2. ASSUME NEW c \in Callers
          PROVE  /\ caller'[c] \in Tasks
                 /\ caller[c].pc # "waiting" => caller'[c] = caller[c]
                 /\ caller[c].pc = "waiting" => caller'[c].pc = o /\ caller'[c].new = p
      <4>1. PICK t \in Tasks : t = caller[c]
        BY <2>1
      <4>2. caller'[c] = IF t.pc = "waiting" THEN [t EXCEPT !.pc = o, !.new = p] ELSE t
        BY <3>1, <4>1
      <4>3. caller'[c] \in Tasks
        BY <4>2 DEF Tasks
      <4>4. t.pc = "waiting" => caller'[c].pc = o /\ caller'[c].new = p
        BY <4>2 DEF Tasks
      <4> QED
        BY <4>1, <4>2, <4>3, <4>4
    <3>3. caller' \in [Callers -> Tasks]
      BY <3>1, <3>2
    <3> QED
      BY <2>3, <3>2, <3>3
  <2>4. flight.new \in MaybePair
    BY DEF Inv, GoodFlight, Flights
  <2> QED
    BY <1>a, <2>2, <2>3, <2>4
<1>5. GoodCallers'
  BY <1>4 DEF Inv, GoodCallers
<1>6. GoodMarks'
  BY DEF Inv, GoodMarks
<1> QED
  BY <1>1, <1>3, <1>5, <1>6 DEF Inv

-----------------------------------------------------------------------------
LEMMA InitInv == Init => Inv
<1> SUFFICES ASSUME Init PROVE Inv
  OBVIOUS
<1>a. /\ NoPair \in MaybePair /\ NoPair \notin Pairs /\ 0 \in 0..ReadLimit /\ 0 \in 0..Acts
      /\ 0 \in 0..MaxRotations /\ 0 \in 0..MaxMishaps
  BY RefreshAssumption DEF MaybePair
<1>1. GoodMemory(gw)
  BY <1>a DEF Init, Fresh, GoodMemory, Gateways
<1>2. GoodFlight
  BY <1>a DEF Init, NoFlight, GoodFlight, Flights
<1>3. GoodCallers
  BY <1>a DEF Init, Idle, GoodCallers, Tasks
<1>4. Stored /\ GoodServer /\ GoodMarks
  BY <1>a DEF Init, Stored, GoodServer, GoodMarks
<1> QED
  BY <1>1, <1>2, <1>3, <1>4 DEF Inv

\* A mishap stays within its bound, and so does a step without one.
LEMMA MishapsBounded ==
  ASSUME GoodMarks, Mishap \/ UNCHANGED mishaps
  PROVE  mishaps' \in 0..MaxMishaps
  BY RefreshAssumption DEF GoodMarks, Mishap

LEMMA PollInv ==
  ASSUME Inv, Poll \/ PollRaises
  PROVE  Inv'
<1>a. /\ GoodMemory(Forgotten) /\ GoodMemory(ReadOk) /\ ReadOk.cfg = gw.cfg
      /\ \A b \in BOOLEAN : GoodMemory(ReadRaised(b)) /\ ReadRaised(b).cfg = gw.cfg
      /\ \A q \in written : GoodMemory(Applied(q))
  BY MemoryKept DEF Inv
<1>b. /\ GoodMemory(gw) /\ gw \in Gateways /\ GoodMarks /\ dbMark \in MaybePair
      /\ NoPair \in MaybePair /\ NoPair \notin Pairs /\ row \in written \cup {NoPair}
  BY RefreshAssumption DEF Inv, GoodMemory, GoodMarks, MaybePair, Stored
<1>c. UNCHANGED mishaps => mishaps' \in 0..MaxMishaps
  BY <1>b DEF GoodMarks
<1>1. CASE PollRaises
  <2>1. GoodMemory(gw') /\ mishaps' \in 0..MaxMishaps
    BY <1>1, <1>a, <1>b, MishapsBounded DEF PollRaises, Polling
  <2> QED
    BY <1>1, <1>b, <2>1, MemoryStep DEF PollRaises
<1>2. CASE PollDeleted \/ DropUnusable
  <2>1. gw' = Forgotten
    BY <1>2 DEF PollDeleted, DropUnusable, Polling
  <2> QED
    BY <1>2, <1>a, <1>b, <1>c, <2>1, MemoryStep DEF PollDeleted, DropUnusable
<1>3. CASE PollChanged
  <2>1. GoodMemory(gw') /\ dbMark' \in MaybePair
    BY <1>3, <1>a, <1>b DEF PollChanged, Polling
  <2> QED
    BY <1>3, <1>c, <2>1, MemoryStep DEF PollChanged
<1>4. CASE PollSame
  <2>1. GoodMemory(gw')
    <3>1. ASSUME NEW g, GoodMemory(g), g.pend = NoPair
          PROVE  GoodMemory([g EXCEPT !.suspended = FALSE, !.latch = NoPair])
      BY <1>b, <3>1 DEF GoodMemory, Gateways
    <3>2. ReadOk.pend = gw.pend
      BY <1>b DEF ReadOk, Gateways
    <3> QED
      BY <1>4, <1>a, <3>1, <3>2 DEF PollSame
  <2> QED
    BY <1>4, <1>b, <1>c, <2>1, MemoryStep DEF PollSame, Polling
<1>5. CASE Load
  <2>1. GoodMemory(gw') /\ dbMark' \in MaybePair
    BY <1>5, <1>a, <1>b DEF Load
  <2>2. mishaps' \in 0..MaxMishaps
    BY <1>5, <1>b, MishapsBounded DEF Load, Usable
  <2> QED
    BY <1>5, <2>1, <2>2, MemoryStep DEF Load
<1>6. CASE FinishPending
  <2>1. GoodMemory(gw')
    <3>1. ASSUME NEW g, GoodMemory(g), NEW p \in MaybePair
          PROVE  GoodMemory([g EXCEPT !.memMark = p, !.finishing = p])
      BY <3>1 DEF GoodMemory, Gateways
    <3> QED
      BY <1>6, <1>a, <1>b, <3>1 DEF FinishPending, Gateways
  <2>2. row' \in {row, NoPair} /\ dbMark' \in MaybePair
    BY <1>6, <1>b DEF FinishPending, Writes, Polling, Gateways
  <2>3. mishaps' \in 0..MaxMishaps
    BY <1>6, <1>b, MishapsBounded DEF FinishPending, Writes
  <2> QED
    BY <1>6, <2>1, <2>2, <2>3, MemoryStep DEF FinishPending
<1>7. CASE FinishEnds
  <2>1. GoodMemory(gw')
    <3>1. ASSUME NEW g, GoodMemory(g), NEW p \in MaybePair
          PROVE  GoodMemory([g EXCEPT !.latch = p, !.finishing = NoPair])
      BY <1>b, <3>1 DEF GoodMemory, Gateways
    <3>2. gw.finishing \in MaybePair
      BY <1>b DEF Gateways
    <3> QED
      BY <1>7, <1>a, <1>b, <3>1, <3>2, MarkedMemory DEF FinishEnds
  <2> QED
    BY <1>7, <1>b, <1>c, <2>1, MemoryStep DEF FinishEnds
<1> QED
  BY <1>1, <1>2, <1>3, <1>4, <1>5, <1>6, <1>7 DEF Poll

-----------------------------------------------------------------------------
\* A task takes a step of its own: the flight is as it was or begins for its pair.
LEMMA TaskStep ==
  ASSUME Inv, NEW c \in Callers, NEW t \in Tasks, caller' = [caller EXCEPT ![c] = t],
         GoodMemory(gw'),
         t.pc = "asked" => t.pair \in Pairs,
         t.pc = "waiting" => flight'.pc # "none",
         t.pc # "success",
         \/ UNCHANGED flight
         \/ flight.pc = "none" /\ GoodFlight' /\ flight'.pc = "queued",
         strays' \subseteq Pairs, mishaps' \in 0..MaxMishaps,
         UNCHANGED <<row, dbMark, server, written, known>>
  PROVE  Inv'
<1>1. GoodMemory(gw)' /\ GoodFlight'
  BY DEF Inv, GoodMemory, GoodFlight
<1>2. /\ caller' \in [Callers -> Tasks] /\ caller'[c] = t
      /\ \A d \in Callers \ {c} : caller'[d] = caller[d]
  BY DEF Inv, GoodCallers
<1>3. GoodCallers'
  BY <1>2 DEF Inv, GoodCallers
<1>4. Stored' /\ GoodServer' /\ GoodMarks'
  BY DEF Inv, Stored, GoodServer, GoodMarks, server
<1> QED
  BY <1>1, <1>3, <1>4 DEF Inv

LEMMA TasksInv ==
  ASSUME Inv, NEW c \in Callers, Ask(c) \/ Starts(c) \/ Applies(c) \/ CancelsJoined(c)
  PROVE  Inv'
<1>a. /\ GoodMemory(Forgotten) /\ GoodMemory(ReadOk) /\ ReadOk.cfg = gw.cfg
      /\ \A b \in BOOLEAN : GoodMemory(ReadRaised(b)) /\ ReadRaised(b).cfg = gw.cfg
  BY MemoryKept DEF Inv
<1>b. /\ GoodMemory(gw) /\ gw \in Gateways /\ GoodMarks /\ gw.cfg \in written \cup {NoPair}
      /\ written \subseteq Pairs /\ NoPair \in MaybePair /\ Pairs \subseteq MaybePair
  BY DEF Inv, GoodMemory, MaybePair, Stored
<1>c. UNCHANGED mishaps => mishaps' \in 0..MaxMishaps
  BY <1>b DEF GoodMarks
<1>d. PICK u \in Tasks : u = caller[c]
  BY DEF Inv, GoodCallers
<1>e. /\ Idle \in Tasks /\ Idle.pc = "idle"
      /\ UNCHANGED strays => strays' \subseteq Pairs
  BY <1>b DEF Idle, Tasks, GoodMarks
<1>1. CASE Ask(c)
  <2> DEFINE t == [pc |-> "asked", pair |-> gw.cfg, new |-> NoPair]
  <2>1. t \in Tasks /\ t.pc = "asked" /\ t.pair = gw.cfg /\ gw.cfg \in Pairs
    BY <1>1, <1>b DEF Ask, Polling, Tasks
  <2>2. GoodMemory(gw') /\ gw'.cfg = gw.cfg
    BY <1>1, <1>a DEF Ask, Polling
  <2>3. mishaps' \in 0..MaxMishaps
    BY <1>1, <1>b, MishapsBounded DEF Ask
  <2>4. /\ caller' = [caller EXCEPT ![c] = t]
        /\ UNCHANGED <<row, dbMark, flight, server, written, known, strays>>
    BY <1>1 DEF Ask, Polling
  <2> HIDE DEF t
  <2> QED
    BY <1>e, <2>1, <2>2, <2>3, <2>4, TaskStep
<1>2. CASE Skipped(c) \/ CancelsJoined(c)
  <2>1. /\ caller' = [caller EXCEPT ![c] = Idle]
        /\ UNCHANGED <<row, dbMark, gw, flight, server, mishaps, written, known, strays>>
    BY <1>2 DEF Skipped, CancelsJoined
  <2> QED
    BY <1>b, <1>c, <1>e, <2>1, TaskStep
<1>3. CASE Joins(c)
  <2> DEFINE t == [u EXCEPT !.pc = "waiting"]
  <2>1. t \in Tasks /\ t.pc = "waiting"
    BY DEF Tasks
  <2>2. /\ caller' = [caller EXCEPT ![c] = t] /\ flight.pc # "none"
        /\ UNCHANGED <<row, dbMark, gw, flight, server, mishaps, written, known>>
    BY <1>3, <1>d DEF Joins
  <2>3. strays' \subseteq Pairs
    BY <1>3, <1>b, <1>d DEF Joins, Tied, Inv, GoodCallers, GoodMarks
  <2> HIDE DEF t
  <2> QED
    BY <1>b, <1>c, <2>1, <2>2, <2>3, TaskStep
<1>4. CASE Begins(c)
  <2> DEFINE t == [u EXCEPT !.pc = "waiting"]
  <2>1. t \in Tasks /\ t.pc = "waiting"
    BY DEF Tasks
  <2>2. u.pc = "asked" /\ u.pair \in Pairs /\ gw.cfg \in MaybePair
    BY <1>4, <1>b, <1>d DEF Begins, Inv, GoodCallers, Gateways
  <2>3. /\ GoodFlight' /\ flight'.pc = "queued"
        /\ flight'.pair = u.pair /\ flight'.bound = gw.cfg
    BY <1>4, <1>b, <1>d, <2>2 DEF Begins, NoFlight, GoodFlight, Flights
  <2>4. GoodMemory(gw') /\ gw'.cfg = gw.cfg
    <3>1. gw' = [gw EXCEPT !.last = u.pair] /\ u.pair \in MaybePair
      BY <1>4, <1>b, <1>d, <2>2 DEF Begins
    <3> QED
      BY <1>b, <3>1, MarkedMemory DEF Gateways
  <2>5. strays' \subseteq Pairs
    BY <1>4, <1>b, <2>2 DEF Begins, Tied, GoodMarks, MaybePair
  <2>6. /\ caller' = [caller EXCEPT ![c] = t] /\ flight.pc = "none"
        /\ UNCHANGED <<row, dbMark, server, mishaps, written, known>>
    BY <1>4, <1>d DEF Begins
  <2> HIDE DEF t
  <2> QED
    BY <1>c, <2>1, <2>3, <2>4, <2>5, <2>6, TaskStep
<1>5. CASE Swaps(c)
  <2>1. GoodMemory(gw')
    <3>1. caller[c].new \in written
      BY <1>5 DEF Swaps, Inv, GoodCallers
    <3>2. ASSUME NEW q \in written, ~gw.suspended
          PROVE  GoodMemory([gw EXCEPT !.cfg = q, !.rejected = NoPair])
      BY <1>b, <3>2 DEF GoodMemory, Gateways
    <3> QED
      BY <1>5, <1>b, <3>1, <3>2 DEF Swaps, Unchanged
  <2> QED
    BY <1>5, <1>c, <1>e, <2>1, TaskStep DEF Swaps
<1>6. CASE LogsOut(c)
  <2>1. GoodMemory(gw')
    BY <1>6, <1>a, <1>b DEF LogsOut
  <2>2. /\ caller' = [caller EXCEPT ![c] = Idle]
        /\ UNCHANGED <<row, dbMark, flight, server, mishaps, written, known, strays>>
    BY <1>6 DEF LogsOut
  <2> QED
    BY <1>c, <1>e, <2>1, <2>2, TaskStep
<1> QED
  BY <1>1, <1>2, <1>3, <1>4, <1>5, <1>6 DEF Starts, Applies

-----------------------------------------------------------------------------
\* A step of a flight that goes on.
LEMMA FlightStep ==
  ASSUME Inv, flight.pc # "none", GoodFlight', flight'.pc # "none",
         flight'.pair = flight.pair, flight'.bound = flight.bound,
         GoodMemory(gw'), gw'.cfg = gw.cfg,
         row' \in {row, NoPair}, GoodServer', GoodMarks',
         UNCHANGED <<caller, written>>
  PROVE  Inv'
<1>1. GoodMemory(gw)' /\ GoodCallers' /\ Stored'
  BY DEF Inv, GoodMemory, GoodCallers, Stored
<1> QED
  BY <1>1 DEF Inv

LEMMA RequestInv ==
  ASSUME Inv, Send \/ Answers
  PROVE  Inv'
<1>a. /\ GoodMemory(gw) /\ GoodMarks /\ GoodServer /\ flight \in Flights
      /\ NoPair \in MaybePair /\ NoPair \notin Pairs /\ Pairs \subseteq MaybePair
  BY RefreshAssumption DEF Inv, GoodFlight, MaybePair
<1>b. UNCHANGED <<row, dbMark, gw, caller, mishaps, written, known, strays>>
  BY DEF Send, Answers, Rotates, Redeems, Refuses, Fails, server
<1>c. flight.pc \in {"queued", "wire"} /\ flight.pair \in Pairs
  BY DEF Send, Answers, Rotates, Redeems, Refuses, Fails, Inv, GoodFlight
<1>d. /\ flight.pair.act \in 1..Acts /\ flight.pair.n \in 0..MaxRotations
      /\ tip \in [1..Acts -> 0..MaxRotations] /\ MaxRotations \in Nat
  BY <1>a, <1>c, RefreshAssumption DEF Pairs, GoodServer
<1>e. ASSUME NEW kind \in {"rotated", "refused", "transient"}, NEW q \in MaybePair,
             Answered(kind, q), kind = "rotated" => q \in Pairs
      PROVE  /\ GoodFlight' /\ flight'.pc = "answered"
             /\ flight'.pair = flight.pair /\ flight'.bound = flight.bound
  BY <1>a, <1>c, <1>e DEF Answered, GoodFlight, Flights
<1>f. ASSUME flight.pair.n + 1 \in 0..MaxRotations
      PROVE  NextOf(flight.pair) \in Pairs
  <2>1. PICK p \in Pairs : p = flight.pair
    BY <1>c
  <2>2. [p EXCEPT !.n = p.n + 1] \in Pairs
    BY <1>f, <2>1 DEF Pairs
  <2> QED
    BY <2>1, <2>2 DEF NextOf
<1>1. /\ GoodFlight' /\ flight'.pc # "none" /\ flight'.pc # "marked"
      /\ flight'.pair = flight.pair /\ flight'.bound = flight.bound
  <2>1. CASE Send
    <3>1. CASE Answered("transient", NoPair)
      BY <1>a, <1>e, <3>1
    <3>2. CASE flight' = [flight EXCEPT !.pc = "wire"]
      BY <1>a, <1>c, <3>2 DEF Inv, GoodFlight, Flights
    <3> QED
      BY <2>1, <3>1, <3>2 DEF Send
  <2>2. CASE Rotates \/ Redeems
    <3>1. flight.pair.n + 1 \in 0..MaxRotations
      BY <1>d, <2>2 DEF Rotates, Redeems, Current
    <3>2. NextOf(flight.pair) \in Pairs
      BY <1>f, <3>1
    <3>3. Answered("rotated", NextOf(flight.pair)) \/ Answered("transient", NoPair)
      BY <2>2 DEF Rotates, Redeems
    <3> QED
      BY <1>a, <1>e, <3>2, <3>3
  <2>3. CASE Refuses \/ Fails
    <3>1. Answered("refused", NoPair) \/ Answered("transient", NoPair)
      BY <2>3 DEF Refuses, Fails
    <3> QED
      BY <1>a, <1>e, <3>1
  <2> QED
    BY <2>1, <2>2, <2>3 DEF Answers
<1>2. GoodServer'
  <2>1. CASE Rotates
    <3>1. tip' \in [1..Acts -> 0..MaxRotations]
      BY <1>d, <2>1 DEF Rotates, Current, Rotated
    <3> QED
      BY <1>a, <2>1, <3>1 DEF Rotates, GoodServer
  <2>2. CASE Refuses
    BY <1>a, <1>c, <1>d, <2>2 DEF Refuses, GoodServer
  <2>3. CASE UNCHANGED server
    BY <1>a, <2>3 DEF GoodServer, server
  <2> QED
    BY <2>1, <2>2, <2>3 DEF Answers, Send, Redeems, Fails
<1>3. GoodMarks'
  BY <1>a, <1>b DEF GoodMarks
<1> QED
  BY <1>a, <1>b, <1>c, <1>1, <1>2, <1>3, FlightStep DEF GoodMemory

LEMMA SettlesInv ==
  ASSUME Inv, Settles
  PROVE  Inv'
<1>a. /\ GoodMemory(Forgotten) /\ GoodMemory(ReadOk) /\ ReadOk.cfg = gw.cfg
      /\ \A b \in BOOLEAN : GoodMemory(ReadRaised(b)) /\ ReadRaised(b).cfg = gw.cfg
  BY MemoryKept DEF Inv
<1>b. /\ GoodMemory(gw) /\ gw \in Gateways /\ GoodMarks /\ GoodFlight /\ flight \in Flights
      /\ dbMark \in MaybePair /\ known \subseteq Pairs /\ Stored /\ GoodServer
      /\ NoPair \in MaybePair /\ NoPair \notin Pairs /\ Pairs \subseteq MaybePair
  BY RefreshAssumption DEF Inv, GoodMemory, GoodFlight, GoodMarks, MaybePair
<1>c. UNCHANGED mishaps => mishaps' \in 0..MaxMishaps
  BY <1>b DEF GoodMarks
<1>d. UNCHANGED server => GoodServer'
  BY <1>b DEF GoodServer, server
<1>e. UNCHANGED <<row, written>> => Stored'
  BY <1>b DEF Stored
<1>f. ASSUME NEW b \in BOOLEAN, Mismatch(b)
      PROVE  GoodMemory(gw') /\ mishaps' \in 0..MaxMishaps
  BY <1>a, <1>b, <1>f, MishapsBounded DEF Mismatch
<1>g. ASSUME NEW g, GoodMemory(g), gw' = [g EXCEPT !.memMark = flight.pair]
      PROVE  GoodMemory(gw') /\ gw'.cfg = g.cfg
  <2>1. flight.pair \in MaybePair
    BY <1>b DEF Flights
  <2> QED
    BY <1>g, <2>1, MarkedMemory DEF GoodMemory, Gateways
<1>1. CASE Retries
  <2>1. GoodMemory(gw') /\ gw'.cfg = gw.cfg
    BY <1>1, <1>a DEF Retries
  <2>2. GoodFlight' /\ flight.pc = "answered" /\ flight'.pc = "queued"
        /\ flight'.pair = flight.pair /\ flight'.bound = flight.bound
    BY <1>1, <1>b DEF Retries, Lands, GoodFlight, Flights
  <2>3. GoodMarks'
    <3>1. mishaps' \in 0..MaxMishaps
      BY <1>1, <1>b, MishapsBounded DEF Retries
    <3> QED
      BY <1>1, <1>b, <3>1 DEF Retries, GoodMarks
  <2>4. UNCHANGED <<row, caller, server, written>>
    BY <1>1 DEF Retries
  <2> QED
    BY <1>d, <2>1, <2>2, <2>3, <2>4, FlightStep
<1>2. CASE GivesUpAsking
  <2>1. GoodMemory(gw') /\ mishaps' \in 0..MaxMishaps
    BY <1>2, <1>b, <1>c, <1>f DEF GivesUpAsking
  <2> QED
    BY <1>2, <1>b, <1>d, <1>e, <2>1, FlightEnds DEF GivesUpAsking, Lands
<1>3. CASE Stores
  <2>1. GoodMemory(gw')
    <3>1. ASSUME NEW g, GoodMemory(g) PROVE GoodMemory([g EXCEPT !.latch = NoPair])
      BY <1>b, <3>1, MarkedMemory
    <3> QED
      BY <1>3, <1>a, <3>1 DEF Stores, Lands
  <2>2. GoodMemory(gw') /\ flight.new \in Pairs /\ Stored' /\ flight.new \in written'
    BY <1>3, <1>b, <2>1 DEF Stores, Lands, GoodFlight, Stored
  <2> QED
    BY <1>3, <1>b, <1>c, <1>d, <2>1, <2>2, FlightEnds DEF Stores
<1>4. CASE StoreFails
  <2>1. GoodMemory(gw') /\ mishaps' \in 0..MaxMishaps
    BY <1>4, <1>a, <1>b, <1>c, <1>f, MishapsBounded DEF StoreFails
  <2>2. flight.new \in Pairs
    BY <1>4, <1>b DEF StoreFails, Lands, GoodFlight
  <2>3. Stored' /\ written \subseteq written'
    BY <1>4, <1>b, <1>e, <2>2 DEF StoreFails, Stored
  <2> QED
    BY <1>4, <1>b, <1>d, <2>1, <2>3, FlightEnds DEF StoreFails, Lands
<1>5. CASE Marks
  <2>1. GoodMemory(gw') /\ gw'.cfg = gw.cfg
    BY <1>5, <1>a, <1>g DEF Marks
  <2>2. /\ GoodFlight' /\ flight.pc = "answered" /\ flight'.pc = "marked"
        /\ flight'.pair = flight.pair /\ flight'.bound = flight.bound /\ flight.pair \in Pairs
    BY <1>5, <1>b DEF Marks, Lands, GoodFlight, Flights
  <2>3. GoodMarks'
    <3>1. mishaps' \in 0..MaxMishaps
      BY <1>5, <1>b, MishapsBounded DEF Marks, Writes
    <3>2. dbMark' \in MaybePair /\ known' \subseteq Pairs
      BY <1>5, <1>b, <2>2 DEF Marks, Writes
    <3> QED
      BY <1>5, <1>b, <3>1, <3>2 DEF Marks, GoodMarks
  <2>4. UNCHANGED <<row, caller, server, written>>
    BY <1>5 DEF Marks, Lands
  <2> QED
    BY <1>d, <2>1, <2>2, <2>3, <2>4, FlightStep
<1>6. CASE Discards
  <2>1. GoodMemory(gw') /\ mishaps' \in 0..MaxMishaps
    BY <1>6, <1>a, <1>b, <1>c, <1>f, MishapsBounded DEF Discards
  <2>2. known' \subseteq Pairs
    BY <1>6, <1>b, <2>1 DEF Discards, GoodMemory, Gateways, MaybePair
  <2> QED
    BY <1>6, <1>b, <1>d, <1>e, <2>1, <2>2, FlightEnds DEF Discards
<1>7. CASE Clears
  <2>1. GoodMemory(gw') /\ gw'.cfg = gw.cfg
    BY <1>7, <1>a DEF Clears
  <2>2. /\ GoodFlight' /\ flight.pc = "marked" /\ flight'.pc = "notifying"
        /\ flight'.pair = flight.pair /\ flight'.bound = flight.bound
    BY <1>7, <1>b DEF Clears, GoodFlight, Flights
  <2>3. GoodMarks'
    <3>1. mishaps' \in 0..MaxMishaps
      BY <1>7, <1>b, MishapsBounded DEF Clears, Writes
    <3> QED
      BY <1>7, <1>b, <3>1 DEF Clears, GoodMarks
  <2>4. row' \in {row, NoPair} /\ UNCHANGED <<caller, server, written>>
    BY <1>7 DEF Clears, Writes
  <2> QED
    BY <1>d, <2>1, <2>2, <2>3, <2>4, FlightStep
<1>8. CASE Notified
  <2>1. GoodMemory(gw')
    <3>1. flight.pair \in MaybePair
      BY <1>b DEF Flights
    <3> QED
      BY <1>8, <1>b, <3>1, MarkedMemory DEF Notified
  <2> QED
    BY <1>8, <1>b, <1>c, <1>d, <1>e, <2>1, FlightEnds DEF Notified
<1> QED
  BY <1>1, <1>2, <1>3, <1>4, <1>5, <1>6, <1>7, <1>8 DEF Settles

-----------------------------------------------------------------------------
\* An abandoned request may still be answered by the server.
LEMMA AbandonedServer ==
  ASSUME Inv, Abandons, UNCHANGED <<acts, dead, refused>>
  PROVE  GoodServer'
<1>1. tip \in [1..Acts -> 0..MaxRotations] /\ MaxRotations \in Nat
  BY RefreshAssumption DEF Inv, GoodServer
<1>2. ASSUME flight.pc # "none", Current(flight.pair)
      PROVE  Rotated(flight.pair) \in [1..Acts -> 0..MaxRotations]
  <2>1. flight.pair \in Pairs
    BY <1>2 DEF Inv, GoodFlight
  <2>2. flight.pair.n + 1 \in 0..MaxRotations
    BY <1>1, <1>2, <2>1 DEF Current, Pairs
  <2> QED
    BY <1>1, <2>2 DEF Rotated
<1>3. tip' \in [1..Acts -> 0..MaxRotations]
  BY <1>1, <1>2 DEF Abandons
<1> QED
  BY <1>3 DEF Inv, GoodServer

LEMMA OutsideInv ==
  ASSUME Inv, Activate \/ Delete \/ Crash
  PROVE  Inv'
<1>a. /\ GoodMemory(gw) /\ GoodFlight /\ GoodCallers /\ Stored /\ GoodServer /\ GoodMarks
      /\ NoPair \in MaybePair /\ NoPair \notin Pairs /\ 0 \in 0..MaxRotations /\ 0 \in 0..ReadLimit
  BY RefreshAssumption DEF Inv, MaybePair
<1>1. CASE Activate
  <2>1. acts' \in 1..Acts /\ acts' \in 0..Acts
    BY <1>1, <1>a, RefreshAssumption DEF Activate, GoodServer
  <2>2. row' \in Pairs /\ written' = written \cup {row'}
    BY <1>1, <1>a, <2>1 DEF Activate, Pairs
  <2>3. GoodMemory(gw)' /\ GoodFlight' /\ GoodCallers' /\ Stored'
    BY <1>1, <1>a, <2>2 DEF Activate, GoodMemory, GoodFlight, GoodCallers, Stored
  <2>4. GoodServer' /\ GoodMarks'
    BY <1>1, <1>a, <2>1 DEF Activate, GoodServer, GoodMarks
  <2> QED
    BY <2>3, <2>4 DEF Inv
<1>2. CASE Delete
  <2>1. GoodMemory(gw)' /\ GoodFlight' /\ GoodCallers' /\ Stored'
    BY <1>2, <1>a DEF Delete, GoodMemory, GoodFlight, GoodCallers, Stored
  <2>2. mishaps' \in 0..MaxMishaps
    BY <1>2, <1>a, MishapsBounded DEF Delete
  <2>3. GoodServer' /\ GoodMarks'
    BY <1>2, <1>a, <2>2 DEF Delete, server, GoodServer, GoodMarks
  <2> QED
    BY <2>1, <2>3 DEF Inv
<1>3. CASE Crash
  <2>1. GoodMemory(gw)' /\ GoodFlight'
    BY <1>3, <1>a DEF Crash, Fresh, NoFlight, GoodMemory, Gateways, GoodFlight, Flights
  <2>2. GoodCallers' /\ Stored'
    BY <1>3, <1>a DEF Crash, Idle, GoodCallers, Tasks, Stored
  <2>3. mishaps' \in 0..MaxMishaps
    BY <1>3, <1>a, MishapsBounded DEF Crash
  <2>4. GoodServer'
    BY <1>3, AbandonedServer DEF Crash
  <2>5. GoodMarks'
    BY <1>3, <1>a, <2>3 DEF Crash, GoodMarks
  <2> QED
    BY <2>1, <2>2, <2>4, <2>5 DEF Inv
<1> QED
  BY <1>1, <1>2, <1>3

LEMMA NextInv == Inv /\ [Next]_vars => Inv'
<1> SUFFICES ASSUME Inv, [Next]_vars PROVE Inv'
  OBVIOUS
<1>1. ASSUME NEW c \in Callers, CancelsOwner(c) PROVE Inv'
  <2>1. GoodServer'
    BY <1>1, AbandonedServer DEF CancelsOwner
  <2>2. /\ GoodMemory(gw') /\ Stored' /\ known' \subseteq Pairs
        /\ dbMark' \in MaybePair /\ mishaps' \in 0..MaxMishaps
    BY <1>1 DEF CancelsOwner, Inv, GoodMemory, Stored, GoodMarks
  <2> QED
    BY <1>1, <2>1, <2>2, FlightEnds DEF CancelsOwner
<1>2. CASE UNCHANGED vars
  <2>1. GoodMemory(gw)' /\ GoodFlight' /\ GoodCallers' /\ Stored'
    BY <1>2 DEF vars, Inv, GoodMemory, GoodFlight, GoodCallers, Stored
  <2>2. GoodServer' /\ GoodMarks'
    BY <1>2 DEF vars, Inv, GoodServer, GoodMarks
  <2> QED
    BY <2>1, <2>2 DEF Inv
<1> QED
  BY <1>1, <1>2, PollInv, RequestInv, SettlesInv, TasksInv, OutsideInv DEF Next

LEMMA InvTypes == Inv => TypeOK
<1> SUFFICES ASSUME Inv PROVE TypeOK
  OBVIOUS
<1>1. row \in MaybePair /\ written \subseteq Pairs
  BY RefreshAssumption DEF Inv, Stored, MaybePair
<1>2. gw \in Gateways /\ (gw.pend # NoPair => gw.suspended /\ gw.pend = gw.cfg)
  BY DEF Inv, GoodMemory
<1>3. /\ flight \in Flights /\ caller \in [Callers -> Tasks]
      /\ \A c \in Callers : caller[c].pc = "waiting" => flight.pc # "none"
  BY DEF Inv, GoodFlight, GoodCallers
<1> QED
  BY <1>1, <1>2, <1>3 DEF Inv, GoodServer, GoodMarks, TypeOK, Gateways, Flights, Tasks

-----------------------------------------------------------------------------
(***************************************************************************)
(* Logouts.  A refusal takes with it the pair it is about and, by the      *)
(* loop's gap between asking and the refresh's first step, the pairs tied  *)
(* to it: the one its callbacks are bound to, and those of the tasks that  *)
(* joined (FlightIsTied, WaitersAreTied).  So every marker, every pending  *)
(* refusal and every task told "permanent" names a pair that was refused   *)
(* or tied to another (MarksAreOver).                                      *)
(***************************************************************************)
Overs == refused \cup strays \cup {NoPair}

MarksAreOver == {dbMark, gw.memMark, gw.pend, gw.finishing} \subseteq Overs

\* A refusal is about the flight's pair, and while it is settled the pair in use
\* is the one the callbacks are bound to.
FlightIsTied ==
  /\ flight.pc # "none" => flight.bound \in strays \cup {flight.pair, NoPair}
  /\ flight.answer = "refused" => flight.pair \in refused
  /\ flight.pc \in {"marked", "notifying"} => flight.answer = "refused"
  /\ flight.pc = "marked" => gw.cfg = flight.bound

IsTied(c) ==
  /\ caller[c].pc = "waiting" => caller[c].pair \in strays \cup {flight.pair, NoPair}
  /\ caller[c].pc = "permanent" => caller[c].pair \in Overs
WaitersAreTied == \A c \in Callers : IsTied(c)

RInv == MarksAreOver /\ FlightIsTied /\ WaitersAreTied

LEMMA InvPairs ==
  ASSUME Inv
  PROVE  /\ written \subseteq Pairs /\ refused \subseteq Pairs /\ known \subseteq Pairs
         /\ gw.cfg \in written \cup {NoPair} /\ row \in written \cup {NoPair}
         /\ NoPair \notin Pairs /\ gw \in Gateways /\ flight \in Flights
         /\ caller \in [Callers -> Tasks]
         /\ gw.pend # NoPair => gw.suspended /\ gw.pend = gw.cfg
         /\ flight.pc # "none" => flight.pair \in Pairs
         /\ gw.cfg # NoPair => gw.cfg \in Pairs
  BY RefreshAssumption DEF Inv, Stored, GoodMemory, GoodServer, GoodMarks, GoodFlight, GoodCallers

-----------------------------------------------------------------------------
\* What memory keeps.
Same(g) == /\ g.cfg = gw.cfg /\ g.memMark = gw.memMark /\ g.rejected = gw.rejected
           /\ g.pend = gw.pend /\ g.finishing \in {gw.finishing, NoPair}
Gone(g) == /\ g.cfg = NoPair /\ g.memMark = gw.memMark /\ g.pend = NoPair
           /\ g.rejected = IF gw.cfg = NoPair THEN gw.rejected ELSE gw.cfg
           /\ g.finishing \in {gw.finishing, NoPair}

LEMMA MemoryFields ==
  ASSUME gw \in Gateways
  PROVE  /\ Same(gw) /\ Same(ReadOk) /\ Gone(Forgotten)
         /\ ReadOk.finishing = gw.finishing
         /\ \A b \in BOOLEAN :
              /\ ReadRaised(b).cfg = gw.cfg /\ ReadRaised(b).memMark = gw.memMark
              /\ ReadRaised(b).rejected = gw.rejected /\ ReadRaised(b).finishing = gw.finishing
              /\ ReadRaised(b).pend = IF AtLimit /\ b THEN gw.cfg ELSE gw.pend
         /\ \A p : LET g == Applied(p) IN
              /\ g.cfg = p /\ g.memMark = NoPair /\ g.pend = NoPair
              /\ g.finishing = gw.finishing
<1>1. Same(gw) /\ Same(ReadOk) /\ ReadOk.finishing = gw.finishing
  BY DEF Same, ReadOk, Gateways
<1>2. Gone(Forgotten)
  BY DEF Gone, Forgotten, Gateways
<1>3. ASSUME NEW b \in BOOLEAN
      PROVE  /\ ReadRaised(b).cfg = gw.cfg /\ ReadRaised(b).memMark = gw.memMark
             /\ ReadRaised(b).rejected = gw.rejected /\ ReadRaised(b).finishing = gw.finishing
             /\ ReadRaised(b).pend = IF AtLimit /\ b THEN gw.cfg ELSE gw.pend
  BY DEF ReadRaised, Gateways
<1>4. ASSUME NEW p
      PROVE  /\ Applied(p).cfg = p /\ Applied(p).memMark = NoPair /\ Applied(p).pend = NoPair
             /\ Applied(p).finishing = gw.finishing
  BY DEF Applied, Gateways
<1> QED
  BY <1>1, <1>2, <1>3, <1>4

LEMMA MismatchFields ==
  ASSUME gw \in Gateways, NEW b \in BOOLEAN, Mismatch(b)
  PROVE  \/ Same(gw') /\ gw'.finishing = gw.finishing
         \/ Gone(gw') /\ row = NoPair
         \/ /\ b /\ gw'.cfg = gw.cfg /\ gw'.memMark = gw.memMark /\ gw'.rejected = gw.rejected
            /\ gw'.pend = gw.cfg /\ gw'.finishing = gw.finishing
  BY MemoryFields DEF Mismatch, Same

\* Most steps keep what memory says of its pair, or forget the pair.
Quiet ==
  \/ PollRaises \/ PollDeleted \/ PollSame \/ DropUnusable \/ FinishEnds
  \/ PollChanged /\ gw' = Forgotten
  \/ Send \/ Answers \/ Retries \/ GivesUpAsking \/ Stores \/ StoreFails \/ Clears \/ Notified
  \/ \E c \in Callers : \/ Ask(c) \/ Starts(c) \/ LogsOut(c) \/ CancelsOwner(c)
                        \/ CancelsJoined(c)
                        \/ Swaps(c) /\ ~Unchanged(c)
  \/ Activate \/ Delete \/ UNCHANGED vars

LEMMA QuietMemory ==
  ASSUME Inv, Quiet
  PROVE  /\ Same(gw') \/ (Gone(gw') /\ row' = row)
         /\ UNCHANGED <<dbMark, known>>
         /\ refused \subseteq refused'
<1>a. gw \in Gateways
  BY InvPairs
<1>1. Same(gw') \/ (Gone(gw') /\ row' = row)
  <2>1. CASE PollRaises \/ PollDeleted \/ PollSame \/ DropUnusable \/ (PollChanged /\ gw' = Forgotten)
    <3>1. CASE PollSame
      <4>1. Same([ReadOk EXCEPT !.suspended = FALSE, !.latch = NoPair])
        BY <1>a DEF Same, ReadOk, Gateways
      <4> QED
        BY <1>a, <3>1, <4>1, MemoryFields DEF PollSame
    <3>2. CASE PollRaises
      BY <1>a, <3>2, MemoryFields DEF PollRaises, Same
    <3>3. CASE PollDeleted \/ DropUnusable \/ (PollChanged /\ gw' = Forgotten)
      BY <1>a, <3>3, MemoryFields DEF PollDeleted, DropUnusable, PollChanged
    <3> QED
      BY <2>1, <3>1, <3>2, <3>3
  <2>2. CASE FinishEnds
    <3>1. Gone([Forgotten EXCEPT !.latch = gw.finishing, !.finishing = NoPair])
      BY <1>a DEF Gone, Forgotten, Gateways
    <3>2. Same([gw EXCEPT !.finishing = NoPair])
      BY <1>a DEF Same, Gateways
    <3> QED
      BY <2>2, <3>1, <3>2 DEF FinishEnds
  <2>3. CASE Send \/ Answers \/ Activate \/ Delete \/ UNCHANGED vars
    BY <1>a, <2>3, MemoryFields DEF Send, Answers, Rotates, Redeems, Refuses, Fails, Activate,
                                    Delete, vars
  <2>4. CASE Retries \/ Clears
    BY <1>a, <2>4, MemoryFields DEF Retries, Clears, Same
  <2>5. CASE GivesUpAsking
    BY <1>a, <2>5, MemoryFields, MismatchFields DEF GivesUpAsking
  <2>6. CASE StoreFails
    BY <1>a, <2>6, MemoryFields, MismatchFields DEF StoreFails, Same
  <2>7. CASE Stores \/ Notified
    <3>1. Same([ReadOk EXCEPT !.latch = NoPair]) /\ Same([gw EXCEPT !.latch = flight.pair])
      BY <1>a DEF Same, ReadOk, Gateways
    <3> QED
      BY <2>7, <3>1 DEF Stores, Notified
  <2>8. ASSUME NEW c \in Callers,
               \/ Ask(c) \/ Starts(c) \/ LogsOut(c) \/ CancelsOwner(c) \/ CancelsJoined(c)
               \/ Swaps(c) /\ ~Unchanged(c)
        PROVE  Same(gw') \/ (Gone(gw') /\ row' = row)
    <3>1. CASE Ask(c)
      BY <1>a, <3>1, MemoryFields DEF Ask, Same
    <3>2. CASE Starts(c)
      <4>1. Same([gw EXCEPT !.last = caller[c].pair])
        BY <1>a DEF Same, Gateways
      <4> QED
        BY <1>a, <3>2, <4>1, MemoryFields DEF Starts, Skipped, Joins, Begins
    <3>3. CASE LogsOut(c) \/ CancelsOwner(c) \/ CancelsJoined(c) \/ (Swaps(c) /\ ~Unchanged(c))
      BY <1>a, <3>3, MemoryFields DEF LogsOut, CancelsOwner, CancelsJoined, Swaps
    <3> QED
      BY <2>8, <3>1, <3>2, <3>3
  <2> QED
    BY <2>1, <2>2, <2>3, <2>4, <2>5, <2>6, <2>7, <2>8 DEF Quiet
<1>2. UNCHANGED <<dbMark, known>> /\ refused \subseteq refused'
  <2>1. CASE \/ PollRaises \/ PollDeleted \/ PollSame \/ DropUnusable \/ FinishEnds
             \/ PollChanged /\ gw' = Forgotten
    <3>1. PollChanged /\ gw' = Forgotten => dbMark' = dbMark
      <4>1. ASSUME PollChanged, Applied(row) = Forgotten PROVE FALSE
        <5>1. row # NoPair /\ Applied(row).cfg = row /\ Forgotten.cfg = NoPair
          BY <1>a, <4>1, MemoryFields DEF PollChanged, Gone
        <5> QED
          BY <4>1, <5>1
      <4> QED
        BY <4>1 DEF PollChanged
    <3> QED
      BY <2>1, <3>1 DEF PollRaises, PollDeleted, PollSame, DropUnusable, FinishEnds, PollChanged,
                        server
  <2>2. CASE Send \/ Answers \/ Activate \/ Delete \/ UNCHANGED vars
    BY <2>2 DEF Send, Answers, Rotates, Redeems, Refuses, Fails, Activate, Delete, server, vars
  <2>3. CASE Retries \/ GivesUpAsking \/ Stores \/ StoreFails \/ Clears \/ Notified
    BY <2>3 DEF Retries, GivesUpAsking, Stores, StoreFails, Clears, Notified, server
  <2>4. ASSUME NEW c \in Callers,
               \/ Ask(c) \/ Starts(c) \/ LogsOut(c) \/ CancelsOwner(c) \/ CancelsJoined(c)
               \/ Swaps(c)
        PROVE  UNCHANGED <<dbMark, known>> /\ refused \subseteq refused'
    BY <2>4 DEF Ask, Starts, Skipped, Joins, Begins, LogsOut, CancelsOwner, CancelsJoined, Swaps,
                server
  <2> QED
    BY <2>1, <2>2, <2>3, <2>4 DEF Quiet
<1> QED
  BY <1>1, <1>2

\* The other steps.
Adopts == /\ LoopFree /\ row # NoPair /\ gw' = Applied(row) /\ dbMark' = NoPair
          /\ gw.cfg = NoPair => row # gw.rejected
          /\ gw.cfg # NoPair => row # gw.cfg
          /\ UNCHANGED <<row, flight, caller, server, written, known>>

LEMMA Kinds ==
  ASSUME Inv, [Next]_vars
  PROVE  \/ Quiet \/ Adopts \/ FinishPending \/ Marks \/ Discards \/ Crash
         \/ \E c \in Callers : Swaps(c) /\ Unchanged(c)
<1>1. PollChanged \/ Load => Adopts \/ Quiet
  BY DEF PollChanged, Load, Polling, Adopts, Quiet
<1> QED
  BY <1>1 DEF Next, Poll, Settles, Applies, Quiet

LEMMA MarksFields ==
  ASSUME Inv, Marks
  PROVE  /\ gw'.cfg = gw.cfg /\ gw'.memMark = flight.pair
         /\ gw'.pend = gw.pend /\ gw'.finishing = gw.finishing
         /\ gw.cfg = flight.bound /\ flight.answer = "refused"
         /\ dbMark' \in {dbMark, flight.pair}
<1>a. gw \in Gateways
  BY InvPairs
<1>1. \A g \in Gateways : \A p :
        LET h == [g EXCEPT !.memMark = p] IN
        /\ h.cfg = g.cfg /\ h.memMark = p /\ h.pend = g.pend /\ h.finishing = g.finishing
  BY DEF Gateways
<1>2. PICK g \in Gateways : /\ g.cfg = gw.cfg /\ g.pend = gw.pend /\ g.finishing = gw.finishing
                            /\ gw' = [g EXCEPT !.memMark = flight.pair]
  <2>1. ReadOk \in Gateways /\ ReadRaised(FALSE) \in Gateways
    BY MemoryKept DEF Inv, GoodMemory
  <2> QED
    BY <1>a, <2>1, MemoryFields DEF Marks, Same
<1> QED
  BY <1>1, <1>2 DEF Marks, Writes, Lands, Bound

\* What a discarded refusal leaves in memory.
LEMMA DiscardFields ==
  ASSUME Inv, RInv, Discards
  PROVE  /\ \/ Same(gw')
            \/ Gone(gw')
            \/ /\ gw'.cfg = gw.cfg /\ gw'.memMark = gw.memMark
               /\ gw'.pend = gw.cfg /\ gw.cfg \in Overs /\ gw'.finishing = gw.finishing
         /\ UNCHANGED <<row, dbMark, refused, strays>>
<1>a. gw \in Gateways
  BY InvPairs
<1>1. (Lands("refused") /\ Bound) \/ flight.pc = "marked" => gw.cfg \in Overs
  BY DEF Lands, Bound, RInv, FlightIsTied, Overs
<1>2. CASE UNCHANGED gw
  BY <1>a, <1>2, MemoryFields DEF Discards, server
<1>3. CASE Mismatch(TRUE) /\ gw.cfg \in Overs
  BY <1>a, <1>3, MismatchFields DEF Discards, server
<1>4. CASE gw' = ReadRaised(TRUE) /\ ~AtLimit
  BY <1>a, <1>4, MemoryFields DEF Same, Discards, server
<1> QED
  BY <1>1, <1>2, <1>3, <1>4 DEF Discards

LEMMA FinishFields ==
  ASSUME Inv, FinishPending
  PROVE  /\ gw'.cfg = gw.cfg /\ gw'.memMark = gw.cfg /\ gw'.pend = gw.cfg
         /\ gw'.finishing = gw.cfg
         /\ gw.pend = gw.cfg /\ gw.cfg = row /\ gw.cfg # NoPair
         /\ row' \in {row, NoPair} /\ dbMark' \in {dbMark, gw.cfg}
         /\ UNCHANGED <<flight, caller, refused, strays>>
<1>1. /\ gw'.cfg = gw.cfg /\ gw'.memMark = gw.pend /\ gw'.pend = gw.pend
      /\ gw'.finishing = gw.pend
  BY InvPairs DEF FinishPending, ReadOk, Gateways
<1> QED
  BY <1>1 DEF FinishPending, Polling, Writes, server

LEMMA SwapFields ==
  ASSUME Inv, NEW c \in Callers, Swaps(c), Unchanged(c)
  PROVE  /\ gw'.cfg \in written /\ gw'.memMark = gw.memMark
         /\ gw'.pend = gw.pend /\ gw'.finishing = gw.finishing
         /\ UNCHANGED <<row, dbMark, refused, strays>>
<1>1. caller[c].new \in written
  BY DEF Swaps, Inv, GoodCallers
<1>2. /\ gw'.cfg = caller[c].new /\ gw'.memMark = gw.memMark
      /\ gw'.pend = gw.pend /\ gw'.finishing = gw.finishing
  BY InvPairs DEF Swaps, Gateways
<1> QED
  BY <1>1, <1>2 DEF Swaps, server

\* A pair that was refused or tied to another stays so.
LEMMA OversKept ==
  ASSUME [Next]_vars
  PROVE  refused \subseteq refused' /\ strays \subseteq strays' /\ Overs \subseteq Overs'
<1>1. CASE Poll \/ PollRaises \/ Settles \/ Activate \/ Delete \/ Crash \/ UNCHANGED vars
  BY <1>1 DEF Poll, PollRaises, PollDeleted, PollChanged, PollSame, DropUnusable, Load, FinishPending,
              FinishEnds, Settles, Retries, GivesUpAsking, Stores, StoreFails, Marks, Discards,
              Clears, Notified, Activate, Delete, Crash, server, vars, Overs
<1>2. CASE Send \/ Answers
  BY <1>2 DEF Send, Answers, Rotates, Redeems, Refuses, Fails, server, Overs
<1>3. ASSUME NEW c \in Callers,
             Ask(c) \/ Starts(c) \/ Applies(c) \/ CancelsOwner(c) \/ CancelsJoined(c)
      PROVE  refused \subseteq refused' /\ strays \subseteq strays' /\ Overs \subseteq Overs'
  BY <1>3 DEF Ask, Starts, Skipped, Joins, Begins, Tied, Applies, Swaps, LogsOut, CancelsOwner,
              CancelsJoined, server, Overs
<1> QED
  BY <1>1, <1>2, <1>3 DEF Next

-----------------------------------------------------------------------------
LEMMA MarksKept ==
  ASSUME Inv, RInv, [Next]_vars
  PROVE  MarksAreOver'
<1>a. /\ dbMark \in Overs' /\ gw.memMark \in Overs' /\ gw.pend \in Overs'
      /\ gw.finishing \in Overs' /\ NoPair \in Overs' /\ (gw.cfg \in Overs => gw.cfg \in Overs')
  BY OversKept DEF RInv, MarksAreOver, Overs
<1>1. CASE Quiet
  BY <1>1, <1>a, QuietMemory DEF MarksAreOver, Same, Gone
<1>2. CASE Adopts
  BY <1>2, <1>a, InvPairs, MemoryFields DEF MarksAreOver, Adopts
<1>3. CASE FinishPending
  BY <1>3, <1>a, FinishFields DEF MarksAreOver
<1>4. CASE Marks
  <2>1. flight.pair \in Overs'
    BY <1>4, MarksFields, OversKept DEF RInv, FlightIsTied, Overs
  <2> QED
    BY <1>4, <1>a, <2>1, MarksFields DEF MarksAreOver
<1>5. CASE Discards
  BY <1>5, <1>a, DiscardFields DEF MarksAreOver, Same, Gone
<1>6. ASSUME NEW c \in Callers, Swaps(c), Unchanged(c) PROVE MarksAreOver'
  BY <1>6, <1>a, SwapFields DEF MarksAreOver
<1>7. CASE Crash
  BY <1>7, <1>a DEF MarksAreOver, Crash, Fresh
<1> QED
  BY <1>1, <1>2, <1>3, <1>4, <1>5, <1>6, <1>7, Kinds

-----------------------------------------------------------------------------
\* A flight keeps its pair and its binding, and only the server's answer makes it
\* a refusal.
LEMMA FlightKept ==
  ASSUME Inv, RInv, [Next]_vars
  PROVE  FlightIsTied'
<1>a. flight \in Flights /\ gw \in Gateways
  BY InvPairs
<1>b. refused \subseteq refused' /\ strays \subseteq strays'
  BY OversKept
<1>c. NoFlight.pc = "none" /\ NoFlight.answer = "none"
  BY DEF NoFlight
<1>1. ASSUME flight' = NoFlight PROVE FlightIsTied'
  BY <1>1, <1>c DEF FlightIsTied
<1>2. ASSUME UNCHANGED flight, flight.pc # "marked" \/ UNCHANGED gw PROVE FlightIsTied'
  BY <1>2, <1>b DEF RInv, FlightIsTied
<1>3. CASE Poll \/ PollRaises
  BY <1>2, <1>3 DEF Poll, PollRaises, PollDeleted, PollChanged, PollSame, DropUnusable, Load,
                    FinishPending, FinishEnds, Polling, LoopFree
<1>4. CASE Activate \/ Delete \/ UNCHANGED vars
  BY <1>2, <1>4 DEF Activate, Delete, vars
<1>5. CASE GivesUpAsking \/ Stores \/ StoreFails \/ Discards \/ Notified \/ Crash
  BY <1>1, <1>5 DEF GivesUpAsking, Stores, StoreFails, Discards, Notified, Crash, Ends, EndsAs
<1>6. CASE Send \/ Answers
  <2>1. flight.pc \in {"queued", "wire"}
    BY <1>6 DEF Send, Answers, Rotates, Redeems, Refuses, Fails
  <2>2. ASSUME NEW kind, NEW p, Answered(kind, p), kind = "refused" => flight.pair \in refused'
        PROVE  FlightIsTied'
    BY <1>a, <1>b, <2>1, <2>2 DEF Answered, Flights, RInv, FlightIsTied
  <2>3. CASE flight' = [flight EXCEPT !.pc = "wire"]
    BY <1>a, <1>b, <2>1, <2>3 DEF Flights, RInv, FlightIsTied
  <2>4. CASE Send
    BY <2>2, <2>3, <2>4 DEF Send
  <2>5. CASE Rotates \/ Redeems \/ Fails
    BY <2>2, <2>5 DEF Rotates, Redeems, Fails
  <2>6. CASE Refuses
    BY <2>2, <2>6 DEF Refuses
  <2> QED
    BY <1>6, <2>4, <2>5, <2>6 DEF Answers
<1>7. CASE Retries
  <2>1. /\ flight'.pc = "queued" /\ flight'.answer = "none" /\ flight.pc # "none"
        /\ flight'.pair = flight.pair /\ flight'.bound = flight.bound
    BY <1>7, <1>a DEF Retries, Lands, Flights
  <2> QED
    BY <1>b, <2>1 DEF RInv, FlightIsTied
<1>8. CASE Marks \/ Clears
  <2>1. /\ flight.pc # "none" /\ flight.answer = "refused"
        /\ flight'.pc \in {"marked", "notifying"} /\ flight'.answer = flight.answer
        /\ flight'.pair = flight.pair /\ flight'.bound = flight.bound
    BY <1>8, <1>a DEF Marks, Clears, Lands, Flights, RInv, FlightIsTied
  <2>2. flight'.pc = "marked" => gw'.cfg = flight.bound
    <3>1. CASE Marks
      BY <3>1, MarksFields
    <3>2. CASE Clears
      BY <1>a, <3>2 DEF Clears, Flights
    <3> QED
      BY <1>8, <3>1, <3>2
  <2> QED
    BY <1>b, <2>1, <2>2 DEF RInv, FlightIsTied
<1>9. ASSUME NEW c \in Callers, Ask(c) \/ Applies(c) \/ CancelsJoined(c) \/ Skipped(c) \/ Joins(c)
       PROVE  FlightIsTied'
  BY <1>2, <1>9 DEF Ask, Polling, LoopFree, Applies, Swaps, LogsOut, CancelsJoined, Skipped, Joins
<1>10. ASSUME NEW c \in Callers, Begins(c) PROVE FlightIsTied'
  <2>1. /\ flight'.pc = "queued" /\ flight'.answer = "none"
        /\ flight'.pair = caller[c].pair /\ flight'.bound = gw.cfg
    BY <1>10 DEF Begins, NoFlight
  <2>2. gw.cfg \in strays' \cup {caller[c].pair, NoPair}
    BY <1>10 DEF Begins, Tied
  <2> QED
    BY <2>1, <2>2 DEF FlightIsTied
<1>11. ASSUME NEW c \in Callers, CancelsOwner(c) PROVE FlightIsTied'
  BY <1>1, <1>11 DEF CancelsOwner, Ends
<1> QED
  BY <1>3, <1>4, <1>5, <1>6, <1>7, <1>8, <1>9, <1>10, <1>11
  DEF Next, Settles, Starts

\* A task that waits is told of a refusal only of its own pair or of one it was
\* tied to.
LEMMA WaitersKept ==
  ASSUME Inv, RInv, [Next]_vars
  PROVE  WaitersAreTied'
<1>a. caller \in [Callers -> Tasks] /\ flight \in Flights
  BY InvPairs
<1>b. refused \subseteq refused' /\ strays \subseteq strays' /\ Overs \subseteq Overs'
  BY OversKept
<1>c. Idle.pc = "idle"
  BY DEF Idle
<1>1. ASSUME NEW c \in Callers, UNCHANGED caller[c],
             flight'.pair = flight.pair \/ caller[c].pc # "waiting"
      PROVE  IsTied(c)'
  BY <1>1, <1>b DEF RInv, WaitersAreTied, IsTied
<1>2. ASSUME NEW c \in Callers, caller'[c].pc \notin {"waiting", "permanent"} PROVE IsTied(c)'
  BY <1>2 DEF IsTied
<1>3. ASSUME Ends PROVE WaitersAreTied'
  <2>1. ASSUME NEW c \in Callers PROVE IsTied(c)'
    <3>1. caller'[c] = IF caller[c].pc = "waiting" THEN Idle ELSE caller[c]
      BY <1>3 DEF Ends
    <3> QED
      BY <1>1, <1>2, <1>c, <3>1
  <2> QED
    BY <2>1 DEF WaitersAreTied
<1>4. ASSUME NEW o \in {"success", "permanent"}, NEW p, EndsAs(o, p),
             o = "permanent" => flight.pair \in refused
      PROVE  WaitersAreTied'
  <2>1. ASSUME NEW c \in Callers PROVE IsTied(c)'
    <3>1. CASE caller[c].pc # "waiting"
      BY <1>1, <1>4, <3>1 DEF EndsAs
    <3>2. CASE caller[c].pc = "waiting"
      <4>1. caller'[c] = [caller[c] EXCEPT !.pc = o, !.new = p]
        BY <1>4, <3>2 DEF EndsAs
      <4>2. caller'[c].pc = o /\ caller'[c].pair = caller[c].pair
        <5>1. PICK t \in Tasks : t = caller[c]
          BY <1>a
        <5>2. caller'[c] = [t EXCEPT !.pc = o, !.new = p]
          BY <4>1, <5>1
        <5> QED
          BY <5>1, <5>2 DEF Tasks
      <4>3. caller[c].pair \in strays \cup {flight.pair, NoPair}
        BY <3>2 DEF RInv, WaitersAreTied, IsTied
      <4>4. o = "permanent" => caller[c].pair \in Overs'
        BY <1>4, <1>b, <4>3 DEF Overs
      <4> QED
        BY <4>2, <4>4 DEF IsTied
    <3> QED
      BY <3>1, <3>2
  <2> QED
    BY <2>1 DEF WaitersAreTied
<1>5. CASE Poll \/ PollRaises \/ Activate \/ Delete \/ UNCHANGED vars
  <2>1. UNCHANGED <<flight, caller>>
    BY <1>5 DEF Poll, PollRaises, PollDeleted, PollChanged, PollSame, DropUnusable, Load,
                FinishPending, FinishEnds, Activate, Delete, vars
  <2> QED
    BY <1>1, <2>1 DEF WaitersAreTied
<1>6. CASE Send \/ Answers \/ Retries \/ Marks \/ Clears
  <2>1. UNCHANGED caller
    BY <1>6 DEF Send, Answers, Rotates, Redeems, Refuses, Fails, Retries, Marks, Clears
  <2>2. flight'.pair = flight.pair
    BY <1>6, <1>a DEF Send, Answers, Rotates, Redeems, Refuses, Fails, Answered, Retries, Marks, Clears,
                      Flights
  <2> QED
    BY <1>1, <2>1, <2>2 DEF WaitersAreTied
<1>7. CASE GivesUpAsking \/ StoreFails \/ Discards
  BY <1>3, <1>7 DEF GivesUpAsking, StoreFails, Discards
<1>8. CASE Stores
  BY <1>4, <1>8 DEF Stores
<1>9. CASE Notified
  <2>1. flight.pair \in refused
    BY <1>9 DEF Notified, RInv, FlightIsTied
  <2> QED
    BY <1>4, <1>9, <2>1 DEF Notified
<1>10. CASE Crash
  BY <1>2, <1>10, <1>c DEF Crash, WaitersAreTied
<1>11. ASSUME NEW c \in Callers,
              \/ Ask(c) \/ Applies(c) \/ CancelsJoined(c) \/ Skipped(c)
              \/ Joins(c) \/ Begins(c)
       PROVE  WaitersAreTied'
  <2>1. \A d \in Callers \ {c} : UNCHANGED caller[d]
    BY <1>11, <1>a DEF Ask, Applies, Swaps, LogsOut, CancelsJoined, Skipped, Joins, Begins
  <2>2. IsTied(c)'
    <3>1. CASE Ask(c)
      BY <1>2, <1>a, <3>1 DEF Ask
    <3>2. CASE Applies(c) \/ CancelsJoined(c) \/ Skipped(c)
      BY <1>2, <1>a, <1>c, <3>2 DEF Applies, Swaps, LogsOut, CancelsJoined, Skipped
    <3>3. CASE Joins(c) \/ Begins(c)
      <4>1. caller'[c].pc = "waiting" /\ caller'[c].pair = caller[c].pair
        <5>1. PICK t \in Tasks : t = caller[c]
          BY <1>a
        <5>2. caller'[c] = [t EXCEPT !.pc = "waiting"]
          BY <1>a, <3>3, <5>1 DEF Joins, Begins
        <5> QED
          BY <5>1, <5>2 DEF Tasks
      <4>2. caller[c].pair \in strays' \cup {flight'.pair, NoPair}
        BY <3>3 DEF Joins, Begins, Tied, NoFlight
      <4> QED
        BY <4>1, <4>2 DEF IsTied
    <3> QED
      BY <1>11, <3>1, <3>2, <3>3
  <2>3. ASSUME NEW d \in Callers \ {c} PROVE IsTied(d)'
    <3>1. UNCHANGED flight \/ caller[d].pc # "waiting"
      <4>1. Begins(c) => flight.pc = "none" /\ caller[d].pc # "waiting"
        BY DEF Begins, Inv, GoodCallers
      <4> QED
        BY <1>11, <4>1 DEF Ask, Applies, Swaps, LogsOut, CancelsJoined, Skipped, Joins
    <3> QED
      BY <1>1, <2>1, <3>1
  <2> QED
    BY <2>2, <2>3 DEF WaitersAreTied
<1>12. ASSUME NEW c \in Callers, CancelsOwner(c) PROVE WaitersAreTied'
  BY <1>3, <1>12 DEF CancelsOwner
<1> QED
  BY <1>5, <1>6, <1>7, <1>8, <1>9, <1>10, <1>11, <1>12 DEF Next, Settles, Starts

LEMMA LogoutsInv ==
  /\ Init => Inv /\ RInv
  /\ (Inv /\ RInv) /\ [Next]_vars => (Inv /\ RInv)'
<1>1. Init => RInv
  BY DEF Init, RInv, MarksAreOver, FlightIsTied, WaitersAreTied, IsTied, Overs, Fresh, NoFlight, Idle
<1>2. Inv /\ RInv /\ [Next]_vars => Inv' /\ RInv'
  BY NextInv, MarksKept, FlightKept, WaitersKept DEF RInv
<1> QED
  BY <1>1, <1>2, InitInv

-----------------------------------------------------------------------------
\* Every variable keeps its type; tasks wait only for a flight that exists, and
\* a refusal is pending only for the pair in use, during a suspension.
THEOREM RefreshTypes == Spec => []TypeOK
  BY InitInv, NextInv, InvTypes, PTL DEF Spec

\* Memory never runs ahead of the store, whatever fails, is cancelled or dies
\* between the server's rotation and the write: the pair in use has been in the
\* row.
THEOREM MemoryNeverAhead == Spec => []MemoryIsStored
<1>1. Inv => MemoryIsStored
  BY DEF Inv, GoodMemory, MemoryIsStored
<1> QED
  BY <1>1, InitInv, NextInv, PTL DEF Spec

\* Whatever runs between asking, the request and its outcome, the gateway
\* replaces or blanks only the pair that was in use when the request began, or the
\* one whose refusal is pending.
THEOREM OwnPairOnly == Spec => OnlyOwnPairReplaced
<1> DEFINE Own == \/ Outside
                  \/ flight.pc # "none" /\ row = flight.bound
                  \/ row = gw.pend
<1>1. [Next]_vars => [row' # row => Own]_vars
  <2> SUFFICES ASSUME Next, row' # row PROVE Own
    OBVIOUS
  <2>2. CASE Activate \/ Delete
    BY <2>2 DEF Activate, Delete, Outside
  <2>3. CASE FinishPending
    BY <2>3 DEF FinishPending
  <2>4. CASE Settles
    BY <2>4 DEF Settles, Retries, GivesUpAsking, Stores, StoreFails, Marks, Discards, Clears,
                      Notified, Lands, Writes
  <2>5. ~PollRaises /\ ~Send /\ ~Answers /\ ~Crash
    BY DEF PollRaises, Send, Answers, Rotates, Redeems, Refuses, Fails, Crash
  <2>6. ASSUME NEW c \in Callers
        PROVE  ~Ask(c) /\ ~Starts(c) /\ ~Applies(c) /\ ~CancelsOwner(c) /\ ~CancelsJoined(c)
    BY DEF Ask, Starts, Skipped, Joins, Begins, Applies, Swaps, LogsOut, CancelsOwner, CancelsJoined
  <2>7. ~PollDeleted /\ ~PollChanged /\ ~PollSame /\ ~DropUnusable /\ ~Load /\ ~FinishEnds
    BY DEF PollDeleted, PollChanged, PollSame, DropUnusable, Load, FinishEnds
  <2> QED
    BY <2>2, <2>3, <2>4, <2>5, <2>6, <2>7 DEF Next, Poll
<1> QED
  BY <1>1, PTL DEF Spec, OnlyOwnPairReplaced

\* The gateway blanks the row, or forgets the pair it shares with the row, only
\* after the server refused that pair for good or a task tied it to the refresh of
\* another pair, whatever other tasks run in between: no transient failure,
\* unreadable database, cancellation or late outcome logs the owner out.
THEOREM LogoutsAreEarned == Spec => LogoutIsEarned
<1> DEFINE Earned == /\ row # NoPair /\ row' = NoPair => Outside \/ Over(row)
                     /\ gw.cfg = row /\ row # NoPair /\ gw'.cfg = NoPair =>
                          gw' = Fresh \/ Over(row)
<1>1. Inv /\ RInv /\ [Next]_vars => [Earned]_vars
  <2> SUFFICES ASSUME Inv, RInv, Next PROVE Earned
    OBVIOUS
  <2>a. \A p : p # NoPair /\ p \in Overs => Over(p)
    BY DEF Overs, Over
  <2>1. row # NoPair /\ row' = NoPair => Outside \/ Over(row)
    <3>1. CASE Activate \/ Delete
      BY <3>1 DEF Activate, Delete, Outside
    <3>2. CASE FinishPending
      BY <2>a, <3>2, FinishFields DEF RInv, MarksAreOver
    <3>3. CASE Clears
      <4>1. row' # row => row = flight.bound
        BY <3>3 DEF Clears, Writes
      <4>2. flight.bound \in Overs
        BY <3>3 DEF Clears, RInv, FlightIsTied, Overs
      <4> QED
        BY <2>a, <4>1, <4>2
    <3>4. CASE Stores \/ StoreFails
      BY <3>4, InvPairs DEF Stores, StoreFails, Lands, Inv, GoodFlight
    <3>5. CASE row' = row
      BY <3>5
    <3> QED
      BY <3>1, <3>2, <3>3, <3>4, <3>5
      DEF Next, Poll, PollRaises, PollDeleted, PollChanged, PollSame, DropUnusable, Load, FinishEnds,
          Send, Answers, Rotates, Redeems, Refuses, Fails, Settles, Retries, GivesUpAsking, Marks,
          Discards, Notified, Ask, Starts, Skipped, Joins, Begins, Applies, Swaps, LogsOut,
          CancelsOwner, CancelsJoined, Crash
  <2>2. ASSUME gw.cfg = row, row # NoPair, gw'.cfg = NoPair PROVE gw' = Fresh \/ Over(row)
    <3>a. gw \in Gateways
      BY InvPairs
    <3>1. CASE Crash
      BY <3>1 DEF Crash
    <3>2. CASE Same(gw') \/ gw'.cfg = gw.cfg
      BY <2>2, <3>2 DEF Same
    <3>3. CASE DropUnusable
      BY <2>2, <2>a, <3>3 DEF DropUnusable, RInv, MarksAreOver
    <3>4. CASE FinishEnds
      <4>1. CASE gw.pend = gw.finishing /\ gw.cfg = gw.finishing
        BY <2>2, <2>a, <4>1 DEF RInv, MarksAreOver
      <4>2. CASE gw' = [gw EXCEPT !.finishing = NoPair]
        BY <2>2, <3>a, <4>2 DEF Gateways
      <4> QED
        BY <3>4, <4>1, <4>2 DEF FinishEnds
    <3>5. ASSUME NEW c \in Callers, LogsOut(c) PROVE Over(row)
      BY <2>2, <2>a, <3>5 DEF LogsOut, Unchanged, RInv, WaitersAreTied, IsTied
    <3>6. CASE PollDeleted \/ PollChanged \/ Adopts
      <4>1. ~PollDeleted /\ ~PollChanged
        BY <2>2 DEF PollDeleted, PollChanged
      <4> QED
        BY <2>2, <3>6, <3>a, <4>1, MemoryFields DEF Adopts
    <3>7. CASE GivesUpAsking \/ StoreFails \/ Discards
      <4>1. UNCHANGED gw \/ gw' = ReadOk \/ (\E b \in BOOLEAN : gw' = ReadRaised(b) \/ Mismatch(b))
        BY <3>7 DEF GivesUpAsking, StoreFails, Discards
      <4> QED
        BY <2>2, <3>a, <4>1, MemoryFields, MismatchFields DEF Same
    <3>8. ASSUME NEW c \in Callers, Swaps(c), Unchanged(c) PROVE FALSE
      BY <2>2, <3>8, SwapFields, InvPairs
    <3>9. CASE FinishPending \/ Marks
      BY <3>2, <3>9, FinishFields, MarksFields
    <3>10. CASE PollRaises \/ PollSame \/ Send \/ Answers \/ Retries \/ Clears
      <4>1. PollSame => gw'.cfg = gw.cfg
        BY <3>a DEF PollSame, ReadOk, Gateways
      <4> QED
        BY <3>2, <3>10, <3>a, <4>1, MemoryFields
        DEF PollRaises, Send, Answers, Rotates, Redeems, Refuses, Fails, Retries, Clears, Same
    <3>11. CASE Stores \/ Notified
      <4>1. gw'.cfg = gw.cfg
        BY <3>11, <3>a DEF Stores, Notified, ReadOk, Gateways
      <4> QED
        BY <3>2, <4>1
    <3>12. ASSUME NEW c \in Callers,
                  \/ Ask(c) \/ Starts(c) \/ CancelsOwner(c) \/ CancelsJoined(c)
                  \/ Swaps(c) /\ ~Unchanged(c)
           PROVE  gw'.cfg = gw.cfg
      BY <3>a, <3>12, MemoryFields
      DEF Ask, Starts, Skipped, Joins, Begins, CancelsOwner, CancelsJoined, Swaps, Same, Gateways
    <3>13. CASE Activate \/ Delete
      BY <3>2, <3>13 DEF Activate, Delete
    <3> QED
      BY <3>1, <3>2, <3>3, <3>4, <3>5, <3>6, <3>7, <3>8, <3>9, <3>10, <3>11, <3>12, <3>13, Kinds
      DEF Quiet, Poll, vars
  <2> QED
    BY <2>1, <2>2
<1> QED
  BY <1>1, LogoutsInv, PTL DEF Spec, LogoutIsEarned

=============================================================================
