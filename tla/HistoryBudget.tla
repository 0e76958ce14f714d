----------------------------- MODULE HistoryBudget -----------------------------
(***************************************************************************)
(* The budgeting rules of a conversation's history, as pure functions of   *)
(* the ledger's entries, oldest first: which entries a plan folds and      *)
(* which it leaves verbatim, how the folded ones are cut into blocks for   *)
(* the summariser, and what a later turn shows behind the summary.  An     *)
(* entry is what the rules see of it: its estimated cost, whether the      *)
(* agent itself wrote it, and whether its date lies in the recent window   *)
(* (a date that does not parse does not).                                  *)
(***************************************************************************)
EXTENDS Naturals, Sequences, SequencesExt, FiniteSetsExt, Functions

CONSTANTS
    MaxEntries,  \* length of a history
    Costs,       \* estimated costs of an entry, in tokens
    Keep,        \* keep_recent_turns
    Budget,      \* history_budget_tokens
    BlockCap     \* block_cap_tokens

Entry == [cost : Costs, own : BOOLEAN, recent : BOOLEAN]

VARIABLES
    entries,   \* the entries since the last summary
    window,    \* what the plan leaves, once it was made
    blocks,    \* the blocks of what it folds
    shown,     \* what the turn after the fold shows
    at

vars == <<entries, window, blocks, shown, at>>

Spent(s) == FoldLeft(LAMBDA t, e : t + e.cost, 0, s)
From(s, i) == SubSeq(s, i, Len(s))
TurnCount(s) == Len(SelectSeq(s, LAMBDA e : ~e.own))
Inbound(s) == {i \in DOMAIN s : ~s[i].own}

-----------------------------------------------------------------------------
(* plan_compaction: the index the window starts at. *)

\* The first entry whose date lies in the recent window.
RecentStart(s) == Min({i \in DOMAIN s : s[i].recent} \cup {Len(s) + 1})

\* Back to the entry that makes Keep inbound messages, or to the oldest.
KeepTurns(s, start) ==
    Max({i \in 1..start : i = 1 \/ TurnCount(From(s, i)) >= Keep})

\* On until it fits the cap, but never past the last inbound message ...
Stop(s) == Max(Inbound(s) \cup {0})

LastInbound(s) == IF Inbound(s) = {} THEN Len(s) + 1 ELSE Stop(s)

\* Mutant of FitCap: the plan may use more than the injection will show.
FitCapTwice(s, start, cap) ==
    LET stop == LastInbound(s)
    IN  Min({i \in start..Len(s) + 1 : i >= stop \/ Spent(From(s, i)) <= 4 * cap})

\* Mutant of FitCap: the cap may cut past the last inbound message.
FitCapPast(s, start, cap) ==
    Min({i \in start..Len(s) + 1 : i = Len(s) + 1 \/ Spent(From(s, i)) <= cap})

FitCap(s, start, cap) ==
    LET stop == LastInbound(s)
    IN  Min({i \in start..Len(s) + 1 : i >= stop \/ Spent(From(s, i)) <= cap})

\* ... and past the agent's own messages it would open with.
SkipOwn(s, start) ==
    LET stop == LastInbound(s)
    IN  Min({i \in start..Len(s) + 1 : i >= stop \/ i \in Inbound(s)})

WindowStart(s, cap) ==
    SkipOwn(s, FitCap(s, KeepTurns(s, RecentStart(s)), cap))

-----------------------------------------------------------------------------
(* split_blocks: an entry larger than a block is a block of its own, cut    *)
(* down to the block's size; the others are never cut.                      *)

Cut(e) == [cost |-> BlockCap, own |-> e.own, recent |-> e.recent]

\* Mutant of Closed: an oversized entry forgets the open block.
ClosedLate(acc) == acc.blocks

Closed(acc) == IF acc.block = <<>> THEN acc.blocks ELSE Append(acc.blocks, acc.block)

AddEntry(acc, e) ==
    IF e.cost > BlockCap
    THEN [blocks |-> Append(Closed(acc), <<Cut(e)>>), block |-> <<>>]
    ELSE IF acc.block # <<>> /\ Spent(acc.block) + e.cost > BlockCap
    THEN [blocks |-> Closed(acc), block |-> <<e>>]
    ELSE [acc EXCEPT !.block = Append(@, e)]

SplitBlocks(s) == Closed(FoldLeft(AddEntry, [blocks |-> <<>>, block |-> <<>>], s))

-----------------------------------------------------------------------------
(* recent_window_for_injection behind a summary: the longest tail within    *)
(* the budget, and the newest entry whatever it costs.                      *)

Shown(s) ==
    IF s = <<>> THEN s
    ELSE From(s, Min({i \in DOMAIN s : i = Len(s) \/ Spent(From(s, i)) <= Budget}))

-----------------------------------------------------------------------------

Init ==
    /\ entries \in SeqOf(Entry, MaxEntries)
    /\ window = <<>> /\ blocks = <<>> /\ shown = <<>>
    /\ at = "asked"

\* queue_pending plans at half the budget; when the session was already
\* renewed everything is folded.
Plan ==
    /\ at = "asked"
    /\ at' = "planned"
    /\ window' = From(entries, WindowStart(entries, Budget \div 2))
    /\ UNCHANGED <<entries, blocks, shown>>

FoldAll ==
    /\ at = "asked"
    /\ at' = "planned"
    /\ window' = <<>>
    /\ UNCHANGED <<entries, blocks, shown>>

Fold ==
    /\ at = "planned"
    /\ at' = "folded"
    /\ blocks' = SplitBlocks(SubSeq(entries, 1, Len(entries) - Len(window)))
    /\ UNCHANGED <<entries, window, shown>>

Inject ==
    /\ at = "folded"
    /\ at' = "shown"
    /\ shown' = Shown(window)
    /\ UNCHANGED <<entries, window, blocks>>

Next == Plan \/ FoldAll \/ Fold \/ Inject

Spec == Init /\ [][Next]_vars

-----------------------------------------------------------------------------

TypeOK ==
    /\ entries \in Seq(Entry)
    /\ {window, shown} \subseteq Seq(Entry)
    /\ blocks \in Seq(Seq([cost : Costs \cup {BlockCap}, own : BOOLEAN, recent : BOOLEAN]))
    /\ at \in {"asked", "planned", "folded", "shown"}

(* Nothing falls between the summary and the window, although the plan is   *)
(* made with half the budget by one function and the window is cut with the *)
(* whole budget by another (plan_compaction, recent_window_for_injection):  *)
(* the turn after a fold is shown everything the fold left, unless the last *)
(* inbound turn alone exceeds what may be shown.                            *)
NothingBetween ==
    at = "shown" =>
        \/ shown = window
        \/ /\ Spent(From(entries, Stop(entries))) > Budget
           /\ window = From(entries, Stop(entries))

(* The message being answered is never folded away from its answer: what a  *)
(* plan leaves opens with an inbound message and contains the last one,     *)
(* and at least Keep of them unless one more would exceed half the budget   *)
(* (plan_compaction).                                                       *)
LastTurnLeft ==
    (at = "planned" /\ window # <<>> /\ Inbound(entries) # {}) =>
        /\ TurnCount(window) >= 1
        /\ ~window[1].own
        /\ \/ TurnCount(window) >= Keep
           \/ TurnCount(window) = TurnCount(entries)
           \/ LET opens == Len(entries) - Len(window) + 1
                  before == Max({i \in Inbound(entries) : i < opens})
              IN  Spent(From(entries, before)) > Budget \div 2

(* The summariser is given the folded entries in ledger order, each once,   *)
(* in blocks it has room for, and an entry is cut only when it is larger    *)
(* than a block by itself (split_blocks).                                   *)
BlocksAreTheFold ==
    at = "folded" =>
        LET fold == SubSeq(entries, 1, Len(entries) - Len(window))
        IN  /\ FlattenSeq(blocks) =
                 [i \in DOMAIN fold |-> IF fold[i].cost > BlockCap THEN Cut(fold[i]) ELSE fold[i]]
            /\ \A i \in DOMAIN blocks : blocks[i] # <<>> /\ Spent(blocks[i]) <= BlockCap

================================================================================
