----------------------------- MODULE ToolDecision -----------------------------
(***************************************************************************)
(* What the pre_tool_call hook answers.  The rules the owner set for each  *)
(* person are compiled when an input is dispatched and frozen with its     *)
(* turn; inputs that overlap share one turn and the narrowest rules of     *)
(* all; every tool call of the turn is then decided from those frozen      *)
(* rules, from what the host can do and from the call itself, in the order *)
(* of the stages of _clawchat_pre_tool_decision_raw.  The catalogue the    *)
(* model is shown and the toolsets of the schema are computed from the     *)
(* same rules by other code, and must agree with the decisions.            *)
(*                                                                         *)
(* A tool is a model value; the sets of tools stand for the tables and     *)
(* name patterns the code classifies tools with.  A call carries what the  *)
(* stages read of its arguments: whether it names this chat or another,    *)
(* whether it holds a path of this machine (and whether every one of them  *)
(* was released to the turn as an attachment), whether it exceeds a limit  *)
(* of its tool, and whether it starts work in another session.             *)
(***************************************************************************)
EXTENDS Naturals, Sequences, FiniteSets, SequencesExt

CONSTANTS
    People,        \* who may speak besides the owner
    Owner,
    Tools,
    Requesting, Managing, OwnerOnly,  \* clawchat_tool_request; the grant tools; OWNER_ONLY_TOOLS
    Plugin, Sending,                  \* clawchat_*; send_message
    Filing,                           \* tools whose arguments may hold paths
    Crossing,                         \* the tools of the capability cross-chat
    Restricted, Limited,              \* host tools of the owner; tools with calls over a limit
    Local,                            \* the tools of the capabilities terminal, files and code
    Public,                           \* public-tools of the configuration
    Foreign,                          \* tools the registry does not know
    Absent,                           \* tools outside the host's effective catalogue
    Starting,                         \* tools some of whose calls start work elsewhere
    Review,                           \* the whitelist of the host's review fork
    Toolset,                          \* the toolset of each tool
    Narrowed,                         \* the toolsets such turns keep (_narrowed_toolsets)
    Chats, Hosts,                     \* the sessions and hosts considered
    Rows,                             \* the rules the owner sets
    MaxRules, MaxChanges, MaxInputs

None == "none"
Authorization == Requesting \cup Managing
Everyone == People \cup {Owner}

\* A rule: [kind, what, mode, ends]; Rank orders the modes of one level.
Rank == [none |-> 0, direct |-> 1, ask |-> 2, deny |-> 3]
Priority == [tool |-> 3, capability |-> 2, all |-> 1]

\* What the stages read of a call's arguments.
Calls == {c \in [tool : Tools, there : BOOLEAN, path : {"no", "local", "released"},
                 limited : BOOLEAN, starts : BOOLEAN, ids : BOOLEAN] :
            /\ c.there => c.tool \in Crossing
            /\ c.limited => c.tool \in Limited
            /\ c.starts => c.tool \in Starting
            /\ c.path # "no" => c.tool \in Filing
            /\ c.path = "released" => c.tool \in Plugin \cup Sending}

VARIABLES
    host,     \* what the host and the settings offer
    chat,     \* "home", the owner's direct chat; "group"; "outside" ClawChat
    rules,    \* the rules on file, a sequence per person
    past,     \* TRUE when the rules with an end are over
    turn,     \* the turn whose nonce the session carries
    heard,    \* (history) the rules of each person of each of its inputs, as they were
    changes,
    last      \* the call just decided with its answer, if any

vars == <<host, chat, rules, past, turn, heard, changes, last>>

NoGrants == [plans |-> {}, ownerOnly |-> FALSE]

NoContext == [kind |-> None, bound |-> FALSE, left |-> FALSE, grants |-> NoGrants, inputs |-> 0]

-----------------------------------------------------------------------------
(* tool_grants.py: compiling and resolving the rules of a turn. *)

Over(row) == past /\ row.ends

Matches(row, tool, where) ==
    \/ row.kind = "tool" /\ row.what = tool
    \/ row.kind = "all"
    \/ /\ row.kind = "capability"
       /\ tool \in row.what
       /\ row.what = Crossing => where \in {"there", "any"}

\* _SpeakerPlan.resolve.  where: the call's chat, or "any" and "catalog" when
\* the catalogue asks without a call.
SpeakerMode(plan, tool, where, default) ==
    LET step(best, row) ==
          LET level == Priority[row.kind]
          IN  IF /\ ~Over(row)
                 /\ Matches(row, tool, where)
                 /\ \/ level > best.level
                    \/ level = best.level /\ Rank[row.mode] > Rank[best.mode]
              THEN [level |-> level, mode |-> row.mode] ELSE best
        found == FoldLeft(step, [level |-> 0, mode |-> None], plan.rows)
    IN  IF found.level > 0 THEN found.mode
        ELSE IF where = "there" THEN None
        ELSE IF default THEN "direct"
        ELSE IF plan.unmatched = "ask" THEN "ask" ELSE None

\* CompiledGrants.resolve, through evaluate_tool_grant.
Mode(grants, tool, where, default) ==
    LET modes == {SpeakerMode(plan, tool, where, default) : plan \in grants.plans}
    IN  IF tool \in Authorization \cup OwnerOnly THEN None
        ELSE IF grants.ownerOnly THEN "direct"
        ELSE IF "deny" \in modes THEN "deny"
        ELSE IF modes = {} \/ None \in modes THEN None
        ELSE IF "ask" \in modes THEN "ask" ELSE "direct"

\* tool_grant_visible: some call of the tool may run.
Visible(grants, tool, default) ==
    \/ Mode(grants, tool, "any", default) \in {"direct", "ask"}
    \/ tool \in Crossing /\ Mode(grants, tool, "catalog", default) \in {"direct", "ask"}

Unmatched == IF host.askUnmatched THEN "ask" ELSE None

\* resolve_turn_grants: one plan for each person who is not the owner.
Plan(s) ==
    [rows |-> SelectSeq(rules[s], LAMBDA r :
                ~Over(r) /\ ~(r.kind = "tool" /\ r.what \in Authorization \cup OwnerOnly)),
     unmatched |-> Unmatched]

Fallback == [plans |-> {[rows |-> <<>>, unmatched |-> None]}, ownerOnly |-> FALSE]

Resolved(who) ==
    IF who = {} THEN Fallback
    ELSE IF who = {Owner} THEN [plans |-> {}, ownerOnly |-> TRUE]
    ELSE [plans |-> {Plan(s) : s \in who \ {Owner}}, ownerOnly |-> FALSE]

\* Mutant of Intersected: the newest input's rules replace those before.
IntersectedNewest(old, new) == new

\* intersect_turn_grants: an input of the owner alone is neutral.
Intersected(old, new) ==
    IF old.ownerOnly THEN new
    ELSE IF new.ownerOnly THEN old
    ELSE IF {} \in {old.plans, new.plans} THEN NoGrants
    ELSE [plans |-> old.plans \cup new.plans, ownerOnly |-> FALSE]

-----------------------------------------------------------------------------
(* host_tools_guard.py: the questions the stages ask. *)

Guarded(tool, limited) == tool \in Restricted \/ limited

\* The provider's tools are unknown and layer 1 leaves the schema alone.
Strict(tool) ==
    /\ host.strange /\ tool \in Foreign
    /\ ~(host.narrows /\ ~host.approve /\ ~(host.stable /\ chat # "outside"))

PublicTool(tool, limited) ==
    /\ tool \notin Absent \cup Authorization \cup OwnerOnly
    /\ \/ tool \in Public /\ ~limited
       \/ ~Guarded(tool, limited)

\* lookup_snapshot_for_call with the call's ids; bound_snapshot without them.
Bound(c) == IF turn.bound /\ (c.ids \/ host.binds) THEN turn ELSE NoContext

OwnersTurn(t) == t.kind \in {"owner", "legacy"}
Attributed(t) == t.kind = "guests"
Clawchat == chat # "outside"

\* orchestrate_owner_turn: a retry of an approved operation also counts.
Orchestrates(t) == Clawchat /\ (OwnersTurn(t) \/ t.kind = "retry")

\* A call with ids that found no turn, in the owner's chat, of the host's own
\* review of an owner's turn, live or just released.
OwnersFork(c) ==
    /\ c.ids /\ Bound(c) = NoContext /\ chat = "home"
    /\ IF turn.kind # None THEN turn.kind = "owner" ELSE turn.left
    /\ c.tool \in Review

\* _session_turn, as the stages correct it.
SessionTurn(c) ==
    IF ~Clawchat THEN "outside"
    ELSE IF c.ids \/ turn.kind # None \/ chat = "group" THEN "other"
    ELSE "owner"

\* _toolsets_for_source: the toolsets the turn's schema keeps.
KeptToolsets(t) ==
    IF OwnersTurn(t) THEN {Toolset[x] : x \in Tools}
    ELSE IF ~host.grants \/ ~host.binds
    THEN IF host.approve /\ Attributed(t)
         THEN {Toolset[x] : x \in Tools} \ {Toolset[x] : x \in Authorization} ELSE Narrowed
    ELSE IF t.kind = None THEN Narrowed
    ELSE LET allowed == {x \in Tools \ Absent : Visible(t.grants, x, PublicTool(x, FALSE))}
             kept == {Toolset[x] : x \in allowed} \ {Toolset[x] : x \in Authorization}
         IN  IF kept = {} THEN Narrowed ELSE kept

\* _legacy_schema_hides, asked only where the schema is the same for all.
SchemaHidden(c) ==
    /\ host.stable
    /\ Toolset[c.tool] \notin KeptToolsets(IF Bound(c) # NoContext \/ c.ids THEN Bound(c) ELSE turn)

\* Mutant of Shown: the catalogue asks as if every call stayed in this chat.
ShownHere(t, tool) ==
    IF tool \in OwnerOnly THEN Orchestrates(t)
    ELSE IF tool \in Authorization \/ OwnersTurn(t) THEN OwnersTurn(t)
    ELSE IF t.kind = None THEN PublicTool(tool, FALSE)
    ELSE Mode(t.grants, tool, "catalog", PublicTool(tool, FALSE)) \in {"direct", "ask"}

\* _filter_grant_definitions: the tools a search of the catalogue shows.
Shown(t, tool) ==
    LET default == PublicTool(tool, FALSE)
    IN  IF tool \in OwnerOnly THEN Orchestrates(t)
        ELSE IF tool \in Requesting THEN host.grants /\ ~OwnersTurn(t)
        ELSE IF tool \in Managing THEN t.kind = "owner"
        ELSE IF OwnersTurn(t) THEN TRUE
        ELSE IF t.kind = None THEN default
        ELSE IF ~host.binds \/ ~host.grants THEN default \/ (host.approve /\ Attributed(t))
        ELSE Visible(t.grants, tool, default)

-----------------------------------------------------------------------------
(* The stages of _clawchat_pre_tool_decision_raw, each an answer or Pass.  *)

Allow == [act |-> "allow", why |-> None]
Block(why) == [act |-> "block", why |-> why]
Pass == [act |-> "pass", why |-> None]

\* The tools that administer the rules themselves.
AuthorizationStage(c) ==
    IF c.tool \in Requesting
    THEN IF host.grants /\ Clawchat /\ c.ids /\ Attributed(Bound(c)) THEN Allow ELSE Block("not-granted")
    ELSE IF c.tool \in Managing
    THEN IF host.grants /\ Clawchat /\ c.ids /\ Bound(c).kind = "owner" THEN Allow ELSE Block("grants")
    ELSE Pass

\* Tools only the owner's own turns have, and those turns themselves.
OwnerStage(c) ==
    IF c.tool \in OwnerOnly /\ ~Orchestrates(Bound(c)) THEN Block("owner-only")
    ELSE IF OwnersTurn(Bound(c)) THEN Allow
    ELSE IF ~host.binds /\ Clawchat /\ turn.kind = "legacy" THEN Allow
    ELSE IF OwnersFork(c) THEN Allow
    ELSE Pass

Unbound(c) == Bound(c) = NoContext

FailureCode(t, mode) ==
    IF Cardinality(t.grants.plans) > 1 THEN "batch-intersection"
    ELSE IF mode = "deny" THEN "denied" ELSE "not-granted"

\* Mutant of CrossChatStage: the plugin's own tools are not looked at.
CrossChatStageHostOnly(c) ==
    LET mode == Mode(IF host.grants THEN Bound(c).grants ELSE NoGrants, c.tool, "there", FALSE)
    IN  IF SessionTurn(c) = "other" /\ c.there /\ c.tool \in Sending /\ mode \notin {"direct", "ask"}
        THEN Block(FailureCode(Bound(c), mode)) ELSE Pass

\* A call for another chat needs a rule that says so.
CrossChatStage(c) ==
    LET mode == Mode(IF host.grants THEN Bound(c).grants ELSE NoGrants, c.tool, "there", FALSE)
    IN  IF SessionTurn(c) = "other" /\ c.there
        THEN IF ~Unbound(c) /\ host.grants /\ c.tool \in Absent THEN Block("not-available")
             ELSE IF mode \notin {"direct", "ask"} THEN Block(FailureCode(Bound(c), mode))
             ELSE Pass
        ELSE Pass

\* Files of this machine leave it only as released attachments.
PathStage(c) ==
    IF /\ \/ c.tool \in Plugin /\ SessionTurn(c) # "owner"
          \/ c.tool \in Sending /\ SessionTurn(c) = "other"
       /\ ~(host.surface /\ ~Clawchat)
       /\ c.path = "local"
    THEN Block("local-path") ELSE Pass

CatalogStage(c) ==
    IF SessionTurn(c) # "other" THEN Allow
    ELSE IF ~host.catalog /\ host.stable THEN Block("not-available")
    ELSE Pass

\* default_allowed: what such turns may call without a rule.
Default(c) ==
    \/ c.tool \in OwnerOnly
    \/ ~Guarded(c.tool, c.limited) /\ ~Strict(c.tool)
    \/ host.catalog /\ PublicTool(c.tool, c.limited)

Elsewhere(c) == c.starts

GuardedPath(c) == Guarded(c.tool, c.limited) /\ c.path # "no"

\* _ordinary_non_owner_decision.
Ordinary(approve) ==
    IF approve /\ host.approves THEN [act |-> "approve", why |-> None] ELSE Block("ordinary")

\* Where no rules apply: the defaults, then the owner's opt-in for approvals.
OrdinaryStage(c, attributed) ==
    IF Default(c)
    THEN IF Elsewhere(c) THEN Block("cross-session")
         ELSE IF GuardedPath(c) THEN Block("local-path") ELSE Allow
    ELSE IF host.approve /\ (attributed \/ host.grants) /\ Elsewhere(c) THEN Block("cross-session")
    ELSE Ordinary(host.approve /\ attributed)

\* Hosts that cannot bind a turn to its execution still name the turn's speakers.
LegacyAttributed == ~host.binds /\ Attributed(turn)

AskDirective == IF host.asks THEN [act |-> "ask", why |-> None] ELSE Block("ask-unavailable")

\* Mutant of GrantStage: another session is not looked at when a rule opens the tool.
GrantStageRoutes(c) ==
    LET mode == Mode(Bound(c).grants, c.tool, IF c.there THEN "there" ELSE "here", Default(c))
    IN  IF ~Unbound(c) /\ c.tool \in Absent THEN Block("not-available")
        ELSE IF mode = "deny" \/ SchemaHidden(c) THEN Block("not-granted")
        ELSE IF mode = "none" /\ Default(c) /\ Elsewhere(c) THEN Block("cross-session")
        ELSE IF mode = "ask" THEN AskDirective
        ELSE IF mode = "direct" \/ (Default(c) /\ ~c.there) THEN Allow
        ELSE Block(FailureCode(Bound(c), mode))

\* Where rules apply: the turn's frozen rules, else the defaults.
GrantStage(c) ==
    LET mode == Mode(Bound(c).grants, c.tool, IF c.there THEN "there" ELSE "here", Default(c))
    IN  IF ~Unbound(c) /\ c.tool \in Absent THEN Block("not-available")
        ELSE IF mode = "deny" THEN Block(FailureCode(Bound(c), mode))
        ELSE IF SchemaHidden(c) THEN Block("not-granted")
        ELSE IF (mode \in {"ask", "direct"} \/ Default(c)) /\ Elsewhere(c) THEN Block("cross-session")
        ELSE IF mode = "ask" THEN AskDirective
        ELSE IF mode = "direct"
        THEN IF GuardedPath(c) /\ c.tool \notin Local
                  /\ ~(c.tool \in Plugin \cup Sending /\ c.path = "released")
             THEN Block("local-path") ELSE Allow
        ELSE IF Default(c) /\ ~c.there THEN Allow
        ELSE Block(FailureCode(Bound(c), mode))

PolicyStage(c) ==
    IF host.grants /\ ~c.ids /\ ~host.binds THEN OrdinaryStage(c, LegacyAttributed)
    ELSE IF host.grants THEN GrantStage(c)
    ELSE IF SchemaHidden(c) THEN Block("not-granted")
    ELSE OrdinaryStage(c, Attributed(Bound(c)) \/ (~c.ids /\ LegacyAttributed))

\* The first stage that answers.
Decision(c) ==
    Head(SelectSeq(<<AuthorizationStage(c), OwnerStage(c), CrossChatStage(c),
                     PathStage(c), CatalogStage(c), PolicyStage(c)>>,
                   LAMBDA answer : answer # Pass))

-----------------------------------------------------------------------------
(* The steps.                                                              *)

Init ==
    /\ host \in Hosts /\ chat \in Chats
    /\ rules = [s \in People |-> <<>>]
    /\ past = FALSE /\ turn = NoContext /\ heard = {} /\ changes = 0 /\ last = <<>>

Same(r, q) == r.kind = q.kind /\ r.what = q.what

\* The owner sets a rule, which replaces the one for the same selector.
SetRule(s, row) ==
    /\ last = <<>>
    /\ changes < MaxChanges
    /\ LET others == SelectSeq(rules[s], LAMBDA r : ~Same(r, row))
       IN  Len(others) < MaxRules /\ rules' = [rules EXCEPT ![s] = Append(others, row)]
    /\ changes' = changes + 1
    /\ UNCHANGED <<host, chat, past, turn, heard, last>>

Expire ==
    /\ last = <<>>
    /\ ~past /\ \E s \in People : \E i \in DOMAIN rules[s] : rules[s][i].ends
    /\ past' = TRUE
    /\ UNCHANGED <<host, chat, rules, turn, heard, changes, last>>

\* An input of these speakers: the first of a turn, or one that overlaps it.
Input(who) ==
    /\ last = <<>>
    /\ Clawchat
    /\ turn.inputs < MaxInputs
    /\ turn.kind \in {None, "owner", "guests"}
    /\ chat = "home" => Cardinality(who) = 1
    /\ turn' = [kind |-> IF who = {Owner} /\ turn.kind # "guests" THEN "owner" ELSE "guests",
                bound |-> turn.bound, left |-> FALSE, inputs |-> turn.inputs + 1,
                grants |-> IF turn.kind = None THEN Resolved(who)
                           ELSE Intersected(turn.grants, Resolved(who))]
    /\ heard' = heard \cup {[rows |-> {rules[s][i] : i \in DOMAIN rules[s]}, unmatched |-> Unmatched,
                             late |-> past] : s \in who \ {Owner}}
    /\ UNCHANGED <<host, chat, rules, past, changes, last>>

\* A turn of the host's own session of the owner, or one an approval wakes.
Other(kind) ==
    /\ last = <<>>
    /\ Clawchat /\ turn.kind = None
    /\ turn' = [NoContext EXCEPT !.kind = kind, !.inputs = 1,
                 !.grants = IF kind = "legacy" THEN NoGrants ELSE Fallback]
    /\ UNCHANGED <<host, chat, rules, past, heard, changes, last>>

\* clawchat_pre_llm_call.
Bind ==
    /\ last = <<>>
    /\ host.binds /\ turn.kind # None /\ ~turn.bound
    /\ turn' = [turn EXCEPT !.bound = TRUE]
    /\ UNCHANGED <<host, chat, rules, past, heard, changes, last>>

Release ==
    /\ last = <<>>
    /\ turn.kind # None
    /\ turn' = [NoContext EXCEPT !.left = (turn.kind = "owner")]
    /\ heard' = {}
    /\ UNCHANGED <<host, chat, rules, past, changes, last>>

\* The hook answers one call ...
Decide(c) ==
    /\ last = <<>>
    /\ last' = <<[call |-> c, answer |-> Decision(c)]>>
    /\ UNCHANGED <<host, chat, rules, past, turn, heard, changes>>

\* ... and the host goes on.
Return ==
    /\ last # <<>>
    /\ last' = <<>>
    /\ UNCHANGED <<host, chat, rules, past, turn, heard, changes>>

Next ==
    \/ \E s \in People, row \in Rows : SetRule(s, row)
    \/ Expire
    \/ \E who \in SUBSET Everyone \ {{}} : Input(who)
    \/ \E kind \in {"legacy", "retry"} : Other(kind)
    \/ Bind
    \/ Release
    \/ \E c \in Calls : Decide(c)
    \/ Return

Spec == Init /\ [][Next]_vars

-----------------------------------------------------------------------------
(* Properties.                                                             *)

\* Every turn carries grants of the shape its kind has, and an answer is one
\* the host knows: nothing, a block, or an approval.
TypeOK ==
    /\ turn.kind \in {None, "owner", "legacy", "retry", "guests"}
    /\ turn.kind = "guests" => turn.grants.plans # {} /\ heard # {}
    /\ turn.kind = "owner" => turn.grants.ownerOnly /\ heard = {}
    /\ turn.bound => host.binds /\ turn.kind # None
    /\ last # <<>> => /\ Head(last).call \in Calls
                      /\ Head(last).answer.act \in {"allow", "block", "ask", "approve"}

\* The answer for one person, said as the rules are described: the live rules
\* that speak of the call, the most specific of them only, the strictest of
\* those; for another chat nothing but a rule; else the default.
Says(h, c) ==
    LET live == {r \in h.rows : ~(r.ends /\ (past \/ h.late))}
        speak == {r \in live : Matches(r, c.tool, IF c.there THEN "there" ELSE "here")}
        closest == {r \in speak : \A q \in speak : Priority[q.kind] <= Priority[r.kind]}
        modes == {r.mode : r \in closest}
    IN  IF "deny" \in modes THEN "deny"
        ELSE IF "ask" \in modes THEN "ask"
        ELSE IF modes # {} THEN "direct"
        ELSE IF c.there THEN None
        ELSE IF Default(c) THEN "direct"
        ELSE h.unmatched

\* On a host that binds turns, with the rules in force, a call in a turn of
\* other people runs only if the rules of every one of them, as they stood at
\* that person's input, let it, and runs unasked only if none wants an
\* approval: no later change, no other person's rule and no input of the owner
\* in the same turn adds anything (resolve_turn_grants, intersect_turn_grants,
\* CompiledGrants.resolve and the grant stages).
EachSpeakerAgrees ==
    last # <<>> /\ host.binds /\ host.grants /\ turn.kind = "guests" /\ turn.bound
        /\ Head(last).call.tool \notin Authorization =>
      /\ Head(last).answer.act = "allow" => \A h \in heard : Says(h, Head(last).call) = "direct"
      /\ Head(last).answer.act = "ask" => \A h \in heard : Says(h, Head(last).call) \in {"direct", "ask"}
      /\ Head(last).answer.act # "approve"

\* What the catalogue shows a turn can be called in some way, and what can be
\* called was shown: the filter of the catalogue, which has no call to look
\* at, and the hook agree, wherever the schema does not hide the tool.
CatalogueAgrees ==
    last = <<>> /\ host.binds /\ host.catalog /\ turn.bound /\ Clawchat
        /\ (host.asks \/ ~\E r \in Rows : r.mode = "ask") =>
      \A tool \in Tools \ (Absent \cup Foreign) :
        LET some == {Decision(c).act : c \in {x \in Calls : x.tool = tool /\ x.ids}}
            hidden == \E c \in Calls : c.tool = tool /\ c.ids /\ SchemaHidden(c)
        IN  ~hidden /\ (tool \in Authorization => host.grants /\ turn.kind # "retry") =>
                (Shown(turn, tool) <=> some # {"block"})

\* Nothing that is not the owner's turn reaches another chat or another
\* session without a rule: not a default, not public-tools, not the approval
\* opt-in, whichever of the four policies decides.
OnlyRulesCross ==
    last # <<>> /\ Clawchat /\ Head(last).answer.act # "block"
        /\ ~OwnersTurn(turn) /\ ~OwnersFork(Head(last).call) /\ SessionTurn(Head(last).call) = "other" =>
      /\ ~Head(last).call.starts
      /\ Head(last).call.there => host.grants /\ \A h \in heard : Says(h, Head(last).call) \in {"direct", "ask"}
=============================================================================
