---------------------------- MODULE Activation ----------------------------
(***************************************************************************)
(* Pairing a Hermes profile with an agent (activate.py, device_id.py, the   *)
(* activations row of storage.py, the connect calls of api_client.py).      *)
(*                                                                         *)
(* A profile keeps its identity in three single slots: config.yaml, .env    *)
(* and the activations row.  An activation redeems a single-use code: it    *)
(* asks the backend about the code, decides whether the identity found here *)
(* may be replayed, redeems, and writes the three slots one after the       *)
(* other.  A profile made as a clone starts with a copy of the first two.   *)
(* Beside it run the gateway, which backfills or seeds the row and logs     *)
(* out when its pair is revoked, and the migration of tokens that an older  *)
(* plugin left in config.yaml.                                              *)
(***************************************************************************)
EXTENDS Naturals, FiniteSets

CONSTANTS
  Profiles,     \* Hermes profiles of one host
  Default,      \* the unnamed one: its own device id is the host's
  Codes,        \* connect codes the owner hands out
  Reconnect,    \* those that may be the reconnect prompt of agent 1
  Retries,      \* ACTIVATION_CONNECT_RETRIES
  MaxRuns, MaxSeeds, MaxLogouts, MaxFaults

None == "none"
Elsewhere == "elsewhere"            \* another host
Host == "host"                      \* legacy_host_device_id
NoToken == [agent |-> 0, session |-> 0, did |-> None]
Tombstone == [agent |-> 0, session |-> 1, did |-> None]   \* the key, written empty
NoRow == [uid |-> 0, device |-> None, token |-> NoToken]
NoConfig == [uid |-> 0, stamp |-> None, token |-> NoToken]
Idle == [stage |-> "idle", code |-> None, new |-> FALSE, repair |-> FALSE, uid |-> 0,
         device |-> None, tries |-> 0, waited |-> FALSE, token |-> NoToken]
NoMove == [stage |-> "off", conf |-> NoConfig, was |-> NoToken]
NoAgent == [session |-> 0, device |-> None, live |-> FALSE]
Agents == 1 .. (1 + Cardinality(Codes))

VARIABLES
  config,     \* platforms.clawchat.extra: user_id, profile, the legacy token
  env,        \* CLAWCHAT_TOKEN and CLAWCHAT_REFRESH_TOKEN of .env, as one pair
  row,        \* the activations row
  agent,      \* what the backend keeps of each agent
  code,       \* what the backend keeps of each code: bound to, redeemed by
  op,         \* the activation under way in each profile
  leaving,    \* the pair whose logout has cleared .env and not yet the row
  moving,     \* the migration under way, with what it has read of the slots
  paired,     \* agents each profile minted or was given by a bound code
  trusted,    \* profiles whose store could not answer the provenance check
  seeded,     \* profiles whose row was seeded by the first refresh
  cut,        \* profiles whose slots a crash or a lost write split
  overtaken,  \* the slots of each that a migration wrote from an older reading
  found,      \* what the activation found: the token, the row alone, or nothing
  settled,    \* profiles whose last activation ended
  redeemed,   \* redemptions: code, profile, agent replayed, device before and presented
  runs, seeds, logouts, faults

slots == <<config, env, row>>
server == <<agent, code>>
ghosts == <<paired, trusted, seeded, cut, overtaken, found, settled, redeemed>>
bounds == <<runs, seeds, logouts, faults>>
vars == <<slots, server, op, leaving, moving, ghosts, bounds>>

Fresh(p) == IF p = Default THEN Host ELSE p

(* The states an installation may be found in: one profile has paired agent *)
(* 1, under this release, under one that stamped no profile, or under one   *)
(* that kept the token in config.yaml; the owner may have deleted the agent *)
(* since.                                                                   *)
Paired(p, stamp, device, stored, did, old) ==
  LET t == [agent |-> 1, session |-> 1, did |-> IF did THEN device ELSE None]
      v == [config |-> [uid |-> 1, stamp |-> stamp, token |-> IF old THEN t ELSE NoToken],
            env |-> IF old THEN NoToken ELSE t,
            row |-> IF old THEN NoRow
                    ELSE [uid |-> 1, device |-> IF stored THEN device ELSE None, token |-> t]]
  IN  /\ config = [q \in Profiles |-> IF q = p THEN v.config ELSE NoConfig]
      /\ env = [q \in Profiles |-> IF q = p THEN v.env ELSE NoToken]
      /\ row = [q \in Profiles |-> IF q = p THEN v.row ELSE NoRow]
      /\ \E live \in BOOLEAN :
           agent = [a \in Agents |->
                      IF a = 1 THEN [session |-> 1, device |-> device, live |-> live] ELSE NoAgent]
      /\ paired = [q \in Profiles |-> IF q = p THEN {1} ELSE {}]

Init ==
  /\ \E p \in Profiles :
       \/ Paired(p, p, Fresh(p), TRUE, TRUE, FALSE)
       \/ \E stored, did \in BOOLEAN :
            ~(stored /\ did) /\ Paired(p, None, Host, stored, did, FALSE)
       \/ Paired(p, None, Host, FALSE, FALSE, TRUE)
  /\ code \in [Codes -> [bound : {0, 1}, by : {None, Elsewhere}]]
  /\ \A c \in Codes :
       /\ c \notin Reconnect => code[c] = [bound |-> 0, by |-> None]
       /\ code[c].by = Elsewhere => code[c].bound = 0
  /\ op = [p \in Profiles |-> Idle]
  /\ leaving = [p \in Profiles |-> NoToken]
  /\ moving = [p \in Profiles |-> NoMove]
  /\ trusted = {} /\ seeded = {} /\ cut = {} /\ settled = {}
  /\ overtaken = [p \in Profiles |-> {}]
  /\ found = [p \in Profiles |-> "nothing"]
  /\ redeemed = {}
  /\ runs = 0 /\ seeds = 0 /\ logouts = 0 /\ faults = 0

---------------------------------------------------------------------------
(* What an activation reads here.                                           *)

Value(t) == IF t = Tombstone THEN NoToken ELSE t

(* An identity another profile stamped is not replayed. *)
Existing(p) ==
  IF config[p].stamp \in {None, p} THEN config[p].uid ELSE 0

(* A row without an access token reads as no credentials at all. *)
Credentials(p) == IF row[p].token = NoToken THEN NoRow ELSE row[p]

PairedDevice(stored, t) ==
  CASE stored # None -> stored
    [] t.did # None -> t.did
    [] t # NoToken -> Host
    [] OTHER -> None

\* Mutant of Presented: every activation presents the id of its profile.
PresentedFresh(p, uid, new) == Fresh(p)

Presented(p, uid, new) ==
  LET d == PairedDevice(Credentials(p).device, Value(env[p]))
  IN  IF uid = 0 \/ new \/ d = None THEN Fresh(p) ELSE d

\* Mutant of Own: a profile that records no pairing passes too.
OwnUnlessOther(p, uid) == IF config[p].stamp # None THEN config[p].stamp = p
                          ELSE Credentials(p).uid \in {0, uid}

Own(p, uid) == IF config[p].stamp # None THEN config[p].stamp = p
               ELSE uid # 0 /\ Credentials(p).uid = uid

---------------------------------------------------------------------------
(* The activation.                                                          *)

To(p, o) == op' = [op EXCEPT ![p] = o]

Begin(p, c, new, repair) ==
  /\ \A q \in Profiles : op[q] = Idle
  /\ runs < MaxRuns
  /\ ~(new /\ repair)
  /\ LET uid == Existing(p)
     IN  /\ To(p, [Idle EXCEPT !.stage = "checking", !.code = c, !.new = new,
                               !.repair = repair, !.uid = uid,
                               !.device = Presented(p, uid, new)])
         /\ found' = [found EXCEPT ![p] =
              IF Value(env[p]) # NoToken THEN "token"
              ELSE IF uid # 0 /\ row[p].uid = uid /\ row[p].device = agent[uid].device
                THEN "row" ELSE "nothing"]
  /\ runs' = runs + 1
  /\ UNCHANGED <<slots, server, leaving, moving, paired, trusted, seeded, cut, overtaken,
                 settled, redeemed, seeds, logouts, faults>>

Ends(p) == To(p, Idle) /\ UNCHANGED <<trusted, found>>

\* Mutant of Goes: a code for a new agent replays the old id all the same.
GoesReplaying(p, o) == To(p, [o EXCEPT !.stage = "redeeming"])

Goes(p, o) == To(p, [o EXCEPT !.stage = "redeeming", !.uid = IF o.new THEN 0 ELSE o.uid])

Mismatched(c, uid) == code[c].bound # 0 /\ uid # 0 /\ uid # code[c].bound

(* What follows the answer to /connect/check; `asked` tells that there was  *)
(* one.  The provenance check reads config.yaml and the row again and lets  *)
(* the repair pass when the store cannot answer.                            *)
Decide(p, asked) ==
  LET o == op[p]
      bound == asked /\ code[o.code].bound # 0
      repair == o.repair \/ (bound /\ o.uid # 0)
      refused == \/ asked /\ (code[o.code].by # None \/ Mismatched(o.code, IF o.new THEN 0 ELSE o.uid))
                 \/ o.new /\ bound
                 \/ o.uid # 0 /\ ~o.new /\ ~repair
      unproven == o.uid # 0 /\ repair /\ ~bound /\ ~Own(p, o.uid)
      next == [o EXCEPT !.repair = repair]
  IN  /\ o.stage = "checking"
      /\ \/ (refused \/ unproven) /\ Ends(p) /\ UNCHANGED faults
         \/ ~refused /\ ~unproven /\ Goes(p, next) /\ UNCHANGED <<trusted, found, faults>>
         \/ /\ ~refused /\ unproven /\ config[p].stamp = None /\ faults < MaxFaults
            /\ Goes(p, next) /\ trusted' = trusted \union {p}
            /\ faults' = faults + 1 /\ UNCHANGED found
      /\ UNCHANGED <<slots, server, leaving, moving, paired, seeded, cut, overtaken,
                     settled, redeemed, runs, seeds, logouts>>

(* POST /v1/agents/connect, as the backend answers it: a code is redeemed   *)
(* once; with a user id it re-pairs that agent, without one a bound code    *)
(* restores its agent and any other mints a new one.                        *)
Target(o) == IF o.uid # 0 THEN o.uid
             ELSE IF code[o.code].bound # 0 THEN code[o.code].bound
             ELSE CHOOSE a \in Agents : agent[a].session = 0 /\ \A b \in Agents : agent[b].session = 0 => a <= b

Redeem(p, lost) ==
  LET o == op[p]
      minted == o.uid = 0 /\ code[o.code].bound = 0
      a == Target(o)
      t == [agent |-> a, session |-> agent[a].session + 1, did |-> o.device]
  IN  /\ o.stage = "redeeming"
      /\ code[o.code].by = None /\ ~Mismatched(o.code, o.uid)
      /\ minted \/ agent[a].live
      /\ agent' = [agent EXCEPT ![a] = [session |-> t.session, device |-> o.device, live |-> TRUE]]
      /\ code' = [code EXCEPT ![o.code].by = p]
      /\ redeemed' = redeemed \union
           {[code |-> o.code, by |-> p, uid |-> o.uid, was |-> agent[a].device, device |-> o.device,
             own |-> a \in paired[p] \/ code[o.code].bound # 0,
             excused |-> p \in trusted \/ p \in seeded,
             split |-> \/ p \in cut \/ overtaken[p] # {} \/ \E q \in Profiles \ {p} : a \in paired[q]
                       \/ \E x \in redeemed : x.uid = a /\ x.by # p,
             found |-> found[p]]}
      /\ paired' = IF minted \/ code[o.code].bound # 0
                     THEN [paired EXCEPT ![p] = @ \union {a}] ELSE paired
      /\ IF lost THEN faults < MaxFaults /\ faults' = faults + 1 ELSE UNCHANGED faults
      /\ To(p, IF lost THEN Idle ELSE [o EXCEPT !.stage = "env", !.token = t])
          /\ cut' = IF lost THEN cut \union {p} ELSE cut
      /\ UNCHANGED <<slots, leaving, moving, trusted, seeded, overtaken, found, settled, runs,
                     seeds, logouts>>

(* 16001: the replayed agent is gone, the code is untouched. *)
Gone(p) ==
  LET o == op[p]
  IN  /\ o.stage = "redeeming" /\ o.uid # 0 /\ ~agent[o.uid].live
      /\ code[o.code].by = None /\ ~Mismatched(o.code, o.uid)
      /\ To(p, [o EXCEPT !.uid = 0, !.device = Fresh(p), !.tries = 0, !.waited = FALSE])
      /\ UNCHANGED <<slots, server, leaving, moving, ghosts, bounds>>

Refused(p) ==
  LET o == op[p]
  IN  /\ o.stage = "redeeming"
      /\ code[o.code].by # None \/ Mismatched(o.code, o.uid)
      /\ Ends(p)
      /\ UNCHANGED <<slots, server, leaving, moving, paired, seeded, cut, overtaken,
                     settled, redeemed, bounds>>

(* Never reached the server: again, a bounded number of times.  Rate        *)
(* limited: again once.                                                     *)
Unreached(p, limited) ==
  LET o == op[p]
      again == IF limited THEN ~o.waited ELSE o.tries < Retries
  IN  /\ o.stage = "redeeming" /\ faults < MaxFaults
      /\ faults' = faults + 1
      /\ IF again
           THEN To(p, IF limited THEN [o EXCEPT !.waited = TRUE] ELSE [o EXCEPT !.tries = @ + 1])
                /\ UNCHANGED <<trusted, found>>
           ELSE Ends(p)
      /\ UNCHANGED <<slots, server, leaving, moving, paired, seeded, cut, overtaken,
                     settled, redeemed, runs, seeds, logouts>>

(* persist_activation reads config.yaml, writes .env, then config.yaml.     *)
SaveEnv(p) ==
  /\ op[p].stage = "env"
  /\ To(p, [op[p] EXCEPT !.stage = "config"])
  /\ env' = [env EXCEPT ![p] = op[p].token]
  /\ settled' = settled \ {p}
  /\ cut' = cut \ {p} /\ overtaken' = [overtaken EXCEPT ![p] = @ \ {"env"}]
  /\ UNCHANGED <<config, row, server, leaving, moving, paired, trusted, seeded, found,
                 redeemed, bounds>>

SaveConfig(p) ==
  /\ op[p].stage = "config"
  /\ To(p, [op[p] EXCEPT !.stage = "row"])
  /\ config' = [config EXCEPT ![p] = [uid |-> op[p].token.agent, stamp |-> p, token |-> NoToken]]
  /\ overtaken' = [overtaken EXCEPT ![p] = @ \ {"config"}]
  /\ UNCHANGED <<env, row, server, leaving, moving, paired, trusted, seeded, cut, found,
                 settled, redeemed, bounds>>

(* A failing write of the row is logged and the activation reported done.   *)
SaveRow(p, written) ==
  LET t == op[p].token
  IN  /\ op[p].stage = "row"
      /\ To(p, Idle)
      /\ IF written
           THEN /\ row' = [row EXCEPT ![p] = [uid |-> t.agent, device |-> op[p].device, token |-> t]]
                /\ settled' = settled \union {p}
                /\ UNCHANGED <<cut, faults>>
           ELSE /\ faults < MaxFaults /\ faults' = faults + 1
                /\ cut' = cut \union {p} /\ UNCHANGED <<row, settled>>
      /\ UNCHANGED <<config, env, server, leaving, moving, paired, trusted, seeded, overtaken,
                     found, redeemed, runs, seeds, logouts>>

(* The process of an activation dies. *)
Crash(p) ==
  /\ op[p] # Idle /\ faults < MaxFaults
  /\ faults' = faults + 1
  /\ To(p, Idle)
  /\ cut' = IF op[p].stage \in {"env", "config", "row"} THEN cut \union {p} ELSE cut
  /\ UNCHANGED <<slots, server, leaving, moving, paired, trusted, seeded, overtaken, found,
                 settled, redeemed, runs, seeds, logouts>>

---------------------------------------------------------------------------
(* What else writes the slots.                                              *)

(* hermes profile create --clone *)
Clone(p, q) ==
  /\ p # q /\ config[q] = NoConfig /\ env[q] = NoToken /\ row[q] = NoRow /\ op[q] = Idle
  /\ config[p] # NoConfig
  /\ config' = [config EXCEPT ![q] = config[p]]
  /\ env' = [env EXCEPT ![q] = env[p]]
  /\ UNCHANGED <<row, server, op, leaving, moving, ghosts, bounds>>

(* A connection writes the device id it presents into a row without one.    *)
Backfilled(p, d) == IF row[p].device = None THEN [row EXCEPT ![p].device = d] ELSE row

Connect(p) ==
  LET t == IF Credentials(p) # NoRow THEN row[p].token ELSE Value(env[p])
  IN  /\ t # NoToken /\ row[p] # NoRow
      /\ row' = Backfilled(p, PairedDevice(row[p].device, t))
      /\ UNCHANGED <<config, env, server, op, leaving, moving, ghosts, bounds>>

(* The first refresh of a pair that came from .env inserts the row. *)
Seed(p) ==
  LET t == Value(env[p])
  IN  /\ row[p] = NoRow /\ t # NoToken /\ seeds < MaxSeeds
      /\ row' = [row EXCEPT ![p] = [uid |-> t.agent, device |-> PairedDevice(None, t), token |-> t]]
      /\ seeded' = seeded \union {p}
      /\ seeds' = seeds + 1
      /\ UNCHANGED <<config, env, server, op, leaving, moving, paired, trusted, cut,
                     overtaken, found, settled, redeemed, runs, logouts, faults>>

(* Logout compares and clears .env under its lock, then the row, each only  *)
(* where it still holds the pair whose refresh was refused.                 *)
LogoutEnv(p) ==
  LET t == IF Credentials(p) # NoRow THEN row[p].token ELSE Value(env[p])
  IN  /\ t \notin {NoToken, op[p].token} /\ leaving[p] = NoToken /\ logouts < MaxLogouts
      /\ leaving' = [leaving EXCEPT ![p] = t]
      /\ env' = IF env[p] \in {t, NoToken} THEN [env EXCEPT ![p] = Tombstone] ELSE env
      /\ logouts' = logouts + 1
      /\ UNCHANGED <<config, row, server, op, moving, ghosts, runs, seeds, faults>>

\* Mutant of Cleared: the row is cleared whatever pair it holds.
ClearedAnyPair(p) == [row EXCEPT ![p].token = NoToken]

Cleared(p) == IF row[p].token = leaving[p] THEN [row EXCEPT ![p].token = NoToken] ELSE row

LogoutRow(p) ==
  /\ leaving[p] # NoToken
  /\ leaving' = [leaving EXCEPT ![p] = NoToken]
  /\ row' = Cleared(p)
  /\ UNCHANGED <<config, env, server, op, moving, ghosts, bounds>>

(* Registration moves a token of config.yaml to .env, where there is none,  *)
(* and strips it.  It reads config.yaml, then .env, and writes them in      *)
(* turn; what another process wrote between is overwritten.                 *)
MigrateRead(p) ==
  /\ moving[p] = NoMove /\ config[p].token # NoToken
  /\ moving' = [moving EXCEPT ![p] = [NoMove EXCEPT !.stage = "looks", !.conf = config[p]]]
  /\ UNCHANGED <<slots, server, op, leaving, ghosts, bounds>>

MigrateLooks(p) ==
  /\ moving[p].stage = "looks"
  /\ moving' = [moving EXCEPT ![p].stage = IF Value(env[p]) = NoToken THEN "env" ELSE "config",
                              ![p].was = env[p]]
  /\ UNCHANGED <<slots, server, op, leaving, ghosts, bounds>>

Overtaken(p, slot, stale) ==
  overtaken' = IF stale THEN [overtaken EXCEPT ![p] = @ \union {slot}] ELSE overtaken

MigrateEnv(p) ==
  LET m == moving[p]
  IN  /\ m.stage = "env"
      /\ env' = [env EXCEPT ![p] = m.conf.token]
      /\ moving' = [moving EXCEPT ![p].stage = "config"]
      /\ Overtaken(p, "env", config[p] # m.conf \/ env[p] # m.was)
      /\ UNCHANGED <<config, row, server, op, leaving, paired, trusted, seeded, cut, found,
                     settled, redeemed, bounds>>

MigrateConfig(p) ==
  LET m == moving[p]
  IN  /\ m.stage = "config"
      /\ config' = [config EXCEPT ![p] = [m.conf EXCEPT !.token = NoToken]]
      /\ moving' = [moving EXCEPT ![p] = NoMove]
      /\ Overtaken(p, "config", config[p] # m.conf)
      /\ UNCHANGED <<env, row, server, op, leaving, paired, trusted, seeded, cut, found,
                     settled, redeemed, bounds>>

(* A write that fails is logged, or the process dies; the next registration *)
(* tries again.                                                             *)
MigrateFails(p) ==
  /\ moving[p] # NoMove /\ faults < MaxFaults
  /\ faults' = faults + 1
  /\ moving' = [moving EXCEPT ![p] = NoMove]
  /\ UNCHANGED <<slots, server, op, leaving, ghosts, runs, seeds, logouts>>

Next ==
  \E p \in Profiles :
    \/ \E c \in Codes, new, repair \in BOOLEAN : Begin(p, c, new, repair)
    \/ \E asked \in BOOLEAN : Decide(p, asked)
    \/ \E lost \in BOOLEAN : Redeem(p, lost)
    \/ Gone(p) \/ Refused(p)
    \/ \E limited \in BOOLEAN : Unreached(p, limited)
    \/ SaveEnv(p) \/ SaveConfig(p)
    \/ \E written \in BOOLEAN : SaveRow(p, written)
    \/ Crash(p)
    \/ \E q \in Profiles : Clone(p, q)
    \/ Connect(p) \/ Seed(p)
    \/ LogoutEnv(p) \/ LogoutRow(p)
    \/ MigrateRead(p) \/ MigrateLooks(p) \/ MigrateEnv(p) \/ MigrateConfig(p)
    \/ MigrateFails(p)

\* What an instance may limit further: the mishaps of a behaviour.
Mishaps == seeds + logouts + faults

Spec == Init /\ [][Next]_vars

---------------------------------------------------------------------------
Tokens == [agent : Agents \union {0}, session : Nat, did : Profiles \union {None, Host}]

(* The slots and the stages; an activation that mints replays no agent, and *)
(* one that writes has the token of the code it redeemed.                   *)
TypeOK ==
  /\ config \in [Profiles -> [uid : Agents \union {0}, stamp : Profiles \union {None}, token : Tokens]]
  /\ env \in [Profiles -> Tokens]
  /\ row \in [Profiles -> [uid : Agents \union {0}, device : Profiles \union {None, Host},
                           token : Tokens]]
  /\ code \in [Codes -> [bound : {0, 1}, by : Profiles \union {None, Elsewhere}]]
  /\ \A p \in Profiles :
       /\ op[p].stage \in {"idle", "checking", "redeeming", "env", "config", "row"}
       /\ op[p].stage = "redeeming" /\ op[p].new => op[p].uid = 0
       /\ op[p].stage \in {"env", "config", "row"} =>
            op[p].token.agent # 0 /\ code[op[p].code].by = p

(* A code that is not an agent's reconnect code never re-pairs an agent     *)
(* this profile neither minted nor was given: a clone's inherited identity  *)
(* is not mistaken for its own, whichever flags the operator passes         *)
(* (_read_existing_user_id, _identity_is_this_profiles_own).  Excepted are  *)
(* a store that could not answer and a row the clone's gateway seeded from  *)
(* the copied pair.                                                         *)
NoForeignRepair ==
  \A r \in redeemed : (r.uid # 0 /\ ~r.own) => r.excused

(* A repair presents the device id its agent was last paired with, so the   *)
(* backend keeps its delivery cursor (_resolve_activation_device_id).       *)
(* Excepted are profiles whose token was gone, slots that a crash split,    *)
(* and agents that two profiles pair.                                       *)
RepairKeepsDevice ==
  \A r \in redeemed :
    (r.uid # 0 /\ r.own /\ r.device # r.was) => (r.split \/ r.found # "token")

(* The same for a profile that was logged out: its row still holds the id.  *)
LoggedOutRepairKeepsDevice ==
  \A r \in redeemed :
    (r.uid # 0 /\ r.own /\ r.device # r.was) => (r.split \/ r.found = "nothing")

(* Once an activation is over, whatever a logout of the pair before it, a   *)
(* connection or a migration did meanwhile, the three slots name one agent, *)
(* and .env and the row hold one pair or none.  Excepted are slots a crash  *)
(* or a lost write split, and the one slot that a migration overwrote from  *)
(* a reading older than what it held.                                       *)
SlotsAgree ==
  \A p \in settled \ cut :
    op[p] = Idle /\ leaving[p] = NoToken =>
      /\ "config" \notin overtaken[p] => row[p].uid = config[p].uid
      /\ "env" \notin overtaken[p] =>
           /\ row[p].token = Value(env[p])
           /\ Value(env[p]) # NoToken => env[p].agent = row[p].uid

(* "env wins - never overwrite" (migrate_legacy_config_tokens): a migration *)
(* never replaces a pair that .env holds.  The code violates it: another    *)
(* process may write .env between the migration's look and its write.       *)
EnvWins ==
  [][\A p \in Profiles :
       moving[p].stage = "env" /\ moving'[p].stage = "config" => Value(env[p]) = NoToken]_vars

===========================================================================
