------------------------------ MODULE LiveRouter ------------------------------
(***************************************************************************)
(* ExternalExecutiveRouterLiveMachine (src/src/neural_computer/live.py) as *)
(* the machine of a live runtime: it credits the outcomes it is given,     *)
(* selects an admitted skill through ExternalExecutiveSkillRouter, and     *)
(* ticks the skill's machine until that halts.                             *)
(*                                                                         *)
(* A tick takes the outcomes one by one and then acts; any step of it may  *)
(* raise, and the exception leaves behind what the earlier steps did.  The *)
(* batch is not chosen before it is read: the next outcome is picked when  *)
(* the loop comes to it.  The runtime (LiveTick) closes the receipts of a  *)
(* batch only when tick has returned, so the outcomes of a tick that raised*)
(* may come again.  A receipt whose outcome never comes stands also for a  *)
(* proposal the runtime drops, and for one whose outcome is masked as      *)
(* absent, which closes it and is passed over.  The bank may grow between  *)
(* two ticks.                                                              *)
(***************************************************************************)
EXTENDS RouteEvidence, Sequences

CONSTANTS
  Contexts,      (* encoded route contexts, apart by more than the tolerance*)
  NoContext,     (* nothing selected                                       *)
  Rewards,       (* rewards an outcome may carry; any finite number may    *)
  AllSlots,      (* bound: slots the bank may come to have; the order they *)
                 (* are appended in breaks ties of a selection, and is     *)
                 (* left out                                               *)
  MaxReceipts,   (* bound: proposals made                                  *)
  MaxEpisodes,   (* bound: episodes                                        *)
  Repeated       (* bound: receipts whose outcome is reported a second time*)

ASSUME RouterAssumption ==
  /\ NoContext \notin Contexts
  /\ Rewards \subseteq Int
  /\ NoSlot \notin AllSlots
  /\ MaxReceipts \in Nat /\ MaxEpisodes \in Nat
  /\ Repeated \subseteq 1 .. MaxReceipts

Receipts == 1 .. MaxReceipts
NoSelection == [slot |-> NoSlot, context |-> NoContext]
NoRewards == [count |-> 0, sum |-> 0]

(* A skill's machine is able to run, halted or out of budget; one that is  *)
(* not yet instantiated will be ready.                                     *)
MachineStates == {"ready", "halted", "exhausted"}

VARIABLES
  feedback,      (* route_feedback_mode                                    *)
  slots,         (* slots of the bank's executive programs                 *)
  ledgers,       (* the bank's route records, one for each context         *)
  machines,      (* _machines and the status of each                       *)
  active,        (* _active_selection                                      *)
  credited,      (* _episode_selection                                     *)
  rewards,       (* _episode_rewards: how many, and their sum              *)
  pending,       (* receipts the runtime holds open                        *)
  proposals,     (* the route credit of every receipt                      *)
  taken,         (* present outcomes this tick has gone through            *)
  (* History.                                                              *)
  episode,       (* number of the present episode                          *)
  issued,        (* the episode each receipt was issued in                 *)
  credits,       (* how often the reward of each open receipt was credited *)
  cut,           (* open receipts whose outcome a tick took before it raised*)
  earners,       (* receipts whose rewards are in rewards                  *)
  log            (* outcomes of each slot since it was new or reversed:    *)
                 (* [value, total], total being the running sum            *)

bankVars    == <<slots, ledgers>>
episodeVars == <<credited, rewards, earners>>
skillVars   == <<machines, active>>
receiptVars == <<pending, proposals, issued>>
histVars    == <<episode, credits, cut>>
vars == <<feedback, bankVars, log, skillVars, episodeVars, receiptVars,
          taken, histVars>>

Issued == 1 .. Len(proposals)

(* No tick is under way.                                                   *)
Between == taken = {}

(* What may be selected.                                                   *)
Selections == [slot : slots, context : Contexts]

TypeOK ==
  /\ feedback \in {"episode_mean", "per_outcome"}
  /\ slots \subseteq AllSlots
  /\ ledgers \in [Contexts -> Ledgers(slots)]
  /\ machines \in [AllSlots -> MachineStates]
  /\ active \in Selections \union {NoSelection}
  /\ credited \in Selections \union {NoSelection}
  /\ rewards \in [count : Nat, sum : Int]
  /\ (credited = NoSelection) <=> (rewards.count = 0)
  /\ proposals \in Seq(Selections) /\ Len(proposals) <= MaxReceipts
  /\ pending \subseteq Issued
  /\ taken \subseteq pending
  /\ episode \in Nat
  /\ issued \in Seq(Nat) /\ Len(issued) = Len(proposals)
  /\ credits \in [Receipts -> Nat]
  /\ cut \subseteq pending
  /\ earners \subseteq Issued
  /\ log \in [Contexts -> [AllSlots -> Seq([value : Outcomes, total : Nat])]]

Init ==
  /\ feedback \in {"episode_mean", "per_outcome"}
  /\ slots = {}
  /\ ledgers = [c \in Contexts |-> NewLedger({})]
  /\ machines = [s \in AllSlots |-> "ready"]
  /\ active = NoSelection
  /\ credited = NoSelection /\ rewards = NoRewards
  /\ pending = {} /\ proposals = <<>>
  /\ taken = {}
  /\ episode = 1 /\ issued = <<>>
  /\ credits = [r \in Receipts |-> 0]
  /\ cut = {} /\ earners = {}
  /\ log = [c \in Contexts |-> [s \in AllSlots |-> <<>>]]

-----------------------------------------------------------------------------
(* What mastery and reversal mean, said of the outcomes themselves.        *)

(* The first MinMastery outcomes reach the threshold on average, or some   *)
(* MinMastery outcomes in a row reach it each; at is the last of them.     *)
MasteredAt(l, at) ==
  \/ at = MinMastery /\ l[at].total >= Mastery * MinMastery
  \/ at >= MinMastery
       /\ \A j \in at - MinMastery + 1 .. at : l[j].value >= Mastery

(* Protected, and then Patience low outcomes in a row.                     *)
ReversedBy(l) ==
  \E at \in DOMAIN l :
    /\ MasteredAt(l, at)
    /\ Len(l) >= at + Patience
    /\ \A j \in Len(l) - Patience + 1 .. Len(l) : l[j].value <= Reversal

Total(l) == IF l = <<>> THEN 0 ELSE l[Len(l)].total

Longer(l, v) == Append(l, [value |-> v, total |-> Total(l) + v])

Logged(l, v) == IF ReversedBy(Longer(l, v)) THEN <<>> ELSE Longer(l, v)

-----------------------------------------------------------------------------
(* The tick ends: with an exception, or by returning.                      *)

Raise ==
  /\ taken' = {}
  /\ cut' = cut \union taken
  /\ UNCHANGED <<feedback, bankVars, log, episodeVars, receiptVars, episode,
                 credits>>

(* The runtime closes the receipts of the batch.                           *)
StillPending == pending \ taken

Close(opened) ==
  /\ taken' = {}
  /\ pending' = StillPending \union opened
  /\ credits' = [r \in Receipts |-> IF r \in StillPending THEN credits[r] ELSE 0]
  /\ cut' = cut \intersect StillPending
  /\ UNCHANGED <<feedback, bankVars, log, episodeVars, episode>>

Silent == Close({}) /\ UNCHANGED <<proposals, issued>>

-----------------------------------------------------------------------------
(* _observe_outcomes: the outcomes of open receipts, each once in a tick.  *)

Due(r) ==
  /\ r \in pending \ taken
  /\ \/ credits[r] = 0
     \/ credits[r] = 1 /\ r \in Repeated

(* bank.observe_executive_route: one outcome for one slot in one context.  *)
ObserveRoute(selection, v) ==
  /\ ledgers' = [ledgers EXCEPT ![selection.context] =
                   ObserveSlot(@, selection.slot, v)]
  /\ log' = [log EXCEPT ![selection.context][selection.slot] = Logged(@, v)]
  /\ UNCHANGED slots

Credit(r) ==
  /\ credits' = [credits EXCEPT ![r] = @ + 1]
  /\ taken' = taken \union {r}
  /\ UNCHANGED <<feedback, skillVars, receiptVars, episode, cut>>

InRange(v) == v \in Outcomes

CreditPerOutcome(r, v) ==
  /\ Due(r) /\ feedback = "per_outcome" /\ InRange(v)
  /\ ObserveRoute(proposals[r], v)
  /\ Credit(r)
  /\ UNCHANGED episodeVars

(* router.observe refuses a reward outside [0, 1].                         *)
PerOutcomeRaises(r, v) ==
  /\ Due(r) /\ feedback = "per_outcome" /\ ~ InRange(v)
  /\ Raise
  /\ UNCHANGED skillVars

(* The outcome belongs to the skill this episode's mean is for.            *)
SameRoute(selection) ==
  credited = NoSelection \/ credited.slot = selection.slot

CollectReward(r, v) ==
  /\ Due(r) /\ feedback = "episode_mean" /\ SameRoute(proposals[r])
  /\ credited' = IF credited = NoSelection THEN proposals[r] ELSE credited
  /\ rewards' = [count |-> rewards.count + 1, sum |-> rewards.sum + v]
  /\ earners' = earners \union {r}
  /\ Credit(r)
  /\ UNCHANGED <<bankVars, log>>

(* Mutation: the outcome of another skill is passed over.                  *)
RouteChangedSkips(r) ==
  /\ Due(r) /\ feedback = "episode_mean" /\ ~ SameRoute(proposals[r])
  /\ taken' = taken \union {r}
  /\ UNCHANGED <<feedback, bankVars, log, skillVars, episodeVars, receiptVars,
                 histVars>>

(* "live executive route changed inside an episode"                        *)
RouteChangedRaises(r) ==
  /\ Due(r) /\ feedback = "episode_mean" /\ ~ SameRoute(proposals[r])
  /\ Raise
  /\ UNCHANGED skillVars

-----------------------------------------------------------------------------
(* The rest of the tick.                                                   *)

NothingToDo ==
  /\ active = NoSelection
  /\ Silent
  /\ UNCHANGED skillVars

(* The bank is empty, or the encoder raises.                               *)
SelectRaises ==
  /\ active = NoSelection
  /\ Raise
  /\ UNCHANGED skillVars

(* The selection this tick acts on: the active one, or a new one for the   *)
(* context that the tick's events encode to.                               *)
Selected ==
  IF active # NoSelection THEN {active}
  ELSE UNION {{[slot |-> s, context |-> c] : s \in Choices(ledgers[c])} :
                c \in Contexts}

(* Mutation: a new selection gets a new machine.                           *)
StatusNew(sel) == IF active = NoSelection THEN "ready" ELSE machines[sel.slot]

(* _machine_for: the cached machine of the slot, in whatever state it is.  *)
Status(sel) == machines[sel.slot]

(* The program emits; the decoder turns its intention into a proposal.     *)
Emits(sel) ==
  /\ Status(sel) = "ready"
  /\ Len(proposals) < MaxReceipts
  /\ proposals' = Append(proposals, sel)
  /\ issued' = Append(issued, episode)
  /\ Close({Len(proposals')})
  /\ active' = sel
  /\ UNCHANGED machines

(* The program emits, its state moves on, and the decoder raises; or the   *)
(* program raises, and its state stays where it was.  An exhausted one     *)
(* always raises.                                                          *)
MachineRaises(sel) ==
  /\ Status(sel) \in {"ready", "exhausted"}
  /\ Raise
  /\ active' = sel
  /\ UNCHANGED machines

(* Mutation: a tick without an intention gives up the selection.           *)
KeptNever(sel, status) == NoSelection

(* After a tick without an intention only a halted program gives up the    *)
(* selection; the next tick makes one.                                     *)
Kept(sel, status) == IF status = "halted" THEN NoSelection ELSE sel

(* The program waits, or its instructions run out: then it raises in later *)
(* ticks.                                                                  *)
Waits(sel, status) ==
  /\ Status(sel) = "ready" /\ status \in {"ready", "exhausted"}
  /\ machines' = [machines EXCEPT ![sel.slot] = status]
  /\ active' = Kept(sel, status)
  /\ Silent

(* The program halts, or had halted before it was selected again.          *)
Halts(sel) ==
  /\ Status(sel) \in {"ready", "halted"}
  /\ machines' = [machines EXCEPT ![sel.slot] = "halted"]
  /\ active' = Kept(sel, "halted")
  /\ Silent

-----------------------------------------------------------------------------
(* Between ticks.                                                          *)

(* The episode's mean; rewards and counts are chosen so that it is exact.  *)
Mean == rewards.sum \div rewards.count

ForgetEpisode ==
  /\ credited' = NoSelection /\ rewards' = NoRewards /\ earners' = {}

(* finish_episode.  When the mean is outside [0, 1] router.observe raises  *)
(* and nothing changes: not the rewards either, so that a later call meets *)
(* them again.                                                             *)
Commit ==
  /\ ForgetEpisode
  /\ IF feedback = "per_outcome" \/ credited = NoSelection
     THEN UNCHANGED <<bankVars, log>>
     ELSE InRange(Mean) /\ ObserveRoute(credited, Mean)

FinishEpisode ==
  /\ Between
  /\ Commit
  /\ UNCHANGED <<feedback, skillVars, receiptVars, taken, histVars>>

Reset ==
  /\ Between /\ episode < MaxEpisodes
  /\ Commit
  /\ active' = NoSelection
  /\ machines' = [s \in AllSlots |-> "ready"]
  /\ episode' = episode + 1
  /\ UNCHANGED <<feedback, receiptVars, taken, credits, cut>>

(* The bank admits a skill: every context's record gets a row for it.      *)
Grow ==
  /\ Between
  /\ \E s \in AllSlots \ slots :
       /\ slots' = slots \union {s}
       /\ ledgers' = [c \in Contexts |-> AppendSlot(ledgers[c], s)]
  /\ UNCHANGED <<feedback, log, skillVars, episodeVars, receiptVars, taken,
                 histVars>>

-----------------------------------------------------------------------------
Next ==
  \/ \E r \in Receipts : RouteChangedRaises(r)
  \/ \E r \in Receipts, v \in Rewards :
       \/ CreditPerOutcome(r, v) \/ PerOutcomeRaises(r, v)
       \/ CollectReward(r, v)
  \/ NothingToDo \/ SelectRaises
  \/ \E sel \in Selected :
       \/ Emits(sel) \/ MachineRaises(sel) \/ Halts(sel)
       \/ \E status \in {"ready", "exhausted"} : Waits(sel, status)
  \/ FinishEpisode \/ Reset \/ Grow

Spec == Init /\ [][Next]_vars

-----------------------------------------------------------------------------
(* A slot is protected in a context exactly when its outcomes there, since *)
(* it was new or last reversed, have mastered it; and only such a slot is  *)
(* preferred.  The counters of PersistentOpaqueRouteEvidence.observe, kept *)
(* across prefixes, streaks and reversals, decide it from the last outcome *)
(* alone.                                                                  *)
ProtectionIsMastery ==
  \A c \in Contexts :
    /\ \A s \in slots :
         ledgers[c].rows[s].protected
           <=> \E at \in DOMAIN log[c][s] : MasteredAt(log[c][s], at)
    /\ ledgers[c].preferred # NoSlot
         => ledgers[c].rows[ledgers[c].preferred].protected

(* "Select one verified executive skill per live episode" (live.py:759), as*)
(* far as it goes: within an episode the acting skill changes only after   *)
(* its program halted, and does not act again in that episode.             *)
SkillChangesOnlyAfterHalt ==
  \A i, j \in Issued :
    /\ issued[i] = episode /\ issued[j] = episode
    /\ i < j /\ proposals[i].slot # proposals[j].slot
    => /\ machines[proposals[i].slot] = "halted"
       /\ \A k \in Issued : k > j => proposals[k].slot # proposals[i].slot

(* The mean that finish_episode commits is credited to the skill every one *)
(* of its rewards was earned by, and, but for rewards of an earlier        *)
(* episode that came late, in the context it was selected in.              *)
MeanIsTheSelections ==
  \A r, q \in earners :
    /\ proposals[r].slot = credited.slot
    /\ issued[r] = issued[q] => proposals[r] = proposals[q]

(* Every present outcome a tick goes through is credited, and credited     *)
(* again only if the tick that had it raised and left its receipt open.    *)
CreditedOnce ==
  \A r \in Issued :
    /\ r \in taken => credits[r] > 0
    /\ credits[r] > 1 => r \in cut
=============================================================================
