--------------------------- MODULE ReplayCampaign ---------------------------
(***************************************************************************)
(* Paced replay campaigns over dead letters (engine/campaign.go,           *)
(* httpapi/campaigns.go).                                                  *)
(*                                                                         *)
(* A campaign is created from open dead letters, which stay in the hands   *)
(* of everybody else: another campaign, an operator who redrives or closes *)
(* one by hand, retention.  Pumps of several replicas take a due campaign, *)
(* lease one of its items under a fresh token, redrive the dead letter in  *)
(* a transaction of its own and settle the item with a compare-and-set on  *)
(* the token.  A pump may die, or fall asleep for longer than its lease,   *)
(* between any two of these statements.                                    *)
(***************************************************************************)
EXTENDS Naturals, FiniteSets

CONSTANTS
    Campaign,
    Letter,         \* dead letters, by cohort position
    Pump,
    MaxTokens,      \* bound on item leases
    MaxFaults       \* bound on crashes, lost answers and operator interference

ASSUME CampaignBounds ==
    /\ Letter \subseteq Nat \ {0} /\ IsFiniteSet(Letter)
    /\ MaxTokens \in Nat /\ MaxFaults \in Nat
    /\ "operator" \notin Campaign /\ "nobody" \notin Campaign

VARIABLES
    letter,     \* dead_letters, and the state of the failed node behind each
    campaign,   \* replay_campaigns
    item,       \* replay_campaign_items
    draft,      \* the cohort a create request has previewed, {} for none
    pump,       \* what each pump holds
    tokens,     \* claim tokens issued
    faults

vars == <<letter, campaign, item, draft, pump, tokens, faults>>

Settled == {"replayed", "failed", "cancelled"}

(* by: whose redrive claimed the letter (replay_claimed_at).  node: the run  *)
(* node can be revived ("failed"), was revived, or runs again in a rerun.    *)
LetterRow == [status : {"open", "replayed", "resolved", "purged"},
              by : Campaign \cup {"operator", "nobody"},
              node : {"failed", "revived", "rerun"}]
CampaignRow == [status : {"none", "running", "completed", "cancelled"}, due : BOOLEAN,
                total : Nat, replayed : Nat, failed : Nat, cancelled : Nat]
(* stale: claimed more than ten minutes ago.                                 *)
ItemRow == [status : {"none", "pending", "processing"} \cup Settled,
            token : 0..MaxTokens, stale : BOOLEAN]

(* What a pump holds, by the statement it executes next.                     *)
Held == [phase : {"idle"}]
   \cup [phase : {"item", "complete"}, campaign : Campaign]
   \cup [phase : {"redrive"}, campaign : Campaign, letter : Letter, token : 1..MaxTokens]
   \cup [phase : {"settle"}, campaign : Campaign, letter : Letter, token : 1..MaxTokens,
         outcome : {"replayed", "failed"}]

NoCampaign == [status |-> "none", due |-> FALSE, total |-> 0, replayed |-> 0,
               failed |-> 0, cancelled |-> 0]
NoItem == [status |-> "none", token |-> 0, stale |-> FALSE]

(* The status of an item changes; its token stays, its lease ends.           *)
Moved(row, to) == [row EXCEPT !.status = to, !.stale = FALSE]

Items(c, S) == {d \in Letter : item[c][d].status \in S}

Init ==
    /\ letter = [d \in Letter |-> [status |-> "open", by |-> "nobody", node |-> "failed"]]
    /\ campaign = [c \in Campaign |-> NoCampaign]
    /\ item = [c \in Campaign |-> [d \in Letter |-> NoItem]]
    /\ draft = [c \in Campaign |-> {}]
    /\ pump = [p \in Pump |-> [phase |-> "idle"]]
    /\ tokens = 0 /\ faults = 0

Fault == faults < MaxFaults /\ faults' = faults + 1

-----------------------------------------------------------------------------
(* The API. *)

(* previewCohort: at least two letters, all of them open now.                *)
PreviewCohort(c, S) ==
    /\ campaign[c].status = "none" /\ draft[c] = {}
    /\ Cardinality(S) >= 2 /\ \A d \in S : letter[d].status = "open"
    /\ draft' = [draft EXCEPT ![c] = S]
    /\ UNCHANGED <<letter, campaign, item, pump, tokens, faults>>

(* campaignCreateCore inserts the campaign and its items in one transaction, *)
(* due at once.                                                              *)
CreateCampaign(c) ==
    /\ draft[c] # {}
    /\ campaign' = [campaign EXCEPT ![c] = [NoCampaign EXCEPT
         !.status = "running", !.due = TRUE, !.total = Cardinality(draft[c])]]
    /\ item' = [item EXCEPT ![c] = [d \in Letter |->
         IF d \in draft[c] THEN Moved(NoItem, "pending") ELSE NoItem]]
    /\ draft' = [draft EXCEPT ![c] = {}]
    /\ UNCHANGED <<letter, pump, tokens, faults>>

(* CancelRunningReplayCampaign: pending items are cancelled and counted with *)
(* it, items in flight are left to their pump.                               *)
Withdrawn(row, n) == [row EXCEPT !.status = "cancelled", !.cancelled = row.cancelled + n]
CancelCampaign(c) ==
    /\ campaign[c].status = "running"
    /\ campaign' = [campaign EXCEPT ![c] = Withdrawn(campaign[c], Cardinality(Items(c, {"pending"})))]
    /\ item' = [item EXCEPT ![c] = [d \in Letter |->
         IF item[c][d].status = "pending" THEN Moved(item[c][d], "cancelled") ELSE item[c][d]]]
    /\ UNCHANGED <<letter, draft, pump, tokens, faults>>

-----------------------------------------------------------------------------
(* Redrive of one dead letter (RedriveDeadLetterWithOptions). *)

(* ClaimDeadLetterReplay looks at replay_claimed_at, not at the status.      *)
Unclaimed(d) == letter[d].status # "purged" /\ letter[d].by = "nobody"
Redrivable(d) == Unclaimed(d) /\ letter[d].node = "failed"
Redriven(d, by) ==
    [letter EXCEPT ![d] = [status |-> "replayed", by |-> by, node |-> "revived"]]

(* What others do to a letter meanwhile: redrive it, redrive or rerun its    *)
(* node without it, close it, purge it, and its node failing once more.      *)
Interference(d) ==
    \/ Redrivable(d) /\ letter' = Redriven(d, "operator")
    \/ letter[d].node = "failed" /\ letter' = [letter EXCEPT ![d].node = "revived"]
    \/ letter[d].node = "revived" /\ letter' = [letter EXCEPT ![d].node = "failed"]
    \/ letter[d].node # "rerun" /\ letter' = [letter EXCEPT ![d].node = "rerun"]
    \/ letter[d].status \in {"open", "replayed"} /\ letter' = [letter EXCEPT ![d].status = "resolved"]
    \/ letter[d].status \in {"replayed", "resolved"} /\ letter' = [letter EXCEPT ![d].status = "purged"]

Interfere(d) ==
    /\ Fault
    /\ Interference(d)
    /\ UNCHANGED <<campaign, item, draft, pump, tokens>>

-----------------------------------------------------------------------------
(* A pump (ProcessDueReplayCampaignStep). *)

Goes(p, to) == pump' = [pump EXCEPT ![p] = to]
Stops(p) == Goes(p, [phase |-> "idle"])

(* ClaimDueReplayCampaign pushes the due clock forward as it takes it.       *)
ClaimCampaign(p, c) ==
    /\ pump[p].phase = "idle"
    /\ campaign[c].status = "running" /\ campaign[c].due
    /\ campaign' = [campaign EXCEPT ![c] = [campaign[c] EXCEPT !.due = FALSE]]
    /\ Goes(p, [phase |-> "item", campaign |-> c])
    /\ UNCHANGED <<letter, item, draft, tokens, faults>>

(* ClaimNextReplayCampaignItem: the first item that is pending, or whose     *)
(* claim has gone stale.                                                     *)
OpenPending(c) == Items(c, {"pending"})
Open(c) == Items(c, {"pending"}) \cup {d \in Items(c, {"processing"}) : item[c][d].stale}

ClaimItem(p) ==
    LET c == pump[p].campaign IN
    /\ pump[p].phase = "item"
    /\ \E d \in Open(c) :
         /\ \A e \in Open(c) : d <= e
         /\ tokens < MaxTokens
         /\ item' = [item EXCEPT ![c][d] =
              [status |-> "processing", token |-> tokens + 1, stale |-> FALSE]]
         /\ Goes(p, [phase |-> "redrive", campaign |-> c, letter |-> d, token |-> tokens + 1])
    /\ tokens' = tokens + 1
    /\ UNCHANGED <<letter, campaign, draft, faults>>

NoItemLeft(p) ==
    /\ pump[p].phase = "item" /\ Open(pump[p].campaign) = {}
    /\ Goes(p, [phase |-> "complete", campaign |-> pump[p].campaign])
    /\ UNCHANGED <<letter, campaign, item, draft, tokens, faults>>

(* The redrive commits, or is refused: claimed, moved on, rerun, purged.     *)
OutcomeFromLetter(d) ==
    IF Redrivable(d) \/ letter[d].status = "replayed" THEN "replayed" ELSE "failed"
Outcome(d) == IF Redrivable(d) THEN "replayed" ELSE "failed"

ReplayItem(p) ==
    LET h == pump[p] IN
    /\ h.phase = "redrive"
    /\ letter' = IF Redrivable(h.letter) THEN Redriven(h.letter, h.campaign) ELSE letter
    /\ Goes(p, [phase |-> "settle", campaign |-> h.campaign, letter |-> h.letter,
                token |-> h.token, outcome |-> Outcome(h.letter)])
    /\ UNCHANGED <<campaign, item, draft, tokens, faults>>

(* A database error instead: the transaction rolled back, or it committed    *)
(* and only its answer was lost.                                             *)
ReplayErrs(p) ==
    LET h == pump[p] IN
    /\ h.phase = "redrive" /\ Fault
    /\ \/ UNCHANGED letter
       \/ Redrivable(h.letter) /\ letter' = Redriven(h.letter, h.campaign)
    /\ Goes(p, [phase |-> "settle", campaign |-> h.campaign, letter |-> h.letter,
                token |-> h.token, outcome |-> "failed"])
    /\ UNCHANGED <<campaign, item, draft, tokens>>

(* SettleReplayCampaignItem: the item and the campaign's counter change in   *)
(* one statement, for the holder of the item's current token.                *)
HoldsItemAlways(h) == TRUE
HoldsItem(h) == /\ item[h.campaign][h.letter].status = "processing"
                /\ item[h.campaign][h.letter].token = h.token

Counted(row, outcome) == [row EXCEPT ![outcome] = @ + 1]
SettleItem(p) ==
    LET h == pump[p] IN
    /\ h.phase = "settle"
    /\ IF HoldsItem(h)
       THEN /\ item' = [item EXCEPT ![h.campaign][h.letter] =
                         Moved(item[h.campaign][h.letter], h.outcome)]
            /\ campaign' = [campaign EXCEPT ![h.campaign] = Counted(campaign[h.campaign], h.outcome)]
            /\ Goes(p, [phase |-> "complete", campaign |-> h.campaign])
       ELSE UNCHANGED <<item, campaign>> /\ Stops(p)
    /\ UNCHANGED <<letter, draft, tokens, faults>>

(* CompleteReplayCampaignIfExhausted.                                        *)
Exhausted(c) == Items(c, {"pending", "processing"}) = {}

CompleteCampaign(p) ==
    LET c == pump[p].campaign IN
    /\ pump[p].phase = "complete"
    /\ campaign' = IF campaign[c].status = "running" /\ Exhausted(c)
                   THEN [campaign EXCEPT ![c].status = "completed"] ELSE campaign
    /\ Stops(p)
    /\ UNCHANGED <<letter, item, draft, tokens, faults>>

(* The pump dies, or a statement of it fails and the step returns.           *)
Crash(p) ==
    /\ pump[p].phase # "idle" /\ Fault
    /\ Stops(p)
    /\ UNCHANGED <<letter, campaign, item, draft, tokens>>

-----------------------------------------------------------------------------
(* The clock: a pacing period, and the ten minutes of an item's lease.       *)
Due(c) ==
    /\ campaign[c].status = "running" /\ ~campaign[c].due
    /\ campaign' = [campaign EXCEPT ![c] = [campaign[c] EXCEPT !.due = TRUE]]
    /\ UNCHANGED <<letter, item, draft, pump, tokens, faults>>

Aged(row) == [row EXCEPT !.stale = TRUE]
GoesStale(c, d) ==
    /\ item[c][d].status = "processing" /\ ~item[c][d].stale
    /\ item' = [item EXCEPT ![c][d] = Aged(item[c][d])]
    /\ UNCHANGED <<letter, campaign, draft, pump, tokens, faults>>

-----------------------------------------------------------------------------
PumpStep(p) ==
    ClaimItem(p) \/ NoItemLeft(p) \/ ReplayItem(p) \/ SettleItem(p) \/ CompleteCampaign(p)

Next ==
    \/ \E c \in Campaign :
         \/ \E S \in SUBSET Letter : PreviewCohort(c, S)
         \/ CreateCampaign(c) \/ CancelCampaign(c) \/ Due(c)
         \/ \E d \in Letter : GoesStale(c, d)
         \/ \E p \in Pump : ClaimCampaign(p, c)
    \/ \E p \in Pump : PumpStep(p) \/ ReplayErrs(p) \/ Crash(p)
    \/ \E d \in Letter : Interfere(d)

(* Clocks run, each pump polls and finishes its step unless it dies, and a   *)
(* due campaign is taken in the order of the due clocks, so none is passed   *)
(* over for ever.                                                            *)
Fairness ==
    /\ \A p \in Pump : WF_vars(PumpStep(p))
    /\ \A c \in Campaign :
         /\ WF_vars(Due(c))
         /\ SF_vars(\E p \in Pump : ClaimCampaign(p, c))
         /\ \A d \in Letter : WF_vars(GoesStale(c, d))

Spec == Init /\ [][Next]_vars /\ Fairness

-----------------------------------------------------------------------------
(* Properties. *)

TypeOK ==
    /\ letter \in [Letter -> LetterRow]
    /\ campaign \in [Campaign -> CampaignRow]
    /\ item \in [Campaign -> [Letter -> ItemRow]]
    /\ draft \in [Campaign -> SUBSET Letter]
    /\ pump \in [Pump -> Held]
    /\ tokens \in 0..MaxTokens /\ faults \in 0..MaxFaults

(* A replayed item is a redrive of its own: this campaign's redrive claimed  *)
(* the dead letter, so no other campaign and no operator can report the same *)
(* one, whichever pump settled it (recovery.md: "A replayed campaign item    *)
(* means its redrive committed").                                            *)
ReplayedItemIsItsOwn ==
    \A c \in Campaign, d \in Letter :
        item[c][d].status = "replayed" => letter[d].by = c

(* The counters an operator reads are the items: cancellation, late settles  *)
(* of a lost lease and concurrent pumps count every item once, and a         *)
(* completed campaign accounts for all of them (playbooks.sql: "completion   *)
(* never observes a settled item its counters miss").                        *)
CountersMatchItems ==
    \A c \in Campaign :
        /\ campaign[c].replayed = Cardinality(Items(c, {"replayed"}))
        /\ campaign[c].failed = Cardinality(Items(c, {"failed"}))
        /\ campaign[c].cancelled = Cardinality(Items(c, {"cancelled"}))
        /\ campaign[c].status = "completed" =>
             campaign[c].replayed + campaign[c].failed = campaign[c].total

(* No pump that dies with an item wedges its campaign: a running campaign    *)
(* completes or is cancelled (dispatch.sql: "Without this, one crash wedges  *)
(* the campaign in running forever").                                        *)
CampaignDrains ==
    \A c \in Campaign :
        campaign[c].status = "running" ~>
            campaign[c].status # "running" \/ tokens = MaxTokens

(* campaign.go: "an in-flight item finishes truthfully" - an item settled as *)
(* failed was not redriven by this campaign.                                 *)
FailedItemIsTruthful ==
    \A c \in Campaign, d \in Letter :
        item[c][d].status = "failed" => letter[d].by # c

=============================================================================
