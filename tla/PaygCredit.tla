------------------------------ MODULE PaygCredit ------------------------------
(***************************************************************************)
(* The PAYG credit resource of one Nexus Channel device                    *)
(* (nexus_channel_res_payg_credit.c).  Linked to accessories it leads: it  *)
(* sends them its credit one after the other, in cycles.  Linked to a      *)
(* controller it follows: it has the credit it is sent, and none when it   *)
(* hears nothing.                                                          *)
(*                                                                         *)
(* The peers, the link manager (LinkSetup) and the product's credit are    *)
(* the environment.  A call of process comes when it was asked for, or     *)
(* earlier.  Requests that cannot be sent are faults.  Links of both roles *)
(* at once (relaying) are declared unsupported by the resource's header    *)
(* and left out; so are two changes of links in one process call.          *)
(***************************************************************************)
EXTENDS Integers, FiniteSets

CONSTANTS
    Accessories,   \* accessories the device may lead
    Controller,    \* the controller it may follow
    MaxLinks,      \* NEXUS_CHANNEL_MAX_SIMULTANEOUS_LINKS (8)
    Interval,      \* ..._INTERVAL_BETWEEN_PAYG_CREDIT_POST_SECONDS (2)
    Cycle,         \* ..._POST_UPDATE_CYCLE_TIME_SECONDS (25)
    FollowerMax,   \* ..._FOLLOWER_MAX_TIME_BETWEEN_UPDATES_SECONDS (75)
    IdleTime,      \* NEXUS_COMMON_IDLE_TIME_BETWEEN_PROCESS_CALL_SECONDS
    MaxCredit,     \* UINT32_MAX - 1
    MaxFaults,     \* bound: POSTs that cannot be sent
    MaxChanges     \* bound: changes of the links, restarts

None == "none"

ASSUME PaygAssumption ==
    /\ None \notin Accessories \cup {Controller} /\ Controller \notin Accessories
    /\ MaxLinks \in Nat /\ Cardinality(Accessories) <= MaxLinks
    /\ Interval \in Nat \ {0} /\ Cycle \in Nat /\ MaxLinks * Interval < Cycle
    /\ FollowerMax = 3 * Cycle
    /\ IdleTime \in Nat \ {0} /\ MaxCredit \in Nat \ {0}
    /\ MaxFaults \in Nat /\ MaxChanges \in Nat

VARIABLES
    links,      \* the device linked at each index of the link table
    pending,    \* is a link to the controller about to be added again?
    credit,     \* the product's credit
    res,        \* _this of the resource
    slept,      \* seconds since process was last called
    sleep,      \* seconds after which it asked to be called
    \* History:
    gap,        \* seconds each linked accessory has waited for a POST since
                \* the links last changed or the device restarted
    silence,    \* seconds since a message of the controller set the credit
    led,        \* is the credit the controller's?
    orphaned,   \* was power lost between the end of a link and what follows?
    faults, changes

history == <<gap, silence, led, orphaned>>
vars == <<links, pending, credit, res, slept, sleep, history, faults, changes>>

Index == 0..(MaxLinks - 1)
Unlocked == MaxCredit + 1       \* ..._REMAINING_UNLOCKED_SENTINEL_VALUE
Credits == 0..Unlocked
Metered == 1..MaxCredit
Modes == {"independent", "leading", "following"}

Saturated(n, max) == IF n > max THEN max ELSE n
GapCap == FollowerMax + IdleTime + 1

Linked(l) == {l[i] : i \in Index} \ {None}
LinkedAccessories(l) == Linked(l) \cap Accessories

\* nxp_common_payg_state_get_current.
payg_state(c) == CASE c = Unlocked -> "unlocked"
                   [] c = 0        -> "disabled"
                   [] OTHER        -> "enabled"

\* _nexus_channel_res_payg_credit_get_credit_operating_mode.
operating_mode(l) == IF LinkedAccessories(l) # {} THEN "leading"
                     ELSE IF Controller \in Linked(l) THEN "following"
                     ELSE "independent"

TypeOK ==
    /\ links \in [Index -> Accessories \cup {Controller, None}]
    /\ pending \in BOOLEAN
    /\ credit \in Credits
    /\ res \in [mode : Modes, last_payg_state : {"unlocked", "disabled", "enabled"},
                since_updated : 0..(FollowerMax - 1),
                last_updated : Accessories \cup {None},
                cycle_first : Accessories \cup {None},
                since_post : 0..Interval, since_cycle : 0..Cycle]
    /\ sleep \in Nat /\ slept \in 0..sleep
    /\ gap \in [Accessories -> 0..GapCap]
    /\ silence \in 0..GapCap
    /\ led \in BOOLEAN /\ orphaned \in BOOLEAN
    /\ faults \in 0..MaxFaults /\ changes \in 0..MaxChanges

(***************************************************************************)
(* Starting.                                                               *)
(***************************************************************************)
\* nexus_channel_res_payg_credit_init.
res_init(l, c) ==
    [mode |-> operating_mode(l), last_payg_state |-> payg_state(c),
     since_updated |-> 0, last_updated |-> None, cycle_first |-> None,
     since_post |-> Interval, since_cycle |-> Cycle]

\* _nexus_channel_res_payg_credit_calculate_initial_credit, in a build that can
\* be a controller.
initial_credit(l, stored) ==
    IF operating_mode(l) = "following" /\ stored # Unlocked THEN 0 ELSE stored

OneRole(l) ==
    /\ \A i, j \in Index : i # j /\ l[i] = l[j] => l[i] = None
    /\ Controller \in Linked(l) => LinkedAccessories(l) = {}

Init ==
    /\ links \in {l \in [Index -> Accessories \cup {Controller, None}] : OneRole(l)}
    /\ pending = FALSE
    /\ credit = initial_credit(links, 1)
    /\ res = res_init(links, credit)
    /\ slept = 0
    /\ sleep = IdleTime
    /\ gap = [a \in Accessories |-> 0]
    /\ silence = 0
    /\ led = FALSE
    /\ orphaned = FALSE
    /\ faults = 0
    /\ changes = 0

(***************************************************************************)
(* Process, the part of a follower: whether its credit is erased, and the  *)
(* seconds since it was updated.                                           *)
(***************************************************************************)
Silent(mode, seconds) ==
    mode = "following" /\ res.since_updated + seconds >= FollowerMax

\* Faulty variant: a follower that hears nothing keeps its credit.
credit_erased_IfUnlinked(mode, seconds) ==
    /\ credit # Unlocked
    /\ mode = "independent" /\ res.mode = "following"

credit_erased(mode, seconds) ==
    /\ credit # Unlocked
    /\ \/ Silent(mode, seconds)
       \/ mode = "independent" /\ res.mode = "following"

\* Faulty variant: the seconds are not reset when the credit is erased.
since_updated_NoReset(mode, seconds) ==
    IF mode # "following" \/ credit = Unlocked THEN res.since_updated
    ELSE res.since_updated + seconds

since_updated(mode, seconds) ==
    IF mode # "following" \/ credit = Unlocked THEN res.since_updated
    ELSE IF Silent(mode, seconds) THEN 0 ELSE res.since_updated + seconds

(***************************************************************************)
(* Process, the part of a leader.                                          *)
(***************************************************************************)
\* nexus_channel_link_manager_next_linked_accessory: the first linked one if
\* there is no previous one or only one link, else the next index in turn.
next_linked_accessory(l, previous) ==
    LET used == {i \in Index : l[i] \in Accessories}
        at == CHOOSE i \in used : l[i] = previous
        Distance(i) == (i - at - 1) % MaxLinks
    IN IF previous = None \/ Cardinality(used) = 1
       THEN l[CHOOSE i \in used : \A j \in used : i <= j]
       ELSE l[CHOOSE i \in used \ {at} :
                \A j \in used \ {at} : Distance(i) <= Distance(j)]

\* A POST is due at once, whatever was sent last.
DueAtOnce(r) == [r EXCEPT !.since_post = Interval, !.since_cycle = Cycle]

\* Before the next accessory is chosen: a new PAYG state makes a POST due, and
\* an accessory of the cycle that is no longer linked starts the cycle anew.
\* Without accessories only the first of the two is done.
prepared(r, l, state) ==
    LET changed == state # r.last_payg_state
        gone == {r.last_updated, r.cycle_first} \ Linked(l) # {}
        now == [(IF changed THEN DueAtOnce(r) ELSE r) EXCEPT !.last_payg_state = state]
    IN IF LinkedAccessories(l) # {} /\ gone
       THEN [DueAtOnce(now) EXCEPT !.last_updated = None, !.cycle_first = None]
       ELSE now

later(r, seconds) ==
    [r EXCEPT !.since_post = Saturated(@ + seconds, Interval),
              !.since_cycle = Saturated(@ + seconds, Cycle)]

\* Nothing is sent to the cycle's first accessory before the cycle is over.
cycle_not_over(r, next) == r.cycle_first = next /\ r.since_cycle < Cycle

\* Faulty variant: the accessory updated last is not remembered.
posted_Forgets(r, next, sent) ==
    LET starts == r.cycle_first = next \/ (sent /\ r.cycle_first = None)
    IN [r EXCEPT !.since_post = 0,
                 !.cycle_first = IF sent /\ @ = None THEN next ELSE @,
                 !.since_cycle = IF starts THEN 0 ELSE @]

\* The accessory is remembered also if the request could not be made, the start
\* of the first cycle only if it was sent.
posted(r, next, sent) ==
    LET starts == r.cycle_first = next \/ (sent /\ r.cycle_first = None)
    IN [r EXCEPT !.last_updated = next, !.since_post = 0,
                 !.cycle_first = IF sent /\ @ = None THEN next ELSE @,
                 !.since_cycle = IF starts THEN 0 ELSE @]

Sleeps(seconds) == slept' = 0 /\ sleep' = Saturated(seconds, IdleTime)

\* After a change of the links the wait counts anew.
Waited(l) == [a \in Accessories |-> IF l = links THEN gap[a] ELSE 0]

NoPost(l) == gap' = Waited(l) /\ UNCHANGED faults

\* r is the resource's state so far, l the links.
LeaderPart(r, l) ==
    LET next == next_linked_accessory(l, r.last_updated)
        now == later(r, slept)
    IN \/ /\ cycle_not_over(now, next)
          /\ res' = now
          /\ Sleeps(Cycle - now.since_cycle)
          /\ NoPost(l)
       \/ /\ ~cycle_not_over(now, next)
          /\ now.since_post < Interval
          \* A cycle that is over starts anew although nothing is sent yet.
          /\ res' = [now EXCEPT !.since_cycle =
                       IF now.cycle_first = next THEN 0 ELSE @]
          /\ Sleeps(Interval - now.since_post)
          /\ NoPost(l)
       \/ /\ ~cycle_not_over(now, next)
          /\ now.since_post >= Interval
          /\ Sleeps(Interval)
          /\ \/ /\ res' = posted(now, next, TRUE)
                /\ gap' = [Waited(l) EXCEPT ![next] = 0]
                /\ UNCHANGED faults
             \/ /\ res' = posted(now, next, FALSE)
                /\ faults < MaxFaults /\ faults' = faults + 1
                /\ gap' = Waited(l)

\* nexus_channel_res_payg_credit_process with the links l.
payg_credit_process(l) ==
    LET mode == operating_mode(l)
        erased == credit_erased(mode, slept)
        r == [prepared(res, l, payg_state(credit)) EXCEPT
                !.mode = mode, !.since_updated = since_updated(mode, slept)]
    IN /\ credit' = IF erased THEN 0 ELSE credit
       /\ \/ /\ LinkedAccessories(l) = {}
             /\ res' = r
             /\ Sleeps(IF mode = "following" /\ credit # Unlocked /\ ~erased
                       THEN FollowerMax - r.since_updated ELSE IdleTime)
             /\ NoPost(l)
          \/ LinkedAccessories(l) # {} /\ LeaderPart(r, l)

-----------------------------------------------------------------------------

First(S) == CHOOSE i \in S : \A j \in S : i <= j

WithLink(l, peer) == [l EXCEPT ![First({i \in Index : l[i] = None})] = peer]
Without(l, S) == [i \in Index |-> IF l[i] \in S THEN None ELSE l[i]]

\* What the link manager's process may make of the links: the pending link is
\* added; otherwise nothing, a link added, one deleted, or all cleared.
NextLinks ==
    IF pending THEN {WithLink(links, Controller)}
    ELSE {links} \cup {Without(links, S) : S \in {{d} : d \in Linked(links)}
                                                 \cup {Linked(links)}}
           \cup {l \in {WithLink(links, d) : d \in
                          IF \E i \in Index : links[i] = None
                          THEN (Accessories \cup {Controller}) \ Linked(links) ELSE {}} :
                   OneRole(l)}

\* Faulty variant: the link manager comes last.
core_process_PaygFirst(l) ==
    /\ payg_credit_process(links)
    /\ links' = l

\* nexus_channel_core_process: the link manager comes before this resource.
core_process(l) ==
    /\ payg_credit_process(l)
    /\ links' = l

Process ==
    \E l \in NextLinks :
        /\ core_process(l)
        /\ pending' = FALSE
        /\ changes' = IF l = links \/ pending THEN changes ELSE changes + 1
        /\ changes' <= MaxChanges
        /\ UNCHANGED <<silence, led, orphaned>>

\* _nexus_channel_payg_credit_update_from_post_or_get: a POST by the controller,
\* or its answer to the GET made when starting.  It is verified with the link's
\* key, so it needs the link.
UpdateFromPostOrGet(new) ==
    /\ Controller \in Linked(links)
    /\ credit' = new
    /\ res' = IF operating_mode(links) = "following"
              THEN [res EXCEPT !.since_updated = 0] ELSE res
    /\ silence' = 0
    /\ led' = TRUE
    /\ UNCHANGED <<links, pending, slept, sleep, gap, orphaned, faults, changes>>

\* ..._get_handler: a GET of this resource, by anyone, refreshes the mode.
GetHandler ==
    /\ res' = [res EXCEPT !.mode = operating_mode(links)]
    /\ UNCHANGED <<links, pending, credit, slept, sleep, history, faults, changes>>

\* A handshake replaces the link to the controller: it is deleted at once, the
\* new one is added by the next process call.
Relink ==
    /\ changes < MaxChanges /\ changes' = changes + 1
    /\ Controller \in Linked(links)
    /\ links' = Without(links, {Controller})
    /\ pending' = TRUE
    /\ UNCHANGED <<credit, res, slept, sleep, history, faults>>

\* The product's credit is used up, added to or unlocked by a keycode.
CreditChanges(new) ==
    /\ payg_state(new) # payg_state(credit)
    /\ credit' = new
    /\ led' = (led /\ credit # Unlocked /\ new < credit)
    /\ UNCHANGED <<links, pending, res, slept, sleep, silence, gap, orphaned, faults, changes>>

\* Power loss.  A pending link is lost; within process, a link may just have
\* been deleted.
Restart(l) ==
    /\ changes < MaxChanges /\ changes' = changes + 1
    /\ links' = l
    /\ pending' = FALSE
    /\ credit' = initial_credit(l, credit)
    /\ res' = res_init(l, credit')
    /\ slept' = 0 /\ sleep' = IdleTime
    /\ orphaned' = (orphaned \/ pending \/ l # links)
    /\ gap' = [a \in Accessories |-> 0]
    /\ silence' = 0
    /\ UNCHANGED <<led, faults>>

Tick ==
    /\ slept < sleep
    /\ slept' = slept + 1
    /\ gap' = [a \in Accessories |-> IF a \in Linked(links)
                                     THEN Saturated(gap[a] + 1, GapCap) ELSE 0]
    /\ silence' = IF Controller \in Linked(links)
                  THEN Saturated(silence + 1, GapCap) ELSE 0
    /\ UNCHANGED <<links, pending, credit, res, sleep, led, orphaned, faults, changes>>

Next ==
    \/ Process
    \/ \E new \in Credits : UpdateFromPostOrGet(new) \/ CreditChanges(new)
    \/ GetHandler
    \/ Relink
    \/ \E S \in {{}, {Controller}} : Restart(Without(links, S))
    \/ Tick

Spec == Init /\ [][Next]_vars

-----------------------------------------------------------------------------

\* The longest wait: a cycle, and the turns of the accessories.
RoundTime == Cycle + MaxLinks * Interval

\* Whatever changes of the links and restarts went before, wherever they left
\* the cycle, and however often the PAYG state changes: once the links stay as
\* they are and every POST can be made, each linked accessory is sent one within
\* one round, which is before it would erase its credit.  (Changes of the links
\* that keep coming start the round anew, and may starve the last accessory.)
NoneStarved ==
    faults = 0 => \A a \in LinkedAccessories(links) : gap[a] < RoundTime

\* A follower whose controller has set no credit for the maximum time, and the
\* time the device may sleep, has none left of it, unless it is unlocked.
SilenceErasesCredit ==
    led /\ Controller \in Linked(links) /\ silence > FollowerMax + IdleTime
      => credit \notin Metered

\* Metered credit a controller gave is erased when the link to it goes, also if
\* someone reads the resource in between, and unless the link is about to be
\* replaced.  (After a power loss between the two it is kept.)
CreditNeedsLeader ==
    led /\ credit \in Metered
      => Controller \in Linked(links) \/ pending \/ orphaned

\* Credit a controller gave lasts as long as the controller: it ends with its
\* silence and with the link to it.
CreditFollowsController == TypeOK /\ SilenceErasesCredit /\ CreditNeedsLeader

=============================================================================
