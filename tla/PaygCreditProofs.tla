-------------------------- MODULE PaygCreditProofs --------------------------
(***************************************************************************)
(* Proofs about PaygCredit: a follower's credit ends with its controller,  *)
(* for every number of links, every interval, cycle and idle time, and any *)
(* number of faults, changes of links and power losses.                    *)
(***************************************************************************)
EXTENDS PaygCredit, FiniteSetTheorems, WellFoundedInduction, TLAPS

\* A set of natural numbers has a least element.
LEMMA LeastOf ==
    ASSUME NEW T \in SUBSET Nat, T # {}
    PROVE  \E x \in T : \A y \in T : x <= y
<1> DEFINE R == OpToRel(<, Nat)
<1>1. \E x \in T : \A y \in T : ~(<<y, x>> \in R)
  <2>1. IsWellFoundedOn(R, Nat)
    BY NatLessThanWellFounded
  <2> HIDE DEF R
  <2> QED BY <2>1, WFMin
<1>2. \A x, y \in T : <<y, x>> \notin R => x <= y
  BY DEF OpToRel
<1> HIDE DEF R
<1> QED BY <1>1, <1>2

LEMMA Times ==
    /\ MaxLinks \in Nat /\ Interval \in Nat /\ Interval > 0
    /\ Cycle \in Nat /\ Cycle > 0
    /\ FollowerMax \in Nat /\ FollowerMax > 0
    /\ IdleTime \in Nat /\ IdleTime > 0
    /\ MaxCredit \in Nat /\ MaxCredit > 0
    /\ MaxFaults \in Nat /\ MaxChanges \in Nat
<1>1. /\ MaxLinks \in Nat /\ Interval \in Nat /\ Interval > 0
      /\ IdleTime \in Nat /\ IdleTime > 0
      /\ MaxCredit \in Nat /\ MaxCredit > 0
      /\ MaxFaults \in Nat /\ MaxChanges \in Nat
      /\ Cycle \in Nat /\ MaxLinks * Interval < Cycle /\ FollowerMax = 3 * Cycle
  BY PaygAssumption
<1>2. MaxLinks * Interval >= 0
  BY <1>1
<1>3. Cycle > 0
  BY <1>1, <1>2
<1> QED BY <1>1, <1>3

Peers == Accessories \cup {Controller, None}
Resource ==
    [mode : Modes, last_payg_state : {"unlocked", "disabled", "enabled"},
     since_updated : 0..(FollowerMax - 1),
     last_updated : Accessories \cup {None},
     cycle_first : Accessories \cup {None},
     since_post : 0..Interval, since_cycle : 0..Cycle]

LEMMA NoneIsNoPeer == None \notin Accessories /\ None # Controller /\ Controller \notin Accessories
BY PaygAssumption

(***************************************************************************)
(* The leader's part keeps the types.                                      *)
(***************************************************************************)
\* The next accessory to be sent a POST is a linked one.
LEMMA NextIsLinked ==
    ASSUME NEW l \in [Index -> Peers], LinkedAccessories(l) # {},
           NEW previous \in LinkedAccessories(l) \cup {None}
    PROVE  next_linked_accessory(l, previous) \in LinkedAccessories(l)
<1> DEFINE used == {i \in Index : l[i] \in Accessories}
           at == CHOOSE i \in used : l[i] = previous
           Distance(i) == (i - at - 1) % MaxLinks
<1>1. \A i \in used : l[i] \in LinkedAccessories(l)
  BY NoneIsNoPeer DEF LinkedAccessories, Linked
<1>2. used # {} /\ used \subseteq Index /\ Index \subseteq Nat
  BY Times DEF LinkedAccessories, Linked, Index
<1>3. CASE previous = None \/ Cardinality(used) = 1
  <2>1. \E i \in used : \A j \in used : i <= j
    <3> HIDE DEF used
    <3> QED BY <1>2, LeastOf
  <2>2. (CHOOSE i \in used : \A j \in used : i <= j) \in used
    <3> HIDE DEF used
    <3> QED BY <2>1
  <2> QED BY <1>1, <1>3, <2>2 DEF next_linked_accessory
<1>4. CASE ~(previous = None \/ Cardinality(used) = 1)
  <2>1. at \in used
    BY <1>4, NoneIsNoPeer DEF LinkedAccessories, Linked
  <2> DEFINE others == used \ {at}
             Ranks == {Distance(i) : i \in others}
  <2>2. others # {}
    <3>1. Cardinality({at}) = 1
      BY FS_Singleton
    <3> HIDE DEF at
    <3>2. others = {} => used = {at}
      BY <2>1
    <3> QED BY <1>4, <3>1, <3>2
  <2>3. MaxLinks \in Nat /\ MaxLinks > 0 /\ at \in Int
    BY <1>2, <2>1, Times DEF Index
  <2>4. \A i \in others : Distance(i) \in Nat
    <3> SUFFICES ASSUME NEW i \in others PROVE Distance(i) \in Nat
      OBVIOUS
    <3>1. i - at - 1 \in Int
      BY <1>2, <2>3
    <3> HIDE DEF at
    <3> QED BY <2>3, <3>1
  <2>5. Ranks \subseteq Nat /\ Ranks # {}
    BY <2>2, <2>4
  <2>6. PICK x \in Ranks : \A y \in Ranks : x <= y
    <3> HIDE DEF Ranks
    <3> QED BY <2>5, LeastOf
  <2>7. PICK i \in others : \A j \in others : Distance(i) <= Distance(j)
    <3>1. PICK i \in others : x = Distance(i)
      OBVIOUS
    <3>2. \A j \in others : Distance(j) \in Ranks
      OBVIOUS
    <3> HIDE DEF Distance, others, Ranks
    <3>3. \A j \in others : Distance(i) <= Distance(j)
      BY <2>6, <3>1, <3>2
    <3> QED BY <3>3
  <2>8. (CHOOSE k \in others : \A j \in others : Distance(k) <= Distance(j)) \in others
    <3> HIDE DEF others, Distance
    <3> QED BY <2>7
  <2> QED BY <1>1, <1>4, <2>8 DEF next_linked_accessory
<1> QED BY <1>3, <1>4

LEMMA PreparedType ==
    ASSUME NEW r \in Resource, NEW l, NEW c
    PROVE  LET p == prepared(r, l, payg_state(c))
           IN  /\ p \in Resource
               /\ p.since_updated = r.since_updated
               /\ LinkedAccessories(l) # {} => p.last_updated \in LinkedAccessories(l) \cup {None}
<1> DEFINE s == payg_state(c)
<1>1. s \in {"unlocked", "disabled", "enabled"}
  BY DEF payg_state
<1> HIDE DEF s
<1> DEFINE now == [(IF s # r.last_payg_state THEN DueAtOnce(r) ELSE r) EXCEPT !.last_payg_state = s]
<1>2. Interval \in 0..Interval /\ Cycle \in 0..Cycle
  BY Times
<1>3. DueAtOnce(r) \in Resource /\ DueAtOnce(r).since_updated = r.since_updated
      /\ DueAtOnce(r).last_updated = r.last_updated /\ DueAtOnce(r).cycle_first = r.cycle_first
  BY <1>2 DEF DueAtOnce, Resource
<1>4. now \in Resource /\ now.since_updated = r.since_updated /\ now.last_updated = r.last_updated
  BY <1>1, <1>3 DEF Resource
<1> HIDE DEF now
<1>5. CASE LinkedAccessories(l) # {} /\ {r.last_updated, r.cycle_first} \ Linked(l) # {}
  <2>1. prepared(r, l, s) = [DueAtOnce(now) EXCEPT !.last_updated = None, !.cycle_first = None]
    BY <1>5 DEF prepared, now
  <2>2. DueAtOnce(now) \in Resource /\ DueAtOnce(now).since_updated = r.since_updated
    BY <1>2, <1>4 DEF DueAtOnce, Resource
  <2> QED BY <2>1, <2>2 DEF s, Resource
<1>6. CASE ~(LinkedAccessories(l) # {} /\ {r.last_updated, r.cycle_first} \ Linked(l) # {})
  <2>1. prepared(r, l, s) = now
    BY <1>6 DEF prepared, now
  <2>2. LinkedAccessories(l) # {} => r.last_updated \in LinkedAccessories(l) \cup {None}
    BY <1>6 DEF LinkedAccessories, Resource
  <2> QED BY <1>4, <2>1, <2>2 DEF s
<1> QED BY <1>5, <1>6

LEMMA LaterType ==
    ASSUME NEW r \in Resource, NEW s \in Nat
    PROVE  /\ later(r, s) \in Resource
           /\ later(r, s).mode = r.mode /\ later(r, s).since_updated = r.since_updated
<1>1. Saturated(r.since_post + s, Interval) \in 0..Interval
  BY Times DEF Saturated, Resource
<1>2. Saturated(r.since_cycle + s, Cycle) \in 0..Cycle
  BY Times DEF Saturated, Resource
<1> QED BY <1>1, <1>2 DEF later, Resource

LEMMA PostedType ==
    ASSUME NEW r \in Resource, NEW next \in Accessories, NEW sent \in BOOLEAN
    PROVE  /\ posted(r, next, sent) \in Resource
           /\ posted(r, next, sent).mode = r.mode
           /\ posted(r, next, sent).since_updated = r.since_updated
<1>1. 0 \in 0..Interval /\ 0 \in 0..Cycle
  BY Times
<1> QED BY <1>1 DEF posted, Resource

LEMMA SleepType ==
    ASSUME NEW s \in Nat, Sleeps(s)
    PROVE  slept' = 0 /\ sleep' \in Nat /\ sleep' <= IdleTime
BY Times DEF Sleeps, Saturated

\* What a process call of a leader does to the state it shares with the
\* follower's part: nothing.
LEMMA LeaderType ==
    ASSUME TypeOK, NEW r \in Resource, NEW l \in [Index -> Peers], LinkedAccessories(l) # {},
           r.last_updated \in LinkedAccessories(l) \cup {None}, LeaderPart(r, l)
    PROVE  /\ res' \in Resource /\ res'.mode = r.mode /\ res'.since_updated = r.since_updated
           /\ slept' = 0 /\ sleep' \in Nat /\ sleep' <= IdleTime
           /\ gap' \in [Accessories -> 0..GapCap] /\ faults' \in 0..MaxFaults
<1> DEFINE next == next_linked_accessory(l, r.last_updated)
           now == later(r, slept)
<1>1. next \in Accessories
  BY NextIsLinked DEF LinkedAccessories
<1>2. now \in Resource /\ now.mode = r.mode /\ now.since_updated = r.since_updated
  <2>1. slept \in Nat
    BY DEF TypeOK
  <2> QED BY <2>1, LaterType
<1>3. Waited(l) \in [Accessories -> 0..GapCap]
  <2>1. GapCap \in Nat
    BY Times DEF GapCap
  <2> QED BY <2>1 DEF Waited, TypeOK
<1>4. [Waited(l) EXCEPT ![next] = 0] \in [Accessories -> 0..GapCap]
  <2>1. 0 \in 0..GapCap
    BY Times DEF GapCap
  <2> HIDE DEF next
  <2> QED BY <1>1, <1>3, <2>1
<1>5. faults \in 0..MaxFaults
  BY DEF TypeOK
<1> HIDE DEF now, next
<1>6. now.since_cycle \in 0..Cycle /\ now.since_post \in 0..Interval
  BY <1>2 DEF Resource
<1>7. \/ /\ now.since_cycle < Cycle
         /\ res' = now /\ Sleeps(Cycle - now.since_cycle) /\ NoPost(l)
      \/ /\ now.since_post < Interval
         /\ res' = [now EXCEPT !.since_cycle = IF now.cycle_first = next THEN 0 ELSE @]
         /\ Sleeps(Interval - now.since_post) /\ NoPost(l)
      \/ /\ Sleeps(Interval)
         /\ res' = posted(now, next, TRUE)
         /\ gap' = [Waited(l) EXCEPT ![next] = 0] /\ faults' = faults
      \/ /\ Sleeps(Interval)
         /\ res' = posted(now, next, FALSE)
         /\ faults < MaxFaults /\ faults' = faults + 1
         /\ gap' = Waited(l)
  BY DEF LeaderPart, cycle_not_over, now, next
<1>8. CASE /\ now.since_cycle < Cycle
           /\ res' = now /\ Sleeps(Cycle - now.since_cycle) /\ NoPost(l)
  <2>1. Cycle - now.since_cycle \in Nat
    BY <1>6, Times
  <2> QED BY <1>2, <1>3, <1>5, <1>8, <2>1, SleepType DEF NoPost
<1>9. CASE /\ now.since_post < Interval
           /\ res' = [now EXCEPT !.since_cycle = IF now.cycle_first = next THEN 0 ELSE @]
           /\ Sleeps(Interval - now.since_post) /\ NoPost(l)
  <2>1. Interval - now.since_post \in Nat /\ 0 \in 0..Cycle
    BY <1>6, Times
  <2>2. res' \in Resource /\ res'.mode = now.mode /\ res'.since_updated = now.since_updated
    BY <1>2, <1>9, <2>1 DEF Resource
  <2> QED BY <1>2, <1>3, <1>5, <1>9, <2>1, <2>2, SleepType DEF NoPost
<1>10. CASE /\ Sleeps(Interval)
            /\ res' = posted(now, next, TRUE)
            /\ gap' = [Waited(l) EXCEPT ![next] = 0] /\ faults' = faults
  BY <1>1, <1>2, <1>4, <1>5, <1>10, PostedType, SleepType, Times
<1>11. CASE /\ Sleeps(Interval)
            /\ res' = posted(now, next, FALSE)
            /\ faults < MaxFaults /\ faults' = faults + 1
            /\ gap' = Waited(l)
  <2>1. faults' \in 0..MaxFaults
    BY <1>5, <1>11, Times
  <2> QED BY <1>1, <1>2, <1>3, <1>11, <2>1, PostedType, SleepType, Times
<1> QED BY <1>7, <1>8, <1>9, <1>10, <1>11

(***************************************************************************)
(* The links.                                                              *)
(***************************************************************************)
LEMMA WithoutLinks ==
    ASSUME NEW l \in [Index -> Peers], OneRole(l), NEW S
    PROVE  /\ Without(l, S) \in [Index -> Peers] /\ OneRole(Without(l, S))
           /\ Linked(Without(l, S)) = Linked(l) \ S
<1> DEFINE w == Without(l, S)
<1>1. w \in [Index -> Peers] /\ \A i \in Index : w[i] = IF l[i] \in S THEN None ELSE l[i]
  BY DEF Without, Peers
<1> HIDE DEF w
<1>2. Linked(w) = Linked(l) \ S
  BY <1>1 DEF Linked
<1>3. OneRole(w)
  BY <1>1, <1>2 DEF OneRole, LinkedAccessories
<1> QED BY <1>1, <1>2, <1>3 DEF w

LEMMA WithOneMore ==
    ASSUME NEW l \in [Index -> Peers], \E i \in Index : l[i] = None,
           NEW d \in Accessories \cup {Controller}
    PROVE  /\ WithLink(l, d) \in [Index -> Peers]
           /\ Linked(WithLink(l, d)) = Linked(l) \cup {d}
           /\ \A i \in Index : WithLink(l, d)[i] = l[i] \/ (l[i] = None /\ WithLink(l, d)[i] = d)
           /\ \E f \in Index : \A i \in Index \ {f} : WithLink(l, d)[i] = l[i]
<1> DEFINE free == {i \in Index : l[i] = None}
           f == First(free)
           w == WithLink(l, d)
<1>1. f \in free
  <2>1. free \subseteq Nat /\ free # {}
    BY Times DEF Index
  <2> HIDE DEF free
  <2> QED BY <2>1, LeastOf DEF First
<1>2. w = [l EXCEPT ![f] = d]
  BY DEF WithLink
<1> HIDE DEF w, f
<1>3. /\ f \in Index /\ l[f] = None /\ w \in [Index -> Peers]
      /\ \A i \in Index : w[i] = IF i = f THEN d ELSE l[i]
  BY <1>1, <1>2 DEF Peers
<1>4. Linked(w) = Linked(l) \cup {d}
  <2>1. d # None
    BY NoneIsNoPeer
  <2> QED BY <1>3, <2>1 DEF Linked
<1> QED BY <1>3, <1>4 DEF w

\* The mode says which role the links have.
LEMMA ModeIsRole ==
    ASSUME NEW l, OneRole(l)
    PROVE  /\ operating_mode(l) \in Modes
           /\ operating_mode(l) = "following" <=> Controller \in Linked(l)
           /\ operating_mode(l) = "leading" <=> LinkedAccessories(l) # {}
BY DEF operating_mode, OneRole, Modes

(***************************************************************************)
(* The inductive invariant.  The seconds a follower counts and those it    *)
(* has slept since cover the controller's silence, as long as credit the   *)
(* controller gave is left; while the link to the controller is away for   *)
(* good, there is such credit only after a power loss.  A link that waits  *)
(* to be added again is the only one.                                      *)
(***************************************************************************)
Roles ==
    /\ sleep <= IdleTime
    /\ OneRole(links)
    /\ pending => Linked(links) = {} /\ \E i \in Index : links[i] = None
    /\ Controller \in Linked(links) => res.mode = "following"

Counted ==
    led /\ credit \in Metered =>
        /\ silence <= res.since_updated + slept
        /\ Controller \in Linked(links) \/ pending \/ (orphaned /\ silence = 0)

PaygInv == TypeOK /\ Roles /\ Counted

LEMMA PaygInit == Init => PaygInv
<1> SUFFICES ASSUME Init PROVE PaygInv
  OBVIOUS
<1>1. links \in [Index -> Peers] /\ OneRole(links)
  BY DEF Init, Peers
<1>2. operating_mode(links) \in Modes
      /\ (Controller \in Linked(links) => operating_mode(links) = "following")
  BY <1>1, ModeIsRole
<1>3. credit \in Credits
  BY Times DEF Init, initial_credit, Credits, Unlocked
<1>4. payg_state(credit) \in {"unlocked", "disabled", "enabled"}
  BY DEF payg_state
<1>5. res_init(links, credit) \in Resource
  BY <1>2, <1>4, Times DEF res_init, Resource
<1>6. 0 \in 0..GapCap
  BY Times DEF GapCap
<1>7. TypeOK
  <2>1. res \in Resource /\ gap \in [Accessories -> 0..GapCap]
    BY <1>5, <1>6 DEF Init
  <2>2. sleep \in Nat /\ slept \in 0..sleep /\ silence \in 0..GapCap
        /\ faults \in 0..MaxFaults /\ changes \in 0..MaxChanges
    BY <1>6, Times DEF Init
  <2>3. pending \in BOOLEAN /\ led \in BOOLEAN /\ orphaned \in BOOLEAN
    BY DEF Init
  <2> QED BY <1>1, <1>3, <2>1, <2>2, <2>3 DEF TypeOK, Resource, Peers
<1>8. Roles
  BY <1>1, <1>2, Times DEF Init, Roles, res_init
<1> QED BY <1>7, <1>8 DEF Init, PaygInv, Counted

\* What the link manager may make of the links.
LEMMA NextLinksFacts ==
    ASSUME TypeOK, Roles, NEW l \in NextLinks
    PROVE  /\ l \in [Index -> Peers] /\ OneRole(l)
           /\ pending => Controller \in Linked(l)
           /\ Controller \in Linked(links) => Controller \in Linked(l) \/ LinkedAccessories(l) = {}
<1>1. links \in [Index -> Peers] /\ OneRole(links)
  BY DEF TypeOK, Roles, Peers
<1>2. CASE pending
  <2>1. l = WithLink(links, Controller) /\ Linked(links) = {} /\ \E i \in Index : links[i] = None
    BY <1>2 DEF NextLinks, Roles
  <2>2. l \in [Index -> Peers] /\ Linked(l) = {Controller}
        /\ \E f \in Index : \A i \in Index \ {f} : l[i] = links[i]
    BY <1>1, <2>1, WithOneMore
  <2>3. \A i \in Index : links[i] = None
    BY <2>1 DEF Linked
  <2>4. OneRole(l)
    BY <2>2, <2>3, NoneIsNoPeer DEF OneRole, LinkedAccessories
  <2> QED BY <1>2, <2>1, <2>2, <2>4
<1>3. CASE ~pending
  <2>1. \/ l = links
        \/ \E S : l = Without(links, S)
        \/ /\ \E i \in Index : links[i] = None
           /\ \E d \in Accessories \cup {Controller} : l = WithLink(links, d)
           /\ OneRole(l)
    BY <1>3 DEF NextLinks
  <2>2. CASE l = links
    BY <1>1, <1>3, <2>2
  <2>3. ASSUME NEW S, l = Without(links, S)
        PROVE  /\ l \in [Index -> Peers] /\ OneRole(l)
               /\ Controller \in Linked(links) => LinkedAccessories(l) = {}
    <3>1. l \in [Index -> Peers] /\ OneRole(l) /\ Linked(l) = Linked(links) \ S
      BY <1>1, <2>3, WithoutLinks
    <3>2. LinkedAccessories(l) \subseteq LinkedAccessories(links)
      BY <3>1 DEF LinkedAccessories
    <3> QED BY <1>1, <3>1, <3>2 DEF OneRole
  <2>4. ASSUME \E i \in Index : links[i] = None, OneRole(l),
               NEW d \in Accessories \cup {Controller}, l = WithLink(links, d)
        PROVE  /\ l \in [Index -> Peers] /\ OneRole(l)
               /\ Controller \in Linked(links) => Controller \in Linked(l)
    <3>1. l \in [Index -> Peers] /\ Linked(l) = Linked(links) \cup {d}
      BY <1>1, <2>4, WithOneMore
    <3> QED BY <2>4, <3>1
  <2> QED BY <1>3, <2>1, <2>2, <2>3, <2>4
<1> QED BY <1>2, <1>3

\* A process call, with the links as the link manager left them.
LEMMA ProcessFacts ==
    ASSUME TypeOK, NEW l \in [Index -> Peers], OneRole(l), payg_credit_process(l)
    PROVE  /\ res' \in Resource /\ res'.mode = operating_mode(l)
           /\ res'.since_updated = since_updated(operating_mode(l), slept)
           /\ slept' = 0 /\ sleep' \in Nat /\ sleep' <= IdleTime
           /\ gap' \in [Accessories -> 0..GapCap] /\ faults' \in 0..MaxFaults
           /\ credit' = IF credit_erased(operating_mode(l), slept) THEN 0 ELSE credit
<1> DEFINE mode == operating_mode(l)
           u == since_updated(mode, slept)
           p == prepared(res, l, payg_state(credit))
           r == [p EXCEPT !.mode = mode, !.since_updated = u]
<1>1. mode \in Modes /\ (mode = "leading" <=> LinkedAccessories(l) # {})
  BY ModeIsRole
<1>2. res \in Resource /\ slept \in Nat /\ gap \in [Accessories -> 0..GapCap] /\ faults \in 0..MaxFaults
  BY DEF TypeOK, Resource
<1>3. p \in Resource /\ (LinkedAccessories(l) # {} => p.last_updated \in LinkedAccessories(l) \cup {None})
  BY <1>2, PreparedType
<1> HIDE DEF p, mode
<1>4. u \in 0..(FollowerMax - 1)
  <2>1. res.since_updated \in 0..(FollowerMax - 1)
    BY <1>2 DEF Resource
  <2> QED BY <1>2, <2>1, Times DEF since_updated, Silent
<1> HIDE DEF u
<1>5. /\ r \in Resource /\ r.mode = mode /\ r.since_updated = u
      /\ r.last_updated = p.last_updated
  BY <1>1, <1>3, <1>4 DEF Resource
<1> DEFINE erased == credit_erased(mode, slept)
           wait == IF mode = "following" /\ credit # Unlocked /\ ~erased
                   THEN FollowerMax - r.since_updated ELSE IdleTime
<1>6. /\ credit' = IF erased THEN 0 ELSE credit
      /\ \/ LinkedAccessories(l) = {} /\ res' = r /\ Sleeps(wait) /\ NoPost(l)
         \/ LinkedAccessories(l) # {} /\ LeaderPart(r, l)
  BY DEF payg_credit_process, p, mode, u
<1>7. wait \in Nat
  BY <1>4, <1>5, Times
<1> HIDE DEF r, wait, erased
<1>8. CASE LinkedAccessories(l) = {} /\ res' = r /\ Sleeps(wait) /\ NoPost(l)
  <2>1. gap' \in [Accessories -> 0..GapCap] /\ faults' \in 0..MaxFaults
    <3>1. 0 \in 0..GapCap
      BY Times DEF GapCap
    <3> QED BY <1>2, <1>8, <3>1 DEF NoPost, Waited
  <2> QED BY <1>5, <1>6, <1>7, <1>8, <2>1, SleepType DEF erased, mode, u
<1>9. CASE LinkedAccessories(l) # {} /\ LeaderPart(r, l)
  <2>1. r.last_updated \in LinkedAccessories(l) \cup {None}
    BY <1>3, <1>5, <1>9
  <2> QED BY <1>5, <1>6, <1>9, <2>1, LeaderType DEF erased, mode, u
<1> QED BY <1>6, <1>8, <1>9

LEMMA ProcessKeeps ==
    ASSUME PaygInv, Process
    PROVE  PaygInv'
<1>1. PICK l \in NextLinks :
        /\ payg_credit_process(l) /\ links' = l /\ pending' = FALSE
        /\ changes' = IF l = links \/ pending THEN changes ELSE changes + 1
        /\ changes' <= MaxChanges
        /\ UNCHANGED <<silence, led, orphaned>>
  BY DEF Process, core_process
<1>2. /\ l \in [Index -> Peers] /\ OneRole(l)
      /\ pending => Controller \in Linked(l)
      /\ Controller \in Linked(links) => Controller \in Linked(l) \/ LinkedAccessories(l) = {}
  BY NextLinksFacts DEF PaygInv
<1> DEFINE mode == operating_mode(l)
<1>3. /\ res' \in Resource /\ res'.mode = mode
      /\ res'.since_updated = since_updated(mode, slept)
      /\ slept' = 0 /\ sleep' \in Nat /\ sleep' <= IdleTime
      /\ gap' \in [Accessories -> 0..GapCap] /\ faults' \in 0..MaxFaults
      /\ credit' = IF credit_erased(mode, slept) THEN 0 ELSE credit
  BY <1>1, <1>2, ProcessFacts DEF PaygInv
<1>4. mode = "following" <=> Controller \in Linked(l)
  BY <1>2, ModeIsRole
<1>5. mode = "leading" <=> LinkedAccessories(l) # {}
  BY <1>2, ModeIsRole
<1>6. mode \in Modes
  BY <1>2, ModeIsRole
<1> HIDE DEF mode
<1>7. TypeOK'
  <2>1. credit' \in Credits
    BY <1>3, Times DEF PaygInv, TypeOK, Credits, Unlocked
  <2>2. changes' \in 0..MaxChanges
    BY <1>1, Times DEF PaygInv, TypeOK
  <2>3. slept' \in 0..sleep'
    BY <1>3
  <2> QED BY <1>1, <1>2, <1>3, <2>1, <2>2, <2>3 DEF PaygInv, TypeOK, Resource, Peers
<1>8. Roles'
  BY <1>1, <1>2, <1>3, <1>4 DEF Roles
<1>9. Counted'
  <2> SUFFICES ASSUME led', credit' \in Metered
               PROVE  /\ silence' <= res'.since_updated + slept'
                      /\ Controller \in Linked(links') \/ pending' \/ (orphaned' /\ silence' = 0)
    BY DEF Counted
  <2>1. ~credit_erased(mode, slept) /\ credit' = credit /\ credit \in Metered /\ credit # Unlocked
    BY <1>3, Times DEF Metered, Unlocked
  <2>2. led /\ silence <= res.since_updated + slept
        /\ (Controller \in Linked(links) \/ pending \/ (orphaned /\ silence = 0))
    BY <1>1, <2>1 DEF PaygInv, Counted
  <2>3. silence \in Nat /\ slept \in Nat /\ res.since_updated \in Nat /\ res'.since_updated \in Nat
    BY <1>3 DEF PaygInv, TypeOK, Resource
  <2>4. CASE mode = "following"
    <3>1. res'.since_updated = res.since_updated + slept
      BY <1>3, <2>1, <2>4 DEF since_updated, credit_erased
    <3> QED BY <1>1, <1>3, <1>4, <2>2, <2>3, <2>4, <3>1
  <2>5. CASE mode # "following"
    <3>1. Controller \notin Linked(l) /\ ~pending
      BY <1>2, <1>4, <2>5
    <3>2. Controller \notin Linked(links)
      <4> SUFFICES ASSUME Controller \in Linked(links) PROVE FALSE
        OBVIOUS
      <4>1. mode = "independent"
        BY <1>2, <1>5, <1>6, <2>5, <3>1 DEF Modes
      <4>2. res.mode = "following"
        BY DEF PaygInv, Roles
      <4> QED BY <2>1, <4>1, <4>2 DEF credit_erased
    <3>3. orphaned /\ silence = 0
      BY <2>2, <3>1, <3>2
    <3> QED BY <1>1, <1>3, <2>3, <3>3
  <2> QED BY <2>4, <2>5
<1> QED BY <1>7, <1>8, <1>9 DEF PaygInv

\* A message of the controller, an entry of a keycode and a GET leave the
\* links and the time alone.
LEMMA UpdateKeeps ==
    ASSUME PaygInv, NEW new \in Credits, UpdateFromPostOrGet(new)
    PROVE  PaygInv'
<1>1. OneRole(links) /\ Controller \in Linked(links) /\ res \in Resource /\ slept \in Nat
  BY DEF UpdateFromPostOrGet, PaygInv, Roles, TypeOK, Resource
<1>2. res' = [res EXCEPT !.since_updated = 0] /\ credit' = new /\ silence' = 0 /\ led' = TRUE
  BY <1>1, ModeIsRole DEF UpdateFromPostOrGet
<1>3. res' \in Resource /\ res'.mode = res.mode /\ res'.since_updated = 0
  BY <1>1, <1>2, Times DEF Resource
<1>4. UNCHANGED <<links, pending, slept, sleep, gap, orphaned, faults, changes>>
  BY DEF UpdateFromPostOrGet
<1>5. TypeOK'
  <2>1. 0 \in 0..GapCap
    BY Times DEF GapCap
  <2> QED BY <1>2, <1>3, <1>4, <2>1 DEF PaygInv, TypeOK, Resource
<1>6. Roles'
  BY <1>3, <1>4 DEF PaygInv, Roles
<1>7. Counted'
  BY <1>1, <1>2, <1>3, <1>4 DEF Counted
<1> QED BY <1>5, <1>6, <1>7 DEF PaygInv

LEMMA GetKeeps == ASSUME PaygInv, GetHandler PROVE PaygInv'
<1>1. OneRole(links) /\ res \in Resource
  BY DEF PaygInv, Roles, TypeOK, Resource
<1>2. operating_mode(links) \in Modes
      /\ (operating_mode(links) = "following" <=> Controller \in Linked(links))
  BY <1>1, ModeIsRole
<1>3. res' \in Resource /\ res'.mode = operating_mode(links) /\ res'.since_updated = res.since_updated
  BY <1>1, <1>2 DEF GetHandler, Resource
<1>4. UNCHANGED <<links, pending, credit, slept, sleep, gap, silence, led, orphaned, faults, changes>>
  BY DEF GetHandler, history
<1> QED BY <1>2, <1>3, <1>4 DEF PaygInv, TypeOK, Roles, Counted, Resource

LEMMA RelinkKeeps == ASSUME PaygInv, Relink PROVE PaygInv'
<1>1. links \in [Index -> Peers] /\ OneRole(links) /\ Controller \in Linked(links)
  BY DEF Relink, PaygInv, Roles, TypeOK, Peers
<1>2. links' \in [Index -> Peers] /\ OneRole(links') /\ Linked(links') = Linked(links) \ {Controller}
  BY <1>1, WithoutLinks DEF Relink
<1>3. Linked(links) \subseteq Accessories \cup {Controller}
  BY <1>1 DEF Linked, Peers
<1>4. Linked(links') = {}
  BY <1>1, <1>2, <1>3 DEF OneRole, LinkedAccessories
<1>5. \E i \in Index : links'[i] = None
  BY <1>1, <1>4 DEF Linked
<1>6. pending' /\ pending' \in BOOLEAN /\ changes' \in 0..MaxChanges
      /\ UNCHANGED <<credit, res, slept, sleep, gap, silence, led, orphaned, faults>>
  BY Times DEF Relink, PaygInv, TypeOK, history
<1>7. TypeOK'
  BY <1>2, <1>6 DEF PaygInv, TypeOK, Peers
<1>8. Roles'
  BY <1>2, <1>4, <1>5, <1>6 DEF PaygInv, Roles
<1>9. Counted'
  BY <1>6 DEF PaygInv, Counted
<1> QED BY <1>7, <1>8, <1>9 DEF PaygInv

LEMMA CreditKeeps ==
    ASSUME PaygInv, NEW new \in Credits, CreditChanges(new)
    PROVE  PaygInv'
<1>1. /\ credit' = new /\ led' \in BOOLEAN
      /\ UNCHANGED <<links, pending, res, slept, sleep, silence, gap, orphaned, faults, changes>>
  BY DEF CreditChanges, PaygInv, TypeOK
<1>2. TypeOK' /\ Roles'
  BY <1>1 DEF PaygInv, TypeOK, Roles
\* Within the metered states the PAYG state does not change.
<1>3. ~(led' /\ credit' \in Metered)
  <2> SUFFICES ASSUME led', credit' \in Metered PROVE FALSE
    OBVIOUS
  <2>1. new \in Metered /\ credit # Unlocked /\ new < credit /\ credit \in Credits
        /\ payg_state(new) # payg_state(credit)
    BY <1>1 DEF CreditChanges, PaygInv, TypeOK
  <2>2. credit # 0 /\ new # 0 /\ new # Unlocked
    BY <2>1, Times DEF Metered, Credits, Unlocked
  <2>3. payg_state(new) = "enabled" /\ payg_state(credit) = "enabled"
    BY <2>1, <2>2 DEF payg_state
  <2> QED BY <2>1, <2>3
<1> QED BY <1>2, <1>3 DEF PaygInv, Counted

LEMMA RestartKeeps ==
    ASSUME PaygInv, NEW S \in {{}, {Controller}}, Restart(Without(links, S))
    PROVE  PaygInv'
<1> DEFINE l == Without(links, S)
<1>1. links \in [Index -> Peers] /\ OneRole(links) /\ credit \in Credits
  BY DEF PaygInv, Roles, TypeOK, Peers
<1>2. l \in [Index -> Peers] /\ OneRole(l) /\ Linked(l) = Linked(links) \ S
  BY <1>1, WithoutLinks
<1> HIDE DEF l
<1>3. /\ links' = l /\ pending' = FALSE /\ credit' = initial_credit(l, credit)
      /\ res' = res_init(l, credit') /\ slept' = 0 /\ sleep' = IdleTime
      /\ orphaned' = (orphaned \/ pending \/ l # links)
      /\ gap' = [a \in Accessories |-> 0] /\ silence' = 0
      /\ led' = led /\ faults' = faults /\ changes' \in 0..MaxChanges
  BY Times DEF Restart, l, PaygInv, TypeOK
<1>4. operating_mode(l) \in Modes /\ (operating_mode(l) = "following" <=> Controller \in Linked(l))
  BY <1>2, ModeIsRole
<1>5. payg_state(credit') \in {"unlocked", "disabled", "enabled"}
  BY DEF payg_state
<1>6. res' \in Resource /\ res'.mode = operating_mode(l) /\ res'.since_updated = 0
  BY <1>3, <1>4, <1>5, Times DEF res_init, Resource
<1>7. credit' \in Credits /\ (credit' \in Metered => credit \in Metered)
  BY <1>1, <1>3, Times DEF initial_credit, Credits, Metered, Unlocked
<1>8. TypeOK'
  <2>1. 0 \in 0..GapCap
    BY Times DEF GapCap
  <2>2. gap' \in [Accessories -> 0..GapCap] /\ silence' \in 0..GapCap
    BY <1>3, <2>1
  <2>3. sleep' \in Nat /\ slept' \in 0..sleep' /\ faults' \in 0..MaxFaults
    BY <1>3, Times DEF PaygInv, TypeOK
  <2>4. pending' \in BOOLEAN /\ led' \in BOOLEAN /\ orphaned' \in BOOLEAN
    BY <1>3 DEF PaygInv, TypeOK
  <2> QED BY <1>2, <1>3, <1>6, <1>7, <2>2, <2>3, <2>4 DEF TypeOK, Resource, Peers
<1>9. Roles'
  BY <1>2, <1>3, <1>4, <1>6, Times DEF Roles
<1>10. Counted'
  <2> SUFFICES ASSUME led', credit' \in Metered
               PROVE  Controller \in Linked(l) \/ orphaned'
    BY <1>3, <1>6 DEF Counted
  <2>1. Controller \in Linked(links) \/ pending \/ orphaned
    BY <1>3, <1>7 DEF PaygInv, Counted
  <2>2. CASE Controller \in Linked(links) /\ l = links
    BY <2>2
  <2>3. CASE pending \/ orphaned \/ l # links
    BY <1>3, <2>3
  <2> QED BY <2>1, <2>2, <2>3
<1> QED BY <1>8, <1>9, <1>10 DEF PaygInv

LEMMA TickKeeps == ASSUME PaygInv, Tick PROVE PaygInv'
<1>1. GapCap \in Nat /\ sleep \in Nat /\ slept \in Nat /\ silence \in 0..GapCap
      /\ gap \in [Accessories -> 0..GapCap] /\ res.since_updated \in Nat
  BY Times DEF GapCap, PaygInv, TypeOK
<1>2. slept < sleep /\ slept' = slept + 1
      /\ UNCHANGED <<links, pending, credit, res, sleep, led, orphaned, faults, changes>>
  BY DEF Tick
<1>3. silence' = IF Controller \in Linked(links) THEN Saturated(silence + 1, GapCap) ELSE 0
  BY DEF Tick
<1>4. silence' \in 0..GapCap /\ silence' <= silence + 1
      /\ (Controller \notin Linked(links) => silence' = 0)
  BY <1>1, <1>3 DEF Saturated
<1>5. gap' \in [Accessories -> 0..GapCap]
  <2>1. \A a \in Accessories : (IF a \in Linked(links) THEN Saturated(gap[a] + 1, GapCap) ELSE 0)
                                 \in 0..GapCap
    BY <1>1 DEF Saturated
  <2> QED BY <2>1 DEF Tick
<1>6. TypeOK'
  <2>1. slept' \in 0..sleep'
    BY <1>1, <1>2
  <2> QED BY <1>2, <1>4, <1>5, <2>1 DEF PaygInv, TypeOK
<1>7. Roles'
  BY <1>2 DEF PaygInv, Roles
<1>8. Counted'
  <2> SUFFICES ASSUME led', credit' \in Metered
               PROVE  /\ silence' <= res'.since_updated + slept'
                      /\ Controller \in Linked(links') \/ pending' \/ (orphaned' /\ silence' = 0)
    BY DEF Counted
  <2>1. silence <= res.since_updated + slept
        /\ (Controller \in Linked(links) \/ pending \/ (orphaned /\ silence = 0))
    BY <1>2 DEF PaygInv, Counted
  <2>2. silence' <= res.since_updated + (slept + 1)
    BY <1>1, <1>4, <2>1
  <2> QED BY <1>2, <1>4, <2>1, <2>2
<1> QED BY <1>6, <1>7, <1>8 DEF PaygInv

LEMMA PaygNext == PaygInv /\ [Next]_vars => PaygInv'
<1> SUFFICES ASSUME PaygInv, [Next]_vars PROVE PaygInv'
  OBVIOUS
<1>1. CASE UNCHANGED vars
  BY <1>1 DEF vars, history, PaygInv, TypeOK, Roles, Counted
<1> QED BY <1>1, ProcessKeeps, UpdateKeeps, CreditKeeps, GetKeeps, RelinkKeeps, RestartKeeps,
           TickKeeps DEF Next

\* Credit that a controller gave lasts as long as the controller
\* (nexus_channel_res_payg_credit.c): a follower that hears nothing for the
\* maximum time and the time it may sleep has none left of it, and credit is
\* gone with the link, also if the resource is read in between, unless the link
\* is about to be replaced or power was lost just then.
THEOREM CreditEnds == Spec => []CreditFollowsController
<1>1. PaygInv => CreditFollowsController
  <2> SUFFICES ASSUME PaygInv PROVE SilenceErasesCredit /\ CreditNeedsLeader
    BY DEF PaygInv, CreditFollowsController
  <2>1. CreditNeedsLeader
    BY DEF PaygInv, Counted, CreditNeedsLeader
  <2>2. led /\ credit \in Metered => silence <= FollowerMax + IdleTime
    <3>1. slept <= IdleTime /\ slept \in Nat /\ silence \in Nat
          /\ res.since_updated \in Nat /\ res.since_updated <= FollowerMax
      BY Times DEF PaygInv, TypeOK, Roles
    <3> QED BY <3>1, Times DEF PaygInv, Counted
  <2>3. SilenceErasesCredit
    <3>1. silence \in Nat /\ FollowerMax + IdleTime \in Nat
      BY Times DEF PaygInv, TypeOK
    <3> QED BY <2>2, <3>1 DEF SilenceErasesCredit
  <2> QED BY <2>1, <2>3
<1> QED BY <1>1, PaygInit, PaygNext, PTL DEF Spec

=============================================================================
