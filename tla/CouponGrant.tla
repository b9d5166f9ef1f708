----------------------------- MODULE CouponGrant -----------------------------
(***************************************************************************)
(* Granting coupons: by an activity rule within the transaction of a       *)
(* recharge or of a settled order, and by hand.                            *)
(*                                                                         *)
(* A rule's budget and its limit per user are counted from the grants of   *)
(* the coupon it had when the rules were listed, the rule row being locked *)
(* until the transaction ends; an administrator may give it another coupon.*)
(* What the count sees depends on the transaction: a recharge reads        *)
(* what is committed; the settlement of an order reads the snapshot it     *)
(* took before it came to the rules; a grant by hand takes its snapshot    *)
(* once it holds the coupon's row.  Its own inserts a transaction always   *)
(* sees.                                                                   *)
(***************************************************************************)
EXTENDS Integers, FiniteSets

CONSTANTS
    Rules, Coupons, Users,
    Calls,        \* transactions that may grant
    KindOf,       \* Calls -> {"recharge", "order", "manual"}
    UserOf,       \* Calls -> Users
    RequestOf,    \* Calls -> the request number or the event key
    GivenBy,      \* manual calls -> the coupon given
    TriggeredBy,  \* Rules -> {"recharge", "order"}
    Quota,        \* Coupons -> [total, perUser]; total 0 is no limit
    Settings,     \* what a rule may be set to: [max, perUser, coupon]; max 0 is no
                  \* limit, and a perUser of 0 is read as 1 (grantFromRule)
    Dispatchers   \* settlements that may run at the same time

ASSUME CouponGrantAssumption ==
    /\ UserOf \in [Calls -> Users]
    /\ KindOf \in [Calls -> {"recharge", "order", "manual"}]
    /\ \A t \in Calls : KindOf[t] = "manual" => GivenBy[t] \in Coupons
    /\ TriggeredBy \in [Rules -> {"recharge", "order"}]
    /\ Quota \in [Coupons -> [total : Nat, perUser : Nat]]
    /\ \A r \in Rules :
        Settings[r] \subseteq [max : Nat, perUser : Nat \ {0}, coupon : Coupons]
    /\ Dispatchers \in Nat \ {0}

VARIABLES
    rule,         \* Rules -> [max, perUser, coupon, active]
    granted,      \* the committed grants
    tx            \* Calls -> [state, seen, own, todo, rules, coupons]:
                  \* what it sees, has inserted, holds locked, and the
                  \* [rule, coupon] it has listed and still to come to

grantVars == <<rule, granted, tx>>

Idle == [state |-> "idle", seen |-> {}, own |-> {}, todo |-> {},
         rules |-> {}, coupons |-> {}]

RuleRow(setting, active) ==
    [max |-> setting.max, perUser |-> setting.perUser, coupon |-> setting.coupon,
     active |-> active]

GrantInit ==
    /\ \E first \in [Rules -> UNION {Settings[r] : r \in Rules}] :
        /\ \A r \in Rules : first[r] \in Settings[r]
        /\ rule = [r \in Rules |-> RuleRow(first[r], TRUE)]
    /\ granted = {}
    /\ tx = [t \in Calls |-> Idle]

\* A transaction that has begun: what is committed by now is its snapshot.
Opened(own, todo, coupons) ==
    [state |-> "open", seen |-> granted, own |-> own, todo |-> todo,
     rules |-> {}, coupons |-> coupons]

Open(kind) == {t \in Calls : tx[t].state = "open" /\ KindOf[t] = kind}
FreeRule(r) == \A t \in Calls : r \notin tx[t].rules
FreeCoupon(k) == \A t \in Calls : k \notin tx[t].coupons

\* What a plain read of the transaction sees.
View(t) ==
    (IF KindOf[t] = "recharge" THEN granted ELSE tx[t].seen) \union tx[t].own

GrantOf(t, job) == [request |-> <<RequestOf[t], job.rule>>, coupon |-> job.coupon,
                    user |-> UserOf[t], source |-> "activity"]
HandGrant(t) == [request |-> <<RequestOf[t], 0>>, coupon |-> GivenBy[t],
                 user |-> UserOf[t], source |-> "manual"]

\* What counts against the budget of a rule: the grants of its coupon by any rule.
OfActivity(grants, coupon) ==
    {g \in grants : g.coupon = coupon /\ g.source = "activity"}
OfUser(grants, coupon, user) ==
    {g \in grants : g.coupon = coupon /\ g.user = user}

-----------------------------------------------------------------------------
(* Activities.                                                             *)

\* A recharge is booked, or a settlement is applied: the active rules of the
\* event are listed, with their coupons.
Listed(kind) ==
    {[rule |-> r, coupon |-> rule[r].coupon] :
        r \in {r \in Rules : rule[r].active /\ TriggeredBy[r] = kind}}

Begin(t) ==
    /\ tx[t].state = "idle" /\ KindOf[t] # "manual"
    /\ KindOf[t] = "order" => Cardinality(Open("order")) < Dispatchers
    /\ tx' = [tx EXCEPT ![t] = Opened({}, Listed(KindOf[t]), {})]
    /\ UNCHANGED <<rule, granted>>

\* Rules are taken in the order of their ids.
NextRule(t, job) == job \in tx[t].todo /\ \A other \in tx[t].todo : job.rule <= other.rule

\* The limits are those of the locked row, the coupon the one that was listed.
Within(t, job) ==
    LET limit == rule[job.rule]
    IN  /\ limit.max > 0 => Cardinality(OfActivity(View(t), job.coupon)) < limit.max
        /\ Cardinality(OfUser(View(t), job.coupon, UserOf[t])) < limit.perUser

\* A plausible slip: the counts are taken before the rule row is locked.
MayLock_Never(t, r) == rule[r].active

\* The row of an active rule is waited for; one switched off is passed over.
MayLock(t, r) == rule[r].active /\ FreeRule(r)

\* The transaction comes to a rule and holds its row from then on.
Holding(t, job, own) ==
    [state |-> tx[t].state, seen |-> tx[t].seen, own |-> own, todo |-> tx[t].todo \ {job},
     rules |-> tx[t].rules \union {job.rule}, coupons |-> tx[t].coupons]

Grant(t, job) ==
    /\ NextRule(t, job) /\ MayLock(t, job.rule)
    /\ Within(t, job)
    /\ tx' = [tx EXCEPT ![t] = Holding(t, job, tx[t].own \union {GrantOf(t, job)})]
    /\ UNCHANGED <<rule, granted>>

\* The budget or the user's limit is used up, or the coupon is no longer to be
\* had: the rule stays locked and grants nothing.
PassOver(t, job) ==
    /\ NextRule(t, job)
    /\ \/ MayLock(t, job.rule) /\ tx' = [tx EXCEPT ![t] = Holding(t, job, tx[t].own)]
       \/ ~rule[job.rule].active /\ tx' = [tx EXCEPT ![t].todo = @ \ {job}]
    /\ UNCHANGED <<rule, granted>>

-----------------------------------------------------------------------------
(* By hand.                                                                *)

Receipts(grants) == {g.request : g \in grants}

\* grantCoupon: the coupon row is locked, then the receipt, the total and the
\* user's share are read.  A request number another open transaction has just
\* inserted is waited for.
GrantByHand(t) ==
    LET coupon == GivenBy[t]
        quota == Quota[coupon]
        request == HandGrant(t).request
    IN
    /\ tx[t].state = "idle" /\ KindOf[t] = "manual"
    /\ FreeCoupon(coupon)
    /\ request \notin Receipts(granted)
    /\ \A other \in Calls : request \notin Receipts(tx[other].own)
    /\ quota.total > 0 =>
            Cardinality({g \in granted : g.coupon = coupon}) < quota.total
    /\ Cardinality(OfUser(granted, coupon, UserOf[t])) < quota.perUser
    /\ tx' = [tx EXCEPT ![t] = Opened({HandGrant(t)}, {}, {coupon})]
    /\ UNCHANGED <<rule, granted>>

-----------------------------------------------------------------------------
Commit(t) ==
    /\ tx[t].state = "open" /\ tx[t].todo = {}
    /\ granted' = granted \union tx[t].own
    /\ tx' = [tx EXCEPT ![t] = [Idle EXCEPT !.state = "done"]]
    /\ UNCHANGED rule

\* The transaction fails; its caller will try again.
Abort(t) ==
    /\ tx[t].state = "open"
    /\ tx' = [tx EXCEPT ![t] = Idle]
    /\ UNCHANGED <<rule, granted>>

\* An administrator rewrites the rule, whose row is locked for it: everything but
\* what triggers it.
UpdateRule(r, setting, active) ==
    /\ FreeRule(r)
    /\ rule' = [rule EXCEPT ![r] = RuleRow(setting, active)]
    /\ rule' # rule
    /\ UNCHANGED <<granted, tx>>

GrantNext ==
    \/ \E t \in Calls :
        \/ Begin(t) \/ GrantByHand(t) \/ Commit(t) \/ Abort(t)
        \/ \E job \in tx[t].todo : Grant(t, job) \/ PassOver(t, job)
    \/ \E r \in Rules, active \in BOOLEAN :
        \E setting \in Settings[r] : UpdateRule(r, setting, active)

GrantSpec == GrantInit /\ [][GrantNext]_grantVars

-----------------------------------------------------------------------------
(* Properties.                                                             *)

Grew(grants, later) == Cardinality(later) > Cardinality(grants)

\* The grants a rule has made, whatever other rule gives the same coupon.
ByRule(grants, r) == {g \in grants : g.source = "activity" /\ g.request[2] = r}
Given(grants, r, coupon) == {g \in ByRule(grants, r) : g.coupon = coupon}

\* A commit that adds a grant of the rule leaves its grants of that coupon within
\* the budget, and the user's within the limit, that the rule has.
RuleKept(r, coupon) ==
    LET before == Given(granted, r, coupon)
        after == Given(granted', r, coupon)
    IN  /\ Grew(before, after) /\ rule[r].max > 0 => Cardinality(after) <= rule[r].max
        /\ \A u \in Users :
            Grew(OfUser(before, coupon, u), OfUser(after, coupon, u)) =>
                Cardinality(OfUser(after, coupon, u)) <= rule[r].perUser

ByHand(grants, coupon) ==
    {g \in grants : g.coupon = coupon /\ g.source = "manual"}

QuotaKept(grants, coupon) ==
    /\ Quota[coupon].total > 0 => Cardinality(ByHand(grants, coupon)) <= Quota[coupon].total
    /\ \A u \in Users :
         Cardinality(OfUser(ByHand(grants, coupon), coupon, u)) <= Quota[coupon].perUser
    /\ \A g, h \in ByHand(grants, coupon) : g.request = h.request => g = h

\* However recharges, settlements, grants by hand and changes of the rules, of
\* their coupons too, overlap, an activity never grants of one coupon beyond its
\* budget nor to a user more than the limit, and grants by hand stay within the
\* coupon's quota, one for each request (coupon/coupon_activity.go grantFromRule,
\* admin/coupons.go grantCoupon).  It rests on one settlement at a time.
GrantsWithinLimits ==
    [][\A coupon \in Coupons :
        /\ \A r \in Rules : RuleKept(r, coupon)
        /\ QuotaKept(granted', coupon)]_grantVars

\* max_grants is the limit of what the activity grants in all, there to bound its
\* cost (admin/coupon_activity.go:28, migrations/central_db/0001_init.sql:348).
ActivityWithinBudget ==
    [][\A r \in Rules :
        Grew(ByRule(granted, r), ByRule(granted', r)) /\ rule[r].max > 0 =>
            Cardinality(ByRule(granted', r)) <= rule[r].max]_grantVars
=============================================================================
