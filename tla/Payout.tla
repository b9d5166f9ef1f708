------------------------------- MODULE Payout -------------------------------
(***************************************************************************)
(* How a priced charge becomes money of the parties of its station, and    *)
(* how a party draws it out.                                               *)
(*                                                                         *)
(* A split template holds 2 to 8 parties whose ratios add up to RatioBase  *)
(* (10000 basis points in the code).  A station is bound to one template;  *)
(* the billing job resolves that template for a priced charge and writes   *)
(* the settlement with one amount per party.  A party row is identified by *)
(* its database id: replacing the parties of a template deletes the rows   *)
(* and inserts new ones.                                                   *)
(*                                                                         *)
(* A withdrawal is created, decided and paid by three administrator calls. *)
(* Each call reads the balance in its transaction and writes afterwards;   *)
(* the row of the withdrawal is locked by a decision and by a payment, the *)
(* rows of the other withdrawals are not.                                  *)
(*                                                                         *)
(* Nothing in src/ moves a settlement to 'paid', the only status whose     *)
(* amounts may be drawn: PayOutSettlement stands for the operator or the   *)
(* service that does.                                                      *)
(***************************************************************************)
EXTENDS Integers, FiniteSets, Functions

CONSTANTS
    Stations, Templates,
    Codes,         \* party codes, numbers: equal remainders go to the lower one
    PartyChoices,  \* the party lists an administrator may submit: code -> ratio
    Calculations,  \* priced charges
    StationOf,     \* Calculations -> Stations
    Fee,           \* Calculations -> [electric, service], in cents
    Withdrawals,   \* withdrawal requests, by request number
    Amounts,       \* the amounts asked for
    RatioBase,
    FirstRow,      \* Templates -> the first party id of the template as created
    MaxRows        \* bound on the party rows ever inserted

ASSUME PayoutAssumption ==
    /\ IsFiniteSet(Calculations) /\ IsFiniteSet(Withdrawals) /\ IsFiniteSet(Templates)
    /\ IsFiniteSet(Codes) /\ Codes \subseteq Nat
    /\ \A list \in PartyChoices : \E D \in SUBSET Codes : list \in [D -> Nat]
    /\ StationOf \in [Calculations -> Stations]
    /\ Fee \in [Calculations -> [electric : Nat, service : Nat]]
    /\ FirstRow \in [Templates -> Nat]
    /\ Amounts \subseteq Nat \ {0}
    /\ RatioBase \in Nat \ {0} /\ MaxRows \in Nat

VARIABLES
    template,      \* Templates -> [status, mode, parties]
    nextRow,       \* the next party id
    station,       \* Stations -> [status, bound, charged]
    priced,        \* calculations whose fee is known
    resolved,      \* Calculations -> the template read by the job, or None
    settlement,    \* Calculations -> the settlement row, or None
    withdrawal,    \* Withdrawals -> the request row, or None
    call           \* Withdrawals -> the call that has read and not yet written

payoutVars == <<template, nextRow, station, priced, resolved, settlement,
                withdrawal, call>>

\* No template, no settlement or request row, no call under way.
None == "none"
NoRow == [status |-> "none"]
NoRead == [id |-> None]
NoCall == [op |-> "none"]

ASSUME NoneIsNoTemplate == None \notin Templates

-----------------------------------------------------------------------------
(* Splitting an amount.                                                    *)

\* A submitted list: 2 to 8 parties, each a proper part, together the whole.
ValidParties(list) ==
    /\ Cardinality(DOMAIN list) \in 2..8
    /\ \A code \in DOMAIN list : list[code] \in 1..(RatioBase - 1)
    /\ SumFunctionOnSet(list, DOMAIN list) = RatioBase

\* A template is created with a valid list.
FirstList == CHOOSE list \in PartyChoices : ValidParties(list)
ASSUME SomeListIsValid == \E list \in PartyChoices : ValidParties(list)

\* The list the rows of a template amount to.
ListOf(rows) ==
    [code \in {row.code : row \in rows} |->
        (CHOOSE row \in rows : row.code = code).ratio]

Remainder(amount, row) == (amount * row.ratio) % RatioBase

\* The rows before `row` in the order that hands out the cents left over.
Ahead(amount, row, rows) ==
    {other \in rows :
        \/ Remainder(amount, other) > Remainder(amount, row)
        \/ /\ Remainder(amount, other) = Remainder(amount, row)
           /\ other.code < row.code}

\* The whole part of each share, and one cent of the rest to the rows with the
\* largest remainders.
Whole(amount, rows) ==
    [row \in rows |-> (amount * row.ratio) \div RatioBase]
Rest(amount, rows) == amount - SumFunctionOnSet(Whole(amount, rows), rows)

ShareOf(amount, row, rows) ==
    Whole(amount, rows)[row] +
        IF Cardinality(Ahead(amount, row, rows)) < Rest(amount, rows) THEN 1 ELSE 0

SharesOf(amount, rows) ==
    [id \in {row.id : row \in rows} |->
        ShareOf(amount, CHOOSE row \in rows : row.id = id, rows)]

\* mode_a splits electricity and service, mode_b service only.
Allocate(fee, mode, rows) ==
    [electric |-> SharesOf(IF mode = "mode_a" THEN fee.electric ELSE 0, rows),
     service  |-> SharesOf(fee.service, rows)]

-----------------------------------------------------------------------------
(* Templates and stations.                                                 *)

Bound(t) == \E s \in Stations : station[s].bound = t

\* The rows of a list are inserted in the order of their codes.
InsertParties(first, list) ==
    {[id |-> first + Cardinality({c \in DOMAIN list : c < code}),
      code |-> code, ratio |-> list[code]] : code \in DOMAIN list}

\* A template as Create leaves it: active, with its parties.
NewTemplate(first) ==
    [status |-> "active", mode |-> "mode_a",
     parties |-> InsertParties(first, FirstList)]

PayoutInit ==
    /\ template = [t \in Templates |-> NewTemplate(FirstRow[t])]
    /\ nextRow = Cardinality(Templates) * Cardinality(Codes)
    /\ station = [s \in Stations |->
                    [status |-> "disabled", bound |-> None, charged |-> FALSE]]
    /\ priced = {}
    /\ resolved = [c \in Calculations |-> NoRead]
    /\ settlement = [c \in Calculations |-> NoRow]
    /\ withdrawal = [w \in Withdrawals |-> NoRow]
    /\ call = [w \in Withdrawals |-> NoCall]

\* Mode and status are frozen once a station is bound; a template that becomes
\* active again has its ratios checked.
UpdateTemplate(t, mode, status) ==
    /\ <<mode, status>> # <<template[t].mode, template[t].status>>
    /\ ~Bound(t)
    /\ status = "active" => ValidParties(ListOf(template[t].parties))
    /\ template' = [template EXCEPT ![t].mode = mode, ![t].status = status]
    /\ UNCHANGED <<nextRow, station, priced, resolved, settlement, withdrawal, call>>

\* A plausible slip: the parties of a bound template are replaced too.
ReplaceParties_Bound(t, list) ==
    /\ ValidParties(list) /\ nextRow + Cardinality(DOMAIN list) <= MaxRows
    /\ template' = [template EXCEPT ![t].parties = InsertParties(nextRow, list)]
    /\ nextRow' = nextRow + Cardinality(DOMAIN list)
    /\ UNCHANGED <<station, priced, resolved, settlement, withdrawal, call>>

\* The old rows are deleted, the new ones get new ids.
ReplaceParties(t, list) ==
    /\ ValidParties(list) /\ nextRow + Cardinality(DOMAIN list) <= MaxRows
    /\ ~Bound(t)
    /\ template' = [template EXCEPT ![t].parties = InsertParties(nextRow, list)]
    /\ nextRow' = nextRow + Cardinality(DOMAIN list)
    /\ UNCHANGED <<station, priced, resolved, settlement, withdrawal, call>>

UsableTemplate(t) ==
    template[t].status = "active" /\ ValidParties(ListOf(template[t].parties))

\* A station may change its template while it is disabled and has never been
\* paid at or charged at.  The five minutes a station with devices must have
\* been disabled are left out: they only delay the step.
BindTemplate(s, t) ==
    /\ UsableTemplate(t)
    /\ station[s].bound # t
    /\ station[s].status = "disabled"
    /\ ~station[s].charged
    /\ station' = [station EXCEPT ![s].bound = t]
    /\ UNCHANGED <<template, nextRow, priced, resolved, settlement, withdrawal, call>>

SaveStation(s, status) ==
    /\ station[s].status # status
    /\ station' = [station EXCEPT ![s].status = status]
    /\ UNCHANGED <<template, nextRow, priced, resolved, settlement, withdrawal, call>>

-----------------------------------------------------------------------------
(* Settling a priced charge.                                               *)

\* A charge at an active station leaves its payment intent and, once it has
\* ended, a fee.  A station without a template can be charged at.
Charge(c) ==
    /\ c \notin priced
    /\ station[StationOf[c]].status = "active"
    /\ station' = [station EXCEPT ![StationOf[c]].charged = TRUE]
    /\ priced' = priced \union {c}
    /\ UNCHANGED <<template, nextRow, resolved, settlement, withdrawal, call>>

\* The job reads the active template bound to the station, and its parties.
Resolve(c) ==
    LET t == station[StationOf[c]].bound IN
    /\ c \in priced /\ settlement[c] = NoRow
    /\ t # None /\ template[t].status = "active"
    /\ Cardinality(template[t].parties) \in 2..8
    /\ resolved' = [resolved EXCEPT ![c] =
            [id |-> t, mode |-> template[t].mode, parties |-> template[t].parties]]
    /\ UNCHANGED <<template, nextRow, station, priced, settlement, withdrawal, call>>

\* One settlement per calculation: a second job finds the row and writes
\* nothing, or fails with a conflict.
Settle(c) ==
    LET t == resolved[c] IN
    /\ t # NoRead
    /\ settlement' = IF settlement[c] # NoRow THEN settlement
                     ELSE [settlement EXCEPT ![c] =
                        [template |-> t.id, mode |-> t.mode, status |-> "pending",
                         shares |-> Allocate(Fee[c], t.mode, t.parties)]]
    /\ resolved' = [resolved EXCEPT ![c] = NoRead]
    /\ UNCHANGED <<template, nextRow, station, priced, withdrawal, call>>

\* External: the settlement is paid out to the accounts of its parties.
PayOutSettlement(c) ==
    /\ settlement[c] # NoRow /\ settlement[c].status = "pending"
    /\ settlement' = [settlement EXCEPT ![c].status = "paid"]
    /\ UNCHANGED <<template, nextRow, station, priced, resolved, withdrawal, call>>

-----------------------------------------------------------------------------
(* Withdrawals.                                                            *)

\* What a party has of a settlement that is paid, and what it asked for.
Share(c, party) ==
    IF settlement[c].status = "paid" /\ party \in DOMAIN settlement[c].shares.service
    THEN settlement[c].shares.electric[party] + settlement[c].shares.service[party]
    ELSE 0
Asked == [w \in Withdrawals |->
            IF withdrawal[w] = NoRow THEN 0 ELSE withdrawal[w].amount]

Earned(party) ==
    SumFunctionOnSet([c \in Calculations |-> Share(c, party)], Calculations)

OfParty(w, party) == withdrawal[w] # NoRow /\ withdrawal[w].party = party

Drawn(party, statuses, excluded) ==
    SumFunctionOnSet(Asked,
        {w \in Withdrawals \ excluded :
            OfParty(w, party) /\ withdrawal[w].status \in statuses})

\* A plausible slip: only what is approved counts as taken.
AvailableCents_Approved(party, excluded) ==
    LET left == Earned(party) - Drawn(party, {"approved"}, excluded)
    IN  IF left < 0 THEN 0 ELSE left

\* What is earned less what is asked for; 'paid' withdrawals are not counted.
AvailableCents(party, excluded) ==
    LET left == Earned(party) - Drawn(party, {"pending", "approved"}, excluded)
    IN  IF left < 0 THEN 0 ELSE left

IsParty(party) ==
    \E t \in Templates :
        /\ template[t].status = "active"
        /\ \E row \in template[t].parties : row.id = party

CreateReads(w, party, amount) ==
    /\ withdrawal[w] = NoRow /\ call[w] = NoCall
    /\ IsParty(party)
    /\ AvailableCents(party, {}) >= amount
    /\ call' = [call EXCEPT ![w] = [op |-> "create", party |-> party, amount |-> amount]]
    /\ UNCHANGED <<template, nextRow, station, priced, resolved, settlement, withdrawal>>

\* A decision to approve, or the payment, with the row of w locked.
ReviewReads(w, op) ==
    /\ withdrawal[w] # NoRow /\ call[w] = NoCall
    /\ withdrawal[w].status = IF op = "approve" THEN "pending" ELSE "approved"
    /\ AvailableCents(withdrawal[w].party, {w}) >= withdrawal[w].amount
    /\ call' = [call EXCEPT ![w] = [op |-> op]]
    /\ UNCHANGED <<template, nextRow, station, priced, resolved, settlement, withdrawal>>

\* The call writes and commits.
CallWrites(w) ==
    /\ call[w] # NoCall
    /\ withdrawal' = [withdrawal EXCEPT ![w] =
            CASE call[w].op = "create" ->
                   [party |-> call[w].party, amount |-> call[w].amount,
                    status |-> "pending"]
              [] call[w].op = "approve" -> [@ EXCEPT !.status = "approved"]
              [] call[w].op = "pay" -> [@ EXCEPT !.status = "paid"]]
    /\ call' = [call EXCEPT ![w] = NoCall]
    /\ UNCHANGED <<template, nextRow, station, priced, resolved, settlement>>

\* The transaction is rolled back.
CallFails(w) ==
    /\ call[w] # NoCall
    /\ call' = [call EXCEPT ![w] = NoCall]
    /\ UNCHANGED <<template, nextRow, station, priced, resolved, settlement, withdrawal>>

Reject(w) ==
    /\ withdrawal[w] # NoRow /\ call[w] = NoCall
    /\ withdrawal[w].status \in {"pending", "approved"}
    /\ withdrawal' = [withdrawal EXCEPT ![w].status = "rejected"]
    /\ UNCHANGED <<template, nextRow, station, priced, resolved, settlement, call>>

PayoutNext ==
    \/ \E t \in Templates :
        \/ \E mode \in {"mode_a", "mode_b"}, status \in {"active", "disabled"} :
                UpdateTemplate(t, mode, status)
        \/ \E list \in PartyChoices : ReplaceParties(t, list)
        \/ \E s \in Stations : BindTemplate(s, t)
    \/ \E s \in Stations, status \in {"active", "disabled"} : SaveStation(s, status)
    \/ \E c \in Calculations :
        Charge(c) \/ Resolve(c) \/ Settle(c) \/ PayOutSettlement(c)
    \/ \E w \in Withdrawals :
        \/ \E party \in 0..(nextRow - 1), amount \in Amounts :
                CreateReads(w, party, amount)
        \/ \E op \in {"approve", "pay"} : ReviewReads(w, op)
        \/ CallWrites(w) \/ CallFails(w) \/ Reject(w)

PayoutSpec == PayoutInit /\ [][PayoutNext]_payoutVars

-----------------------------------------------------------------------------
(* Properties.                                                             *)

Modes == {"mode_a", "mode_b"}
RowsOf == [id : Nat, code : Codes, ratio : Nat]

\* The rows of a template: their ids and their codes differ, and the ratios are
\* proper parts of the whole.
Proper(rows) ==
    /\ rows \subseteq RowsOf /\ IsFiniteSet(rows)
    /\ \A x, y \in rows : x.id = y.id \/ x.code = y.code => x = y
    /\ SumFunctionOnSet([row \in rows |-> row.ratio], rows) = RatioBase

(* Shape of the state: templates have proper parties, amounts are positive,    *)
(* a call that has read finds its withdrawal as it read it.                     *)
PayoutTypeOK ==
    /\ template \in [Templates -> [status : {"active", "disabled"}, mode : Modes,
                                   parties : SUBSET RowsOf]]
    /\ \A t \in Templates : Proper(template[t].parties)
    /\ nextRow \in Nat
    /\ station \in [Stations -> [status : {"active", "disabled"},
                                 bound : Templates \cup {None}, charged : BOOLEAN]]
    /\ priced \subseteq Calculations
    /\ resolved \in [Calculations -> {NoRead} \cup
            [id : Templates, mode : Modes, parties : SUBSET RowsOf]]
    /\ settlement \in [Calculations -> {NoRow} \cup
            [template : Templates, mode : Modes, status : {"pending", "paid"},
             shares : UNION {[electric : [ids -> Nat], service : [ids -> Nat]] :
                              ids \in SUBSET Nat}]]
    /\ withdrawal \in [Withdrawals -> {NoRow} \cup
            [party : Nat, amount : Amounts,
             status : {"pending", "approved", "paid", "rejected"}]]
    /\ call \in [Withdrawals -> {NoCall} \cup [op : {"approve", "pay"}] \cup
            [op : {"create"}, party : Nat, amount : Amounts]]

\* The shares of one amount: together all of it, none a cent or more from its
\* ratio.
FairShares(shares, amount, rows) ==
    /\ SumFunctionOnSet(shares, DOMAIN shares) = amount
    /\ \A row \in rows :
        LET gap == (shares[row.id] * RatioBase) - (amount * row.ratio)
        IN  gap < RatioBase /\ gap > -RatioBase

\* A settlement stands as it was made: the station is still bound to the
\* template it was made with, that template still has the mode and the very
\* party rows, so that each party that earned can be found and paid, and the
\* fee is split among them fairly to the cent
\* (billing/settlement.go, settlement/split_template.go).
SplitIsFinal ==
    \A c \in {one \in Calculations : settlement[one] # NoRow} :
        LET made == settlement[c]
            now  == template[made.template]
        IN  /\ station[StationOf[c]].bound = made.template
            /\ now.mode = made.mode /\ now.status = "active"
            /\ DOMAIN made.shares.service = {row.id : row \in now.parties}
            /\ FairShares(made.shares.service, Fee[c].service, now.parties)
            /\ FairShares(made.shares.electric,
                    IF made.mode = "mode_a" THEN Fee[c].electric ELSE 0, now.parties)

Parties == 0..(nextRow - 1)

\* However the calls of several administrators overlap, the withdrawals of a
\* party that are approved and not yet paid never add up to more than it has
\* earned (settlement/withdraw.go Create, Decide and Pay).
ApprovedWithinEarned ==
    \A party \in Parties : Drawn(party, {"approved"}, {}) <= Earned(party)

\* What settlement/withdraw.go promises of Create and Pay: a party is never
\* paid more than it has earned.
PaidWithinEarned ==
    \A party \in Parties : Drawn(party, {"paid"}, {}) <= Earned(party)

\* A call writes on the row it has read: it holds it, or there is none yet.
CallsHoldRows ==
    \A w \in Withdrawals :
        /\ call[w].op = "create" => withdrawal[w] = NoRow
        /\ call[w].op = "approve" => withdrawal[w].status = "pending"
        /\ call[w].op = "pay" => withdrawal[w].status = "approved"

\* What was read of a template before settling still holds, because the station
\* has been charged at and its template is bound.
ReadIsCurrent ==
    \A c \in Calculations :
        /\ resolved[c] # NoRead \/ settlement[c] # NoRow => c \in priced
        /\ c \in priced => station[StationOf[c]].charged
        /\ resolved[c] # NoRead =>
            LET read == resolved[c]
                now  == template[read.id]
            IN  /\ station[StationOf[c]].bound = read.id
                /\ now.status = "active" /\ now.mode = read.mode
                /\ now.parties = read.parties

\* The withdrawals of a party that are approved, or that a call is about to
\* approve because it has seen that the balance will bear them.
Pledged(party) ==
    {w \in Withdrawals :
        /\ OfParty(w, party)
        /\ \/ withdrawal[w].status = "approved"
           \/ withdrawal[w].status = "pending" /\ call[w].op = "approve"}

PledgedWithinEarned ==
    \A party \in Nat : SumFunctionOnSet(Asked, Pledged(party)) <= Earned(party)

(* What the steps keep together: an approval that has been read counts from    *)
(* then on, for whoever reads next sees it pending.                             *)
PayoutInvariant ==
    /\ PayoutTypeOK
    /\ CallsHoldRows
    /\ ReadIsCurrent
    /\ SplitIsFinal
    /\ PledgedWithinEarned
=============================================================================
