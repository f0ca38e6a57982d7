---------------------------- MODULE Investments ----------------------------
(***************************************************************************)
(* One long position: purchases, sales and their corrections               *)
(* (db/investments.go, db/investment_disposal_backdating.go,               *)
(* db/investment_{buy,sale}_{reversal,replacement}.go and                  *)
(* db/investment_replay_*.go).                                             *)
(*                                                                         *)
(* Operations are never rewritten.  A correction is a later operation, the *)
(* lots are a projection of the operations in effect, and every command    *)
(* chooses between applying its own effect to that projection and          *)
(* replaying the whole history.  A command is one write transaction whose  *)
(* guard reads the operation it corrects again, so commands do not         *)
(* interleave; what is hard is a long sequence of them.                    *)
(*                                                                         *)
(* One account, commodity and cost currency, every basis known, amounts in *)
(* units of the position's allocation scale.                               *)
(***************************************************************************)
EXTENDS Naturals, Sequences, FiniteSets, SequencesExt

CONSTANTS Dates,           \* the days, as numbers
          Trades,          \* what a purchase may be: [qty, basis]
          SellQuantities,  \* what a sale may sell
          Methods,         \* the cost basis methods the owner uses
          MaxOps           \* bound: operations ever recorded

AllMethods == {"fifo", "lifo", "average_cost", "specific_lot"}

ASSUME InvestmentsAssumption ==
    /\ Dates \subseteq Nat
    /\ Trades \subseteq [qty : Nat \ {0}, basis : Nat]
    /\ SellQuantities \subseteq Nat \ {0}
    /\ Methods \subseteq AllMethods
    /\ MaxOps \in Nat

VARIABLES ops,     \* investment_operations with their facts, by id
          lots,    \* investment_lot_state; a lot has the id of its purchase
          taken,   \* per sale: its latest effective allocations, by lot
          family   \* investment_position_basis_state.method_family

vars == <<ops, lots, taken, family>>

Ids    == 1..MaxOps
NoOp   == 0
Closed == [qty |-> 0, basis |-> 0]
None   == <<>>           \* the function without lots

(* A projection: what a command installs, or a refusal (ok = FALSE).       *)
Current == [ok |-> TRUE, lots |-> lots, taken |-> taken, family |-> family]
EmptyPosition == [Current EXCEPT !.lots = [l \in Ids |-> Closed], !.family = "none"]

----------------------------------------------------------------------------
(* The history.                                                            *)

Opening(date, trade) ==
    [kind |-> "buy", date |-> date, corrects |-> NoOp, root |-> Len(ops) + 1,
     qty |-> trade.qty, basis |-> trade.basis, method |-> "none", elected |-> None]

Disposal(date, qty, method, elected) ==
    [kind |-> "sell", date |-> date, corrects |-> NoOp, root |-> Len(ops) + 1,
     qty |-> qty, basis |-> 0, method |-> method, elected |-> elected]

(* A correction keeps the same-day slot of the operation it began from.    *)
Correcting(i, op) == [op EXCEPT !.corrects = i, !.root = ops[i].root]

Effective(h) ==
    {i \in DOMAIN h : h[i].kind # "reversal" /\ \A j \in DOMAIN h : h[j].corrects # i}

EffectiveSales(h) == {i \in Effective(h) : h[i].kind = "sell"}
EffectiveBuys(h)  == {i \in Effective(h) : h[i].kind = "buy"}

Before(a, b) == a.date < b.date \/ (a.date = b.date /\ a.root < b.root)

(* The operations S of h in replay's causal order.                         *)
Intents(h, S) ==
    [k \in 1..Cardinality(S) |->
        CHOOSE i \in S : Cardinality({j \in S : Before(h[j], h[i])}) = k - 1]

(* An election names an acquisition; after a correction of it, its         *)
(* effective lot stands for it.                                            *)
EffectiveLot(h, l) ==
    LET heirs == {m \in EffectiveBuys(h) : h[m].root = h[l].root}
    IN  IF heirs = {} THEN l ELSE CHOOSE m \in heirs : TRUE

Elected(h, sale) ==
    LET chosen == DOMAIN sale.elected
    IN  [m \in {EffectiveLot(h, l) : l \in chosen} |->
            sale.elected[CHOOSE l \in chosen : EffectiveLot(h, l) = m]]

(* Lot events are never removed, so a corrected sale still counts.         *)
Behind(date) == \E i \in DOMAIN ops : ops[i].kind = "sell" /\ date < ops[i].date

----------------------------------------------------------------------------
(* Disposing of lots.                                                      *)

Open(pos) == {l \in Ids : pos.lots[l].qty > 0}

(* Mutant: a sale may take lots opened after it. *)
EligibleWhenever(h, pos, sale) == Open(pos)

Eligible(h, pos, sale) == {l \in Open(pos) : h[l].date <= sale.date}

Units(f, S) == MapThenSumSet(LAMBDA l : f[l].qty, S)
Basis(f, S) == MapThenSumSet(LAMBDA l : f[l].basis, S)
Sum(f)      == MapThenSumSet(LAMBDA l : f[l], DOMAIN f)

Prorated(basis, part, whole) == (basis * part) \div whole

OpenedEarlier(h, m, l) == h[m].date < h[l].date \/ (h[m].date = h[l].date /\ m < l)

MethodFamily(method) == IF method = "average_cost" THEN "average_cost" ELSE "individual_lot"

(* The units of the eligible lots S that the sale uses up before lot l.    *)
Ahead(h, pos, S, sale, l) ==
    Units(pos.lots, {m \in S : IF sale.method = "lifo" THEN OpenedEarlier(h, l, m)
                                                      ELSE OpenedEarlier(h, m, l)})

(* What the sale takes of each lot: what the owner elected, or the lots    *)
(* used up in turn.                                                        *)
Take(h, pos, S, sale) ==
    IF sale.method = "specific_lot" THEN sale.elected
    ELSE [l \in {m \in S : Ahead(h, pos, S, sale, m) < sale.qty} |->
             Min({sale.qty - Ahead(h, pos, S, sale, l), pos.lots[l].qty})]

(* Lots sold one by one: each loses its own basis in proportion.           *)
FromLots(pos, take) ==
    LET out == [l \in DOMAIN take |->
                   [qty   |-> take[l],
                    basis |-> Prorated(pos.lots[l].basis, take[l], pos.lots[l].qty)]]
    IN  [taken |-> out,
         lots  |-> [l \in Ids |->
                       IF l \in DOMAIN out
                       THEN [qty   |-> pos.lots[l].qty - out[l].qty,
                             basis |-> pos.lots[l].basis - out[l].basis]
                       ELSE pos.lots[l]]]

(* Mutant: what rounding leaves over goes to no lot. *)
SharedWithoutRest(h, part, amount, basis, units) ==
    [l \in DOMAIN part |-> [qty |-> part[l], basis |-> Prorated(basis, part[l], units)]]

(* An amount shared over lots at the rate basis / units, the last lot      *)
(* getting what is left of it.                                             *)
Shared(h, part, amount, basis, units) ==
    LET last == CHOOSE l \in DOMAIN part : \A m \in DOMAIN part \ {l} : OpenedEarlier(h, m, l)
        Share(l) == Prorated(basis, part[l], units)
    IN  [l \in DOMAIN part |->
            [qty   |-> part[l],
             basis |-> IF l = last THEN amount - MapThenSumSet(Share, DOMAIN part \ {last})
                                   ELSE Share(l)]]

(* Lots sold from a pool: the sale takes its part of the pooled basis, and *)
(* the lots that survive share the rest again.                             *)
Survivors(h, pos, pool, left, basis) ==
    LET after == Shared(h, [l \in {m \in pool : left[m] > 0} |-> left[l]], basis, basis, Sum(left))
    IN  [l \in Ids |-> IF l \notin pool THEN pos.lots[l]
                       ELSE IF left[l] = 0 THEN Closed ELSE after[l]]

FromPool(h, pos, pool, take, basis, units) ==
    LET out == Prorated(basis, Sum(take), units)
    IN  [taken |-> Shared(h, take, out, basis, units),
         lots  |-> Survivors(h, pos, pool,
                       [l \in pool |-> pos.lots[l].qty - (IF l \in DOMAIN take THEN take[l] ELSE 0)],
                       basis - out)]

Disposable(h, pos, sale) ==
    LET eligible == Eligible(h, pos, sale) IN
    /\ eligible # {}
    /\ pos.family \in {"none", MethodFamily(sale.method)}
    /\ IF sale.method = "specific_lot"
       THEN /\ DOMAIN sale.elected \subseteq eligible
            /\ \A l \in DOMAIN sale.elected : sale.elected[l] <= pos.lots[l].qty
       ELSE sale.qty <= Units(pos.lots, eligible)

(* What the sale takes, and the lots it leaves. *)
Sold(h, pos, S, sale) ==
    IF sale.method = "average_cost"
    THEN FromPool(h, pos, S, Take(h, pos, S, sale), Basis(pos.lots, S), Units(pos.lots, S))
    ELSE FromLots(pos, Take(h, pos, S, sale))

(* The lock on the method's family is lifted when no lot at all is open.   *)
WithFamily(pos, method) ==
    [pos EXCEPT !.family = IF Open(pos) = {} THEN "none" ELSE MethodFamily(method)]

(* disposeLotsWithAuditTx: sale i of history h, on a projection. *)
Dispose(h, pos, i, sale) ==
    LET sold == Sold(h, pos, Eligible(h, pos, sale), sale)
    IN  IF Disposable(h, pos, sale)
        THEN WithFamily([pos EXCEPT !.lots = sold.lots, !.taken[i] = sold.taken], sale.method)
        ELSE [pos EXCEPT !.ok = FALSE]

(* The operations S of h, replayed from a position without lots.           *)
Replay(h, S) ==
    LET Apply(pos, i) ==
            IF ~pos.ok THEN pos
            ELSE IF h[i].kind = "buy"
            THEN [pos EXCEPT !.lots[i] = [qty |-> h[i].qty, basis |-> h[i].basis]]
            ELSE Dispose(h, pos, i, [h[i] EXCEPT !.elected = Elected(h, h[i])])
    IN  FoldLeft(Apply, EmptyPosition, Intents(h, S))

----------------------------------------------------------------------------
(* The commands.                                                           *)

Init ==
    /\ ops = <<>>
    /\ lots = [l \in Ids |-> Closed]
    /\ taken = [s \in Ids |-> None]
    /\ family = "none"

(* Record history h with projection pos, unless the command was refused.   *)
Install(h, pos) ==
    /\ pos.ok
    /\ ops' = h
    /\ lots' = pos.lots
    /\ taken' = pos.taken
    /\ family' = pos.family

InstallReplay(h) == \E pos \in {Replay(h, Effective(h))} : Install(h, pos)

(* The elections a sale of h may come with: open-ended, for the database   *)
(* decides, but of lots that are not corrected.                            *)
Elections(h, method, qty) ==
    IF method # "specific_lot" THEN {None}
    ELSE {e \in UNION {[L -> 1..qty] : L \in SUBSET EffectiveBuys(h)} : Sum(e) = qty}

Room == Len(ops) < MaxOps

Buy ==
    /\ Room
    /\ \E date \in Dates, trade \in Trades :
          LET h == Append(ops, Opening(date, trade)) IN
          \/ Behind(date) /\ InstallReplay(h)
          \/ ~Behind(date) /\ Install(h, [Current EXCEPT !.lots[Len(h)] = trade])

Sell ==
    /\ Room
    /\ \E date \in Dates, qty \in SellQuantities, method \in Methods :
       \E elected \in Elections(ops, method, qty) :
          LET sale == Disposal(date, qty, method, elected)
              h    == Append(ops, sale)
          IN  \/ Behind(date) /\ InstallReplay(h)
              \/ ~Behind(date) /\ Install(h, Dispose(h, Current, Len(h), sale))

Reversal(i) ==
    Append(ops, [ops[i] EXCEPT !.kind = "reversal", !.corrects = i, !.elected = None])

ReverseBuy  == Room /\ \E i \in EffectiveBuys(ops) : InstallReplay(Reversal(i))
ReverseSale == Room /\ \E i \in EffectiveSales(ops) : InstallReplay(Reversal(i))

ReplaceBuy ==
    /\ Room
    /\ \E i \in EffectiveBuys(ops), date \in Dates, trade \in Trades :
          InstallReplay(Append(ops, Correcting(i, Opening(date, trade))))

(* Mutant: only depletions are looked for behind the sale. *)
NewestSale(i) == ~Behind(ops[i].date)

(* The newest sale, replaced on its own date, is taken out of the history  *)
(* and sold again from the lots that leaves; any other is replayed.        *)
IsNewest(i) ==
    /\ Last(Intents(ops, Effective(ops))) = i
    /\ ~Behind(ops[i].date)

ReplaceSale ==
    /\ Room
    /\ \E i \in EffectiveSales(ops), date \in Dates, qty \in SellQuantities, method \in Methods :
       \E elected \in Elections(ops, method, qty) :
          LET sale    == Correcting(i, Disposal(date, qty, method, elected))
              h       == Append(ops, sale)
              without == Replay(h, Effective(h) \ {Len(h)})
              direct  == date = ops[i].date /\ IsNewest(i)
          IN  \/ direct /\ without.ok /\ Install(h, Dispose(h, without, Len(h), sale))
              \/ ~direct /\ InstallReplay(h)

Next == Buy \/ Sell \/ ReverseBuy \/ ReverseSale \/ ReplaceBuy \/ ReplaceSale

Spec == Init /\ [][Next]_vars

----------------------------------------------------------------------------
(* Properties.                                                             *)

Part == [qty : Nat, basis : Nat]

TypeOK ==
    /\ Len(ops) <= MaxOps
    /\ \A i \in DOMAIN ops : ops[i].kind \in {"buy", "sell", "reversal"} /\ ops[i].corrects < i
    /\ lots \in [Ids -> Part]
    /\ DOMAIN taken = Ids
    /\ \A s \in Ids : \A l \in DOMAIN taken[s] : l \in Ids /\ taken[s][l] \in Part
    /\ family \in {"none", "individual_lot", "average_cost"}

(* What sale s holds of lot l. *)
TakenOf(s, l) == IF l \in DOMAIN taken[s] THEN taken[s][l] ELSE Closed

(* Nothing is made or lost, whatever was corrected: the units of every     *)
(* purchase in effect are in its lot or in the sales that took them, a     *)
(* corrected purchase holds nothing, each sale took what it sold, and the  *)
(* basis paid is the basis left plus the basis sold, to the last unit.     *)
Conserved ==
    LET buys  == EffectiveBuys(ops)
        sales == EffectiveSales(ops)
    IN  /\ \A l \in buys :
               ops[l].qty = lots[l].qty + MapThenSumSet(LAMBDA s : TakenOf(s, l).qty, sales)
        /\ Open(Current) \subseteq buys
        /\ \A s \in sales : Units(taken[s], DOMAIN taken[s]) = ops[s].qty
        /\ Basis(ops, buys) = Basis(lots, Ids)
               + MapThenSumSet(LAMBDA s : Basis(taken[s], DOMAIN taken[s]), sales)

(* A sale in effect sold only what a purchase in effect had brought in by  *)
(* its slot; and one whose lots the owner elected sold those acquisitions, *)
(* in those quantities, however often they were corrected since.           *)
SoldWhatWasHeld ==
    \A s \in EffectiveSales(ops) :
        /\ \A l \in DOMAIN taken[s] :
               l \in EffectiveBuys(ops) /\ Before(ops[l], ops[s])
        /\ ops[s].method = "specific_lot" =>
               {<<ops[l].root, taken[s][l].qty>> : l \in DOMAIN taken[s]}
                   = {<<ops[l].root, ops[s].elected[l]>> : l \in DOMAIN ops[s].elected}

(* The parts that say the projection is sound by itself. *)
PositionIsSound == TypeOK /\ Conserved /\ SoldWhatWasHeld

(* Whatever mixture of direct writes and replays led here, the projection  *)
(* is what the history in effect, in its own order, says: it can be        *)
(* replayed without a refusal, and gives the same lots and the same        *)
(* allocations.  Only the lock may be stricter than replay's: a direct     *)
(* sale keeps it while a lot opened later is open.                         *)
ProjectionIsHistory ==
    LET replayed == Replay(ops, Effective(ops))
    IN  /\ replayed.ok
        /\ replayed.lots = lots
        /\ \A s \in EffectiveSales(ops) : replayed.taken[s] = taken[s]
        /\ replayed.family \in {"none", family}

(* A command changes no sale that comes before everything it touches: the  *)
(* operation it records and the one it corrects.                           *)
HistoryBeforeStands ==
    [][LET new     == Len(ops')
           touched == {new, ops'[new].corrects} \ {NoOp}
       IN  \A s \in EffectiveSales(ops) \ touched :
               (\A t \in touched : Before(ops'[s], ops'[t])) => taken'[s] = taken[s]]_vars

============================================================================
