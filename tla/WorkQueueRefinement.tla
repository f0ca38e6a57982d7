------------------------- MODULE WorkQueueRefinement -------------------------
(***************************************************************************)
(* The queue implements ExclusiveWork.  A key is wanted while it has a     *)
(* pending row and in hand while it has a running one; its grant lapses    *)
(* when the lease does; a loop's task is the key of the row it holds.      *)
(***************************************************************************)
EXTENDS WorkQueue

NoLoop == <<NoOwner, "none">>
NoKey  == "none"

KeysThatAre(table, status) ==
    {table[i].key : i \in {i \in DOMAIN table : table[i].status = status}}

RunningRow(table, k) ==
    table[CHOOSE i \in DOMAIN table : table[i].key = k /\ table[i].status = "running"]

InHand(table) ==
    [k \in Keys |-> IF k \in KeysThatAre(table, "running")
                    THEN <<RunningRow(table, k).owner, KindOf[k]>> ELSE NoLoop]

Granted(table, at) ==
    {k \in KeysThatAre(table, "running") : at < RunningRow(table, k).leaseExpiresAt}

Task == [l \in Loops |-> IF hold[l].item = 0 THEN NoKey ELSE items[hold[l].item].key]

Promise ==
    INSTANCE ExclusiveWork WITH Work <- Keys, Workers <- Loops,
                                Nobody <- NoLoop, Nothing <- NoKey,
                                wanted <- KeysThatAre(items, "pending"),
                                inHand <- InHand(items),
                                granted <- Granted(items, now), task <- Task

(* The queue keeps its promise: whatever workers, leases, retries, requeues, *)
(* hand-overs and crashes do, each transaction of background_work.go is one  *)
(* step of ExclusiveWork or none.  In particular a late settlement ends and  *)
(* hands over nothing, work in hand is taken over only once its lease has    *)
(* run out, and every settlement is one change of the whole hand-over.       *)
QueueKeepsPromise == Promise!Spec

=============================================================================
