--------------------------- MODULE VendingService ---------------------------
(***************************************************************************)
(* What the vending machine of src/examples/vending-machine/main.go does   *)
(* for its customer (the comments of its states): it takes coins, serves   *)
(* an item for enough of them, and after a sale, a cancellation or a time  *)
(* of inactivity starts anew.  No states, events or timers.                *)
(***************************************************************************)
EXTENDS Naturals

CONSTANT Timeout            \* how long the machine waits for the customer

VARIABLES
    phase,                  \* "open" for the customer, pouring an item, or on the
                            \* way back to no coins
    coins,
    clock,
    lastCoin                \* when the last coin was inserted

vars == <<phase, coins, clock, lastCoin>>

Items == {"water", "coffee"}

Price(item) == IF item = "coffee" THEN 2 ELSE 1

Init ==
    /\ phase = "closing"
    /\ coins = 0
    /\ clock = 0
    /\ lastCoin = 0

Insert ==
    /\ phase = "open"
    /\ coins' = coins + 1
    /\ lastCoin' = clock
    /\ UNCHANGED <<phase, clock>>

Press(item) ==
    /\ phase = "open"
    /\ coins >= Price(item)
    /\ phase' = item
    /\ UNCHANGED <<coins, clock, lastCoin>>

Poured ==
    /\ phase \in Items
    /\ phase' = "closing"
    /\ UNCHANGED <<coins, clock, lastCoin>>

Cancel ==
    /\ phase = "open" /\ coins > 0
    /\ phase' = "closing"
    /\ UNCHANGED <<coins, clock, lastCoin>>

(* Not earlier and not later, however many coins there are. *)
Expire ==
    /\ phase = "open" /\ coins > 0
    /\ clock = lastCoin + Timeout
    /\ phase' = "expired"
    /\ UNCHANGED <<coins, clock, lastCoin>>

Reset ==
    /\ phase \in {"closing", "expired"}
    /\ phase' = "open"
    /\ coins' = 0
    /\ UNCHANGED <<clock, lastCoin>>

PassTo(time) ==
    /\ phase = "open"
    /\ time > clock
    /\ coins > 0 => time <= lastCoin + Timeout
    /\ clock' = time
    /\ UNCHANGED <<phase, coins, lastCoin>>

Next ==
    \/ Insert \/ Poured \/ Cancel \/ Expire \/ Reset
    \/ \E item \in Items : Press(item)
    \/ PassTo(clock')

Spec == Init /\ [][Next]_vars
=============================================================================
