-------------------------- MODULE AuctionContract --------------------------
(***************************************************************************)
(* What an auction promises, with no transactions, calls or timers: terms  *)
(* that stand once bidding is open, an ascending ledger that one bid at a  *)
(* time is added to, a deadline that only moves in earned extensions, and  *)
(* one final outcome.                                                      *)
(***************************************************************************)
EXTENDS Naturals, Sequences

CONSTANTS Auctions, Users, SellerOf, Null, EXTENSION, MAX_EXTENSIONS

VARIABLES
  phase,      \* "private", "announced", "open", "sold", "unsold", "withdrawn"
  terms,      \* starting price, increment and reserve
  ledger,     \* the bids, oldest first: who and how much
  deadline,   \* when bidding ends, Null while undecided
  granted,    \* extensions granted
  winner      \* position of the winning bid, 0 when there is none

contractVars == <<phase, terms, ledger, deadline, granted, winner>>

-----------------------------------------------------------------------------
Lowest(a) ==
  IF ledger[a] = <<>> THEN terms[a].startingPrice
  ELSE ledger[a][Len(ledger[a])].amount + terms[a].minBidIncrement

ReserveMet(a, n) ==
  terms[a].reservePrice # Null => ledger[a][n].amount >= terms[a].reservePrice

\* Only auction a changes, and of it only what the action names.
Moves(a, to) == phase' = [phase EXCEPT ![a] = to]

Init ==
  /\ phase = [a \in Auctions |-> "private"]
  /\ ledger = [a \in Auctions |-> <<>>]
  /\ granted = [a \in Auctions |-> 0]
  /\ winner = [a \in Auctions |-> 0]

\* Before bidding opens the seller may rewrite terms and schedule.
Prepare(a) ==
  /\ phase[a] \in {"private", "announced"}
  /\ \A b \in Auctions \ {a} : terms'[b] = terms[b] /\ deadline'[b] = deadline[b]
  /\ UNCHANGED <<phase, ledger, granted, winner>>

Publish(a) ==
  /\ phase[a] = "private"
  /\ Moves(a, "announced")
  /\ UNCHANGED <<terms, ledger, deadline, granted, winner>>

Open(a) ==
  /\ phase[a] \in {"private", "announced"}
  /\ Moves(a, "open")
  /\ UNCHANGED <<terms, ledger, deadline, granted, winner>>

\* One bid, by somebody who is not the seller, at or above the minimum; it
\* may push the deadline out by exactly one extension.
Bid(a) ==
  /\ phase[a] = "open"
  /\ deadline[a] # Null
  /\ Len(ledger'[a]) = Len(ledger[a]) + 1
  /\ LET bid == ledger'[a][Len(ledger[a]) + 1]
     IN  /\ ledger' = [ledger EXCEPT ![a] = Append(@, bid)]
         /\ bid.bidderId \in Users \ {SellerOf[a]}
         /\ bid.amount >= Lowest(a)
  /\ \/ UNCHANGED <<deadline, granted>>
     \/ /\ granted[a] < MAX_EXTENSIONS
        /\ granted' = [granted EXCEPT ![a] = @ + 1]
        /\ deadline' = [deadline EXCEPT ![a] = @ + EXTENSION]
  /\ UNCHANGED <<phase, terms, winner>>

\* Sold to a recorded bid that meets the reserve, or not sold.
Close(a) ==
  /\ phase[a] = "open"
  /\ \/ Moves(a, "unsold") /\ UNCHANGED winner
     \/ \E n \in DOMAIN ledger[a] :
          /\ ReserveMet(a, n)
          /\ Moves(a, "sold")
          /\ winner' = [winner EXCEPT ![a] = n]
  /\ UNCHANGED <<terms, ledger, deadline, granted>>

Withdraw(a) ==
  /\ phase[a] \in {"private", "announced", "open"}
  /\ Moves(a, "withdrawn")
  /\ UNCHANGED <<terms, ledger, deadline, granted, winner>>

Next ==
  \E a \in Auctions :
    Prepare(a) \/ Publish(a) \/ Open(a) \/ Bid(a) \/ Close(a) \/ Withdraw(a)

Spec == Init /\ [][Next]_contractVars
=============================================================================
