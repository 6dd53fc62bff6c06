----------------------------- MODULE ShopProofs -----------------------------
(***************************************************************************)
(* Proofs about Shop and ShopFront, for every set of listings, users,      *)
(* sessions, lots, tabs and calls.                                         *)
(*                                                                         *)
(* ShopInv is the inductive invariant.  The properties that add things up  *)
(* (StockConserved, OrdersMatchCharge) rest on a small theory of sums over *)
(* finite sets: a sum looks only at its members, loses what a member       *)
(* counts when the member goes, splits over sets apart and over parts.     *)
(* Each is shown on the number of members, by way of EveryNumber.          *)
(***************************************************************************)
EXTENDS ShopFront, TLAPS, FiniteSetTheorems, SequenceTheorems, WellFoundedInduction

-----------------------------------------------------------------------------
(***************************************************************************)
(* The inductive invariant                                                 *)
(***************************************************************************)
ShelfCall == [pc : {"idle", "count", "write", "done"}, op : ShelfOp \cup {Null},
              productId : Products \cup {Null}, edit : Edits \cup {Null},
              existing : Product \cup {Null}, referenced : BOOLEAN]

\* A catalogue call under way has read a listing, which stays listed.
ShelfOK(k) ==
  /\ shelf[k] \in ShelfCall
  /\ shelf[k].pc \in {"count", "write"} =>
       /\ shelf[k].op \in ShelfOp \ {"create"}
       /\ shelf[k].productId \in Products /\ shelf[k].existing \in Product
       /\ shelf[k].op \in {"update", "updateStock"} => shelf[k].edit \in Edits
       /\ shelf[k].op = "updateStock" => shelf[k].edit.stockQty # Null
       /\ product[shelf[k].productId].status # "NONE"

Goods ==
  /\ product \in [Products -> Product]
  /\ \A p \in Products : product[p].status = "NONE" => product[p].stockQty = 0
  /\ adminActions \in [Products -> Seq({"DEACTIVATE_PRODUCT", "REACTIVATE_PRODUCT"})]
  /\ provided \in [Products -> Int]
  /\ shelf \in [ShelfCalls -> ShelfCall]
  /\ \A k \in ShelfCalls : ShelfOK(k)

CartCall == [pc : {"idle", "write", "done"},
             op : {"addItem", "updateItem", "removeItem", "clear", Null},
             userId : Buyers \cup {Null}, productId : Products \cup {Null},
             line : 0 .. MaxLines, quantity : Nat]

Baskets ==
  /\ cart \in [Buyers -> [Products -> CartLine]]
  /\ \A b \in Buyers, p \in Products : cart[b][p].id <= MaxLines
  /\ lastLine \in 0 .. MaxLines
  /\ cartCalls \in [CartCalls -> CartCall]
  /\ \A k \in CartCalls :
       cartCalls[k].pc = "write" => cartCalls[k].userId \in Buyers /\ cartCalls[k].productId \in Products

OfferCall == [pc : {"idle", "offers", "insert", "done"}, buyerId : Buyers \cup {Null},
              productId : Products \cup {Null}, bid : Bids \cup {Null},
              row : Product \cup {Null}, offer : Offer \cup {Null}]

\* An offer accepted below the price has its counter.
Backed(x) ==
  x.decision = "ACCEPTED" /\ x.offerAmount < x.asked => \E m \in DOMAIN offers : Countered(x, offers[m])

\* What a call has read, and what it is about to insert.
OfferCallOK(c) ==
  /\ c.pc = "offers" => /\ c.buyerId \in Buyers /\ c.productId \in Products /\ c.bid \in Bids
                        /\ c.row \in Product /\ c.row.negotiationFloor # Null
  /\ c.pc = "insert" => c.offer \in Offer /\ Backed(c.offer)

Bargains ==
  /\ now \in Nat
  /\ offers \in Seq(Offer)
  /\ offerCalls \in [OfferCalls -> OfferCall]
  /\ \A k \in OfferCalls : OfferCallOK(offerCalls[k])
  /\ DiscountsWereOffered

CheckoutRow == [pc : {"idle", "offer", "priced", "charged", "announce", "done", "dead"},
                buyerId : Buyers \cup {Null}, offer : Nat, lines : SUBSET PricedLine,
                ids : SUBSET Nat, code : Codes \cup {Null}, sessionId : BOOLEAN]

\* What a buyer b may have priced: listings at one line each, or one lot b won.
LinesOK(b, lines) ==
  /\ IsFiniteSet(lines)
  /\ \A l \in lines :
       /\ l.subtotal = l.unitPrice * l.quantity
       /\ l.productId # Null => /\ l.auctionId = Null
                                /\ \A m \in lines : m.productId = l.productId => m = l
       /\ l.productId = Null => /\ l.auctionId \in Lots /\ lines = {LotLine(l.auctionId)}
                                /\ Lot[l.auctionId].winnerUserId = b

\* An offer that was spent stays spent, and prices the only line of its session.
SpentOK(c) ==
  c.offer # 0 => /\ c.offer \in DOMAIN offers
                 /\ offers[c.offer].expiresAt = 0
                 /\ c.lines # {} => c.lines = {OfferLine(c.offer)}
                                    /\ c.buyerId = offers[c.offer].buyerId

CheckoutOK(c) ==
  /\ c \in CheckoutRow
  /\ c.pc \in {"idle", "offer"} => c.lines = {}
  /\ c.pc = "idle" => c.offer = 0
  /\ c.pc # "idle" => c.buyerId \in Buyers
  /\ c.pc = "offer" => c.offer # 0
  /\ LinesOK(c.buyerId, c.lines)
  /\ SpentOK(c)

Sales ==
  /\ checkouts \in [Sessions -> CheckoutRow]
  /\ faults \in 0 .. MaxFaults
  /\ \A k \in Sessions : CheckoutOK(checkouts[k])
  /\ \A j, k \in Sessions : checkouts[j].offer = checkouts[k].offer /\ checkouts[k].offer # 0 => j = k

ItemOf(l) == [productId |-> l.productId, auctionId |-> l.auctionId,
              quantity |-> l.quantity, unitPrice |-> l.unitPrice]
Share(lines, seller) == {l \in lines : l.sellerId = seller}
ItemsOf(lines) == {ItemOf(l) : l \in lines}
Taking(lines) == [status |-> "SUCCEEDED", amount |-> Total(lines)]

\* An order is its seller's share of what its session priced and paid.
Grounded(o) ==
  LET c == checkouts[o[1]]
      share == Share(c.lines, o[2])
  IN  /\ c.pc \in {"announce", "done", "dead"}
      /\ orders[o].buyerId = c.buyerId
      /\ share # {}
      /\ orders[o].items = ItemsOf(share)
      /\ orders[o].subtotal = Total(share)
      /\ payments[o[1]] = Taking(c.lines)
      /\ \A l \in c.lines : <<o[1], l.sellerId>> \in OrderIds

Walked(o) ==
  LET walk == orders[o].events
  IN  /\ Len(walk) > 0
      /\ walk[1] = "PROCESSING"
      /\ walk[Len(walk)] = orders[o].shipment
      /\ \A i \in 1 .. Len(walk) - 1 : canTransition(walk[i], walk[i + 1])
      /\ \A i \in 2 .. Len(walk) :
           Note("SHIPMENT_UPDATE", orders[o].buyerId, o, walk[i]) \in notifications
      /\ (orders[o].status = "CANCELLED") <=> (orders[o].shipment = "CANCELLED")
      /\ orders[o].tracking <=> orders[o].shipment \in {"SHIPPED", "IN_TRANSIT", "DELIVERED"}

Ledger ==
  /\ orders \in [Sessions \X Users -> Order \cup {Null}]
  /\ payments \in [Sessions -> Charge \cup {Null}]
  /\ \A k \in Sessions : checkouts[k].pc = "charged" => payments[k] = Taking(checkouts[k].lines)
  /\ \A o \in OrderIds : Grounded(o)
  /\ \A o \in OrderIds : Walked(o)

\* Two orders that hold one lot are of one session.
LotsApart ==
  \A o, q \in OrderIds :
    \A l \in checkouts[o[1]].lines, m \in checkouts[q[1]].lines :
      l.auctionId = m.auctionId /\ l.auctionId # Null => o[1] = q[1]

\* What orders hold is listed, and with the shelf adds up to what was provided.
Listed ==
  \A o \in OrderIds : \A i \in orders[o].items :
    i.productId # Null => product[i.productId].status # "NONE"
Conserved ==
  \A p \in Products : product[p].stockQty + Held(p) = provided[p]

ParcelCall == [pc : {"idle", "write", "announce", "done"},
               order : (Sessions \X Users) \cup {Null},
               next : ShipmentStatus \cup {Null}, seen : ShipmentStatus \cup {Null}]

Errands ==
  /\ parcelCalls \in [ParcelCalls -> ParcelCall]
  /\ \A k \in ParcelCalls :
       /\ parcelCalls[k].pc \in {"write", "announce"} =>
            parcelCalls[k].order \in OrderIds /\ parcelCalls[k].next \in ShipmentStatus
       /\ parcelCalls[k].pc = "write" =>
            parcelCalls[k].seen \in ShipmentStatus /\ canTransition(parcelCalls[k].seen, parcelCalls[k].next)

Told == notifications \subseteq Message /\ announced \subseteq Message

ShopInv == Goods /\ Baskets /\ Bargains /\ Sales /\ Ledger /\ LotsApart /\ Listed /\ Conserved
           /\ Errands /\ Told

-----------------------------------------------------------------------------
(***************************************************************************)
(* Sums                                                                    *)
(***************************************************************************)

\* A set of numbers that has zero and every successor has them all.
LEMMA EveryNumber ==
  ASSUME NEW T, 0 \in T, \A n \in Nat : n \in T => n + 1 \in T
  PROVE  Nat \subseteq T
<1> DEFINE B == Nat \ T
           R == OpToRel(<, Nat)
<1> SUFFICES ASSUME B # {} PROVE FALSE
  OBVIOUS
<1>1. PICK m \in B : \A y \in B : ~(<<y, m>> \in R)
  <2>1. IsWellFoundedOn(R, Nat)
    BY NatLessThanWellFounded
  <2>2. B \subseteq Nat
    OBVIOUS
  <2> HIDE DEF R, B
  <2> QED BY <2>1, <2>2, WFMin
<1>2. m # 0 /\ m - 1 \in Nat /\ m - 1 \notin T
  OBVIOUS
<1>3. <<m - 1, m>> \in R
  BY <1>2 DEF OpToRel
<1> QED BY <1>1, <1>2, <1>3

Pick(s) == CHOOSE x \in s : TRUE

\* g adds up F over every part of S.
Adds(F, S, g) ==
  g = [s \in SUBSET S |-> IF s = {} THEN 0 ELSE F[Pick(s)] + g[s \ {Pick(s)}]]

\* SumFunctionOnSet is what some g that adds up F over S says of S itself.
LEMMA SumIsAdding ==
  ASSUME NEW F, NEW S
  PROVE  SumFunctionOnSet(F, S) = (CHOOSE g : Adds(F, S, g))[S]
BY DEF SumFunctionOnSet, FoldFunctionOnSet, MapThenFoldSet, Adds, Pick

\* What Pick picks is a member.
LEMMA PickIsIn ==
  ASSUME NEW S, S # {}
  PROVE  Pick(S) \in S
BY DEF Pick

\* Finite sets with one member fewer.
LEMMA OneFewer ==
  ASSUME NEW S, IsFiniteSet(S), NEW x \in S
  PROVE  /\ IsFiniteSet(S \ {x})
         /\ Cardinality(S) \in Nat /\ Cardinality(S) # 0
         /\ Cardinality(S \ {x}) = Cardinality(S) - 1
BY FS_RemoveElement, FS_CardinalityType, FS_EmptySet

\* There is such a g for every finite set.
LEMMA AddingExists ==
  ASSUME NEW F, NEW S, IsFiniteSet(S)
  PROVE  \E g : Adds(F, S, g)
<1> DEFINE D(n) == {s \in SUBSET S : Cardinality(s) <= n}
           Lvl(n, g) == g = [s \in D(n) |-> IF s = {} THEN 0
                                            ELSE F[Pick(s)] + g[s \ {Pick(s)}]]
           T == {n \in Nat : \E g : Lvl(n, g)}
<1>0. \A s \in SUBSET S : IsFiniteSet(s) /\ Cardinality(s) \in Nat
  BY FS_Subset, FS_CardinalityType
<1>1. 0 \in T
  <2> DEFINE z == [s \in D(0) |-> 0]
  <2>1. \A s \in D(0) : s = {}
    BY <1>0, FS_EmptySet
  <2>2. Lvl(0, z)
    BY <2>1
  <2> HIDE DEF Lvl
  <2> QED BY <2>2
<1>2. ASSUME NEW n \in Nat, n \in T PROVE n + 1 \in T
  <2>1. PICK g : Lvl(n, g)
    BY <1>2
  <2> DEFINE h == [s \in D(n + 1) |-> IF s = {} THEN 0 ELSE F[Pick(s)] + g[s \ {Pick(s)}]]
  <2>2. \A s \in D(n + 1) : s # {} => s \ {Pick(s)} \in D(n)
    BY <1>0, PickIsIn, OneFewer
  <2>3. \A s \in D(n) : s \in D(n + 1) /\ h[s] = g[s]
    <3>1. D(n) \subseteq D(n + 1)
      BY <1>0
    <3> HIDE DEF D
    <3> QED BY <2>1, <3>1
  <2>4. Lvl(n + 1, h)
    <3> HIDE DEF D
    <3>1. \A s \in D(n + 1) : s # {} => h[s \ {Pick(s)}] = g[s \ {Pick(s)}]
      BY <2>2, <2>3
    <3> QED BY <3>1
  <2> HIDE DEF Lvl, h
  <2> QED BY <2>4
<1>3. Cardinality(S) \in T
  <2> HIDE DEF T
  <2> QED BY <1>0, <1>1, <1>2, EveryNumber
<1>4. PICK g : Lvl(Cardinality(S), g)
  BY <1>3
<1>5. D(Cardinality(S)) = SUBSET S
  BY <1>0, FS_Subset
<1> QED BY <1>4, <1>5 DEF Adds

\* Two such functions agree on the sets of which the things added agree.
LEMMA AddingAgrees ==
  ASSUME NEW F, NEW G, NEW S, NEW R, NEW f, NEW g, Adds(F, S, f), Adds(G, R, g),
         NEW U, IsFiniteSet(U), U \subseteq S, U \subseteq R, \A x \in U : F[x] = G[x]
  PROVE  f[U] = g[U]
<1> DEFINE T == {n \in Nat : \A s \in SUBSET U : Cardinality(s) = n => f[s] = g[s]}
<1>0. \A s \in SUBSET U : IsFiniteSet(s) /\ Cardinality(s) \in Nat
  BY FS_Subset, FS_CardinalityType
<1>1. 0 \in T
  <2>1. \A s \in SUBSET U : Cardinality(s) = 0 => s = {}
    BY <1>0, FS_EmptySet
  <2>2. f[{}] = 0 /\ g[{}] = 0
    BY DEF Adds
  <2> QED BY <2>1, <2>2
<1>2. ASSUME NEW n \in Nat, n \in T PROVE n + 1 \in T
  <2> SUFFICES ASSUME NEW s \in SUBSET U, Cardinality(s) = n + 1 PROVE f[s] = g[s]
    OBVIOUS
  <2>1. s # {}
    BY FS_EmptySet
  <2>2. Pick(s) \in s
    BY <2>1, PickIsIn
  <2>3. s \ {Pick(s)} \in SUBSET U /\ Cardinality(s \ {Pick(s)}) = n
    BY <1>0, <2>2, OneFewer
  <2>4. f[s \ {Pick(s)}] = g[s \ {Pick(s)}]
    BY <1>2, <2>3
  <2>5. f[s] = F[Pick(s)] + f[s \ {Pick(s)}] /\ g[s] = G[Pick(s)] + g[s \ {Pick(s)}]
    BY <2>1 DEF Adds
  <2> QED BY <2>2, <2>4, <2>5
<1>3. Cardinality(U) \in T
  <2> HIDE DEF T
  <2> QED BY <1>0, <1>1, <1>2, EveryNumber
<1> QED BY <1>3

\* A sum over the empty set is zero; a sum over any other takes one thing out.
LEMMA SumUnfolds ==
  ASSUME NEW F, NEW S, IsFiniteSet(S)
  PROVE  SumFunctionOnSet(F, S) = IF S = {} THEN 0
            ELSE F[Pick(S)] + SumFunctionOnSet(F, S \ {Pick(S)})
<1>1. PICK f : f = (CHOOSE g : Adds(F, S, g))
  OBVIOUS
<1>2. Adds(F, S, f) /\ SumFunctionOnSet(F, S) = f[S]
  BY <1>1, AddingExists, SumIsAdding
<1> SUFFICES ASSUME S # {} PROVE f[S \ {Pick(S)}] = SumFunctionOnSet(F, S \ {Pick(S)})
  BY <1>2 DEF Adds
<1> DEFINE U == S \ {Pick(S)}
<1>3. IsFiniteSet(U)
  BY FS_Subset
<1>4. PICK h : h = (CHOOSE g : Adds(F, U, g))
  OBVIOUS
<1>5. Adds(F, U, h) /\ SumFunctionOnSet(F, U) = h[U]
  BY <1>3, <1>4, AddingExists, SumIsAdding
<1> QED BY <1>2, <1>3, <1>5, AddingAgrees

\* A sum looks only at the members of its set.
LEMMA SumAgrees ==
  ASSUME NEW F, NEW G, NEW S, IsFiniteSet(S), \A x \in S : F[x] = G[x]
  PROVE  SumFunctionOnSet(F, S) = SumFunctionOnSet(G, S)
<1>1. PICK f : f = (CHOOSE g : Adds(F, S, g))
  OBVIOUS
<1>2. PICK h : h = (CHOOSE g : Adds(G, S, g))
  OBVIOUS
<1>3. Adds(F, S, f) /\ SumFunctionOnSet(F, S) = f[S]
  BY <1>1, AddingExists, SumIsAdding
<1>4. Adds(G, S, h) /\ SumFunctionOnSet(G, S) = h[S]
  BY <1>2, AddingExists, SumIsAdding
<1> QED BY <1>3, <1>4, AddingAgrees

\* A sum of integers is one, of naturals too, and of zeros zero.
LEMMA SumType ==
  ASSUME NEW F, NEW S, IsFiniteSet(S)
  PROVE  /\ (\A x \in S : F[x] \in Int) => SumFunctionOnSet(F, S) \in Int
         /\ (\A x \in S : F[x] \in Nat) => SumFunctionOnSet(F, S) \in Nat
         /\ (\A x \in S : F[x] = 0) => SumFunctionOnSet(F, S) = 0
<1> DEFINE Fine(s) ==
             /\ (\A x \in S : F[x] \in Int) => SumFunctionOnSet(F, s) \in Int
             /\ (\A x \in S : F[x] \in Nat) => SumFunctionOnSet(F, s) \in Nat
             /\ (\A x \in S : F[x] = 0) => SumFunctionOnSet(F, s) = 0
           T == {n \in Nat : \A s \in SUBSET S : Cardinality(s) = n => Fine(s)}
<1>0. \A s \in SUBSET S : IsFiniteSet(s) /\ Cardinality(s) \in Nat
  BY FS_Subset, FS_CardinalityType
<1>1. 0 \in T
  <2>1. \A s \in SUBSET S : Cardinality(s) = 0 => s = {}
    BY <1>0, FS_EmptySet
  <2>2. SumFunctionOnSet(F, {}) = 0
    BY SumUnfolds, FS_EmptySet
  <2> QED BY <2>1, <2>2
<1>2. ASSUME NEW n \in Nat, n \in T PROVE n + 1 \in T
  <2> SUFFICES ASSUME NEW s \in SUBSET S, Cardinality(s) = n + 1 PROVE Fine(s)
    OBVIOUS
  <2>1. s # {}
    BY FS_EmptySet
  <2>2. Pick(s) \in s
    BY <2>1, PickIsIn
  <2>3. s \ {Pick(s)} \in SUBSET S /\ Cardinality(s \ {Pick(s)}) = n
    BY <1>0, <2>2, OneFewer
  <2>4. Fine(s \ {Pick(s)})
    BY <1>2, <2>3
  <2>5. SumFunctionOnSet(F, s) = F[Pick(s)] + SumFunctionOnSet(F, s \ {Pick(s)})
    BY <2>1, <1>0, SumUnfolds
  <2> QED BY <2>2, <2>4, <2>5
<1>3. Cardinality(S) \in T
  <2> HIDE DEF T
  <2> QED BY <1>0, <1>1, <1>2, EveryNumber
<1> QED BY <1>3

\* Any member can be taken out of a sum.
LEMMA SumTakes ==
  ASSUME NEW F, NEW S, IsFiniteSet(S), \A x \in S : F[x] \in Int, NEW x \in S
  PROVE  SumFunctionOnSet(F, S) = F[x] + SumFunctionOnSet(F, S \ {x})
<1> DEFINE Sm(s) == SumFunctionOnSet(F, s)
           T == {n \in Nat : \A s \in SUBSET S : Cardinality(s) = n =>
                               \A y \in s : Sm(s) = F[y] + Sm(s \ {y})}
<1>0. \A s \in SUBSET S : IsFiniteSet(s) /\ Cardinality(s) \in Nat
  BY FS_Subset, FS_CardinalityType
<1>1. 0 \in T
  <2>1. \A s \in SUBSET S : Cardinality(s) = 0 => s = {}
    BY <1>0, FS_EmptySet
  <2> QED BY <2>1
<1>2. ASSUME NEW n \in Nat, n \in T PROVE n + 1 \in T
  <2> SUFFICES ASSUME NEW s \in SUBSET S, Cardinality(s) = n + 1, NEW y \in s
               PROVE  Sm(s) = F[y] + Sm(s \ {y})
    OBVIOUS
  <2>1. Pick(s) \in s
    BY PickIsIn
  <2>2. PICK z \in s : z = Pick(s)
    BY <2>1
  <2>3. Sm(s) = F[z] + Sm(s \ {z})
    BY <2>2, <1>0, SumUnfolds
  <2>4. CASE y = z
    BY <2>3, <2>4
  <2>5. CASE y # z
    <3>1. /\ s \ {z} \in SUBSET S /\ Cardinality(s \ {z}) = n /\ y \in s \ {z}
          /\ s \ {y} \in SUBSET S /\ Cardinality(s \ {y}) = n /\ z \in s \ {y}
      BY <1>0, <2>5, OneFewer
    <3>2. Sm(s \ {z}) = F[y] + Sm((s \ {z}) \ {y})
      BY <1>2, <3>1
    <3>3. Sm(s \ {y}) = F[z] + Sm((s \ {y}) \ {z})
      BY <1>2, <3>1
    <3>4. (s \ {z}) \ {y} = (s \ {y}) \ {z}
      OBVIOUS
    <3>5. Sm((s \ {y}) \ {z}) \in Int
      <4>1. (s \ {y}) \ {z} \in SUBSET S
        OBVIOUS
      <4> QED BY <4>1, <1>0, SumType
    <3>6. F[y] \in Int /\ F[z] \in Int
      OBVIOUS
    <3>7. PICK c \in Int : c = Sm((s \ {y}) \ {z})
      BY <3>5
    <3>8. Sm(s \ {z}) = F[y] + c /\ Sm(s \ {y}) = F[z] + c
      BY <3>2, <3>3, <3>4, <3>7
    <3> HIDE DEF Sm
    <3> QED BY <2>3, <3>6, <3>8
  <2> QED BY <2>4, <2>5
<1>3. Cardinality(S) \in T
  <2> HIDE DEF T
  <2> QED BY <1>0, <1>1, <1>2, EveryNumber
<1> QED BY <1>3

\* A sum over two sets apart is the two sums.
LEMMA SumJoins ==
  ASSUME NEW F, NEW S, NEW U, IsFiniteSet(S), IsFiniteSet(U), S \cap U = {},
         \A x \in S \cup U : F[x] \in Int
  PROVE  SumFunctionOnSet(F, S \cup U) = SumFunctionOnSet(F, S) + SumFunctionOnSet(F, U)
<1> DEFINE Sm(s) == SumFunctionOnSet(F, s)
           T == {n \in Nat : \A s \in SUBSET U : Cardinality(s) = n =>
                               Sm(S \cup s) = Sm(S) + Sm(s)}
<1>0. \A s \in SUBSET U : /\ IsFiniteSet(s) /\ Cardinality(s) \in Nat /\ IsFiniteSet(S \cup s)
                          /\ Sm(s) \in Int /\ Sm(S \cup s) \in Int
  <2> TAKE s \in SUBSET U
  <2>1. IsFiniteSet(s) /\ Cardinality(s) \in Nat /\ IsFiniteSet(S \cup s)
    BY FS_Subset, FS_CardinalityType, FS_Union
  <2> QED BY <2>1, SumType
<1>1. 0 \in T
  <2>1. \A s \in SUBSET U : Cardinality(s) = 0 => s = {}
    BY <1>0, FS_EmptySet
  <2>2. Sm({}) = 0 /\ S \cup {} = S
    BY SumUnfolds, FS_EmptySet
  <2>3. Sm(S) \in Int
    BY <1>0, <2>2
  <2> HIDE DEF Sm
  <2> QED BY <2>1, <2>2, <2>3
<1>2. ASSUME NEW n \in Nat, n \in T PROVE n + 1 \in T
  <2> SUFFICES ASSUME NEW s \in SUBSET U, Cardinality(s) = n + 1
               PROVE  Sm(S \cup s) = Sm(S) + Sm(s)
    OBVIOUS
  <2>0. s # {} /\ IsFiniteSet(s)
    <3>1. s # {}
      BY FS_EmptySet
    <3>2. IsFiniteSet(s)
      BY <1>0
    <3> QED BY <3>1, <3>2
  <2>1. PICK y \in s : TRUE
    BY <2>0
  <2>2. s \ {y} \in SUBSET U /\ Cardinality(s \ {y}) = n
    BY <2>0, <2>1, OneFewer
  <2>3. Sm(S \cup (s \ {y})) = Sm(S) + Sm(s \ {y})
    BY <1>2, <2>2
  <2>4. Sm(s) = F[y] + Sm(s \ {y})
    BY <2>0, <2>1, SumTakes
  <2>5. Sm(S \cup s) = F[y] + Sm((S \cup s) \ {y})
    <3>1. PICK V : V = S \cup s
      OBVIOUS
    <3>2. y \in V /\ (\A x \in V : F[x] \in Int) /\ IsFiniteSet(V)
      BY <1>0, <2>1, <3>1
    <3>3. SumFunctionOnSet(F, V) = F[y] + SumFunctionOnSet(F, V \ {y})
      BY <3>2, SumTakes
    <3> QED BY <3>1, <3>3
  <2>6. (S \cup s) \ {y} = S \cup (s \ {y})
    OBVIOUS
  <2>7. F[y] \in Int /\ Sm(s \ {y}) \in Int /\ Sm(S) \in Int
    BY <1>0, <2>2, SumType
  <2> HIDE DEF Sm
  <2>8. Sm(S \cup s) = F[y] + (Sm(S) + Sm(s \ {y}))
    BY <2>3, <2>5, <2>6
  <2> QED BY <2>4, <2>7, <2>8
<1>3. Cardinality(U) \in T
  <2> HIDE DEF T
  <2> QED BY <1>0, <1>1, <1>2, EveryNumber
<1> QED BY <1>3

\* H sorts S into parts, one for each u, and G[u] is what F adds up to there.
Sorts(H, S, U, F, G) ==
  /\ \A x \in S : H[x] \in U
  /\ \A u \in U : G[u] = SumFunctionOnSet(F, {x \in S : H[x] = u})

\* A sum over parts: adding up class by class is adding up.
LEMMA SumParts ==
  ASSUME NEW F, NEW S, IsFiniteSet(S), \A x \in S : F[x] \in Int,
         NEW U, IsFiniteSet(U), NEW H, NEW G, Sorts(H, S, U, F, G)
  PROVE  SumFunctionOnSet(F, S) = SumFunctionOnSet(G, U)
<1> USE DEF Sorts
<1> DEFINE Of(s) == {x \in S : H[x] \in s}
           T == {n \in Nat : \A s \in SUBSET U : Cardinality(s) = n =>
                     SumFunctionOnSet(F, Of(s)) = SumFunctionOnSet(G, s)}
<1>0. \A s \in SUBSET U : /\ IsFiniteSet(s) /\ Cardinality(s) \in Nat /\ IsFiniteSet(Of(s))
  BY FS_Subset, FS_CardinalityType
<1>1. 0 \in T
  <2>1. \A s \in SUBSET U : Cardinality(s) = 0 => s = {}
    BY <1>0, FS_EmptySet
  <2>2. SumFunctionOnSet(F, {}) = 0 /\ SumFunctionOnSet(G, {}) = 0 /\ Of({}) = {}
    BY SumUnfolds, FS_EmptySet
  <2> HIDE DEF Of
  <2> QED BY <2>1, <2>2
<1>4. \A u \in U : /\ IsFiniteSet({x \in S : H[x] = u}) /\ G[u] \in Int
  <2> TAKE u \in U
  <2>1. IsFiniteSet({x \in S : H[x] = u})
    BY FS_Subset
  <2> QED BY <2>1, SumType
<1>2. ASSUME NEW n \in Nat, n \in T PROVE n + 1 \in T
  <2> SUFFICES ASSUME NEW s \in SUBSET U, Cardinality(s) = n + 1
               PROVE  SumFunctionOnSet(F, Of(s)) = SumFunctionOnSet(G, s)
    OBVIOUS
  <2>0. s # {} /\ IsFiniteSet(s)
    <3>1. s # {}
      BY FS_EmptySet
    <3>2. IsFiniteSet(s)
      BY <1>0
    <3> QED BY <3>1, <3>2
  <2>1. PICK y \in s : TRUE
    BY <2>0
  <2>2. s \ {y} \in SUBSET U /\ Cardinality(s \ {y}) = n
    <3>1. Cardinality(s) = n + 1 /\ s \in SUBSET U
      OBVIOUS
    <3> HIDE DEF T, Of
    <3> QED BY <2>0, <2>1, <3>1, OneFewer
  <2>3. SumFunctionOnSet(F, Of(s \ {y})) = SumFunctionOnSet(G, s \ {y})
    BY <1>2, <2>2
  <2>4. SumFunctionOnSet(G, s) = G[y] + SumFunctionOnSet(G, s \ {y})
    <3>1. \A x \in s : G[x] \in Int
      BY <1>4
    <3> HIDE DEF T, Of
    <3> QED BY <2>0, <2>1, <3>1, SumTakes
  <2>5. /\ Of(s) = Of(s \ {y}) \cup {x \in S : H[x] = y}
        /\ Of(s \ {y}) \cap {x \in S : H[x] = y} = {}
    OBVIOUS
  <2>6. SumFunctionOnSet(F, Of(s)) = SumFunctionOnSet(F, Of(s \ {y}))
                                      + SumFunctionOnSet(F, {x \in S : H[x] = y})
    <3>1. IsFiniteSet(Of(s \ {y})) /\ IsFiniteSet({x \in S : H[x] = y})
      BY <1>0, <1>4, <2>1, <2>2
    <3>2. \A x \in Of(s \ {y}) \cup {z \in S : H[z] = y} : F[x] \in Int
      OBVIOUS
    <3> HIDE DEF Of
    <3> QED BY <2>5, <3>1, <3>2, SumJoins
  <2>7. SumFunctionOnSet(G, s \ {y}) \in Int
    BY <1>0, <1>4, <2>2, SumType
  <2> HIDE DEF Of
  <2>8. G[y] \in Int /\ G[y] = SumFunctionOnSet(F, {x \in S : H[x] = y})
    BY <1>4, <2>1
  <2> QED BY <2>3, <2>4, <2>6, <2>7, <2>8
<1>3. Cardinality(U) \in T
  <2> HIDE DEF T
  <2> QED BY <1>0, <1>1, <1>2, EveryNumber
<1>5. Of(U) = S
  OBVIOUS
<1> QED BY <1>3, <1>5

\* A sum over one thing, and over at most one.
LEMMA SumOfOne ==
  ASSUME NEW F, NEW x, F[x] \in Int
  PROVE  SumFunctionOnSet(F, {x}) = F[x]
<1>1. IsFiniteSet({x}) /\ IsFiniteSet({}) /\ {x} \ {x} = {}
  BY FS_Singleton, FS_EmptySet
<1>2. SumFunctionOnSet(F, {x}) = F[x] + SumFunctionOnSet(F, {x} \ {x})
  BY <1>1, SumTakes
<1>3. SumFunctionOnSet(F, {}) = 0
  BY <1>1, SumUnfolds
<1> QED BY <1>1, <1>2, <1>3

\* Things that are told apart by what they become add up to the same.
LEMMA SumRenamed ==
  ASSUME NEW F, NEW S, IsFiniteSet(S), \A x \in S : F[x] \in Int,
         NEW H, \A x, y \in S : H[x] = H[y] => x = y,
         NEW U, U = {H[x] : x \in S}, NEW G, \A x \in S : G[H[x]] = F[x]
  PROVE  SumFunctionOnSet(F, S) = SumFunctionOnSet(G, U)
<1>1. IsFiniteSet(U)
  <2>1. [x \in S |-> H[x]] \in Surjection(S, U)
    BY DEF Surjection
  <2> QED BY <2>1, FS_Surjection
<1>2. \A x \in S : H[x] \in U
  OBVIOUS
<1>3. \A u \in U : G[u] = SumFunctionOnSet(F, {x \in S : H[x] = u})
  <2> SUFFICES ASSUME NEW u \in U PROVE G[u] = SumFunctionOnSet(F, {x \in S : H[x] = u})
    OBVIOUS
  <2>1. PICK y \in S : u = H[y]
    OBVIOUS
  <2>2. {x \in S : H[x] = u} = {y}
    BY <2>1
  <2>3. G[u] = F[y] /\ F[y] \in Int
    BY <2>1
  <2> QED BY <2>2, <2>3, SumOfOne
<1>4. Sorts(H, S, U, F, G)
  BY <1>2, <1>3 DEF Sorts
<1> QED BY <1>1, <1>4, SumParts

\* A nonempty set of numbers below a bound has a greatest member, and Max finds it.
LEMMA MaxIsIn ==
  ASSUME NEW n \in Nat, NEW S, S \subseteq 0 .. n, S # {}
  PROVE  Max(S) \in S /\ \A x \in S : x <= Max(S)
<1> DEFINE T == {m \in Nat : \A x \in S : x <= m}
           R == OpToRel(<, Nat)
<1>1. n \in T
  OBVIOUS
<1>2. PICK m \in T : \A y \in T : ~(<<y, m>> \in R)
  <2>1. IsWellFoundedOn(R, Nat)
    BY NatLessThanWellFounded
  <2> HIDE DEF R
  <2> QED BY <1>1, <2>1, WFMin
<1>3. \A y \in T : ~(y < m)
  <2> SUFFICES ASSUME NEW y \in T, y < m PROVE FALSE
    OBVIOUS
  <2> <<y, m>> \in R
    BY DEF OpToRel
  <2> QED BY <1>2
<1>4. m \in S
  <2> SUFFICES ASSUME m \notin S PROVE FALSE
    OBVIOUS
  <2>1. PICK x \in S : TRUE
    OBVIOUS
  <2>2. m # 0 /\ m - 1 \in T
    BY <2>1
  <2> QED BY <2>2, <1>3
<1> QED BY <1>4 DEF Max

-----------------------------------------------------------------------------
(***************************************************************************)
(* What each part of the invariant looks at                                *)
(***************************************************************************)

\* Goods looks at the listings and the catalogue calls only.
LEMMA GoodsStand ==
  ASSUME Goods, UNCHANGED <<product, adminActions, provided, shelf>>
  PROVE  Goods'
BY DEF Goods, ShelfOK

\* Baskets looks at the carts and the cart calls only.
LEMMA BasketsStand ==
  ASSUME Baskets, UNCHANGED <<cart, lastLine, cartCalls>>
  PROVE  Baskets'
BY DEF Baskets

\* Bargains looks at the offers only.
LEMMA BargainsStand ==
  ASSUME Bargains, UNCHANGED hagglingVars
  PROVE  Bargains'
BY DEF Bargains, DiscountsWereOffered, OfferCallOK, Backed, hagglingVars

\* Sales looks at the sessions and the offers they spent.
LEMMA SalesStand ==
  ASSUME Sales, UNCHANGED <<checkouts, faults, offers>>
  PROVE  Sales'
BY DEF Sales, CheckoutOK, SpentOK, OfferLine

\* Ledger looks at orders, payments, sessions and notifications.
LEMMA LedgerStands ==
  ASSUME Ledger, UNCHANGED <<orders, payments, checkouts, notifications>>
  PROVE  Ledger'
BY DEF Ledger, Grounded, Walked, OrderIds

\* LotsApart looks at orders and sessions.
LEMMA LotsStand ==
  ASSUME LotsApart, UNCHANGED <<orders, checkouts>>
  PROVE  LotsApart'
BY DEF LotsApart, OrderIds

\* Orders that stand hold what they held.
LEMMA HeldStands ==
  ASSUME UNCHANGED orders, NEW p
  PROVE  Held(p)' = Held(p)
BY DEF Held, OrderIds

\* Listed looks at orders, and whether listings are there.
LEMMA ListedStands ==
  ASSUME Listed, UNCHANGED <<orders, product>>
  PROVE  Listed'
BY DEF Listed, OrderIds

\* Conserved looks at orders, listings and what was provided.
LEMMA ConservedStands ==
  ASSUME Conserved, UNCHANGED <<orders, product, provided>>
  PROVE  Conserved'
BY HeldStands DEF Conserved

\* Errands looks at the parcel calls and the orders.
LEMMA ErrandsStand ==
  ASSUME Errands, UNCHANGED <<parcelCalls, orders>>
  PROVE  Errands'
BY DEF Errands, OrderIds

\* The shop at the start.
LEMMA ShopStarts ==
  ASSUME ShopInit
  PROVE  ShopInv
<1> USE ShopAssumption DEF ShopInit
<1>0. OrderIds = {}
  BY DEF OrderIds, ShopStoreInit
<1>1. Goods
  <2>1. product = Shelf /\ provided = [p \in Products |-> Shelf[p].stockQty]
        /\ adminActions = [p \in Products |-> <<>>]
    BY DEF ShopStoreInit
  <2>2. shelf = [k \in ShelfCalls |-> IdleShelfCall] /\ IdleShelfCall \in ShelfCall
        /\ IdleShelfCall.pc = "idle"
    BY DEF CatalogueInit, IdleShelfCall, ShelfCall
  <2>3. \A p \in Products : Shelf[p].stockQty \in Int
    BY DEF Product
  <2> QED BY <2>1, <2>2, <2>3 DEF Goods, ShelfOK
<1>2. Baskets
  <2>1. cart = Carts /\ cartCalls = [k \in CartCalls |-> IdleCartCall]
    BY DEF ShopStoreInit, BasketInit
  <2>2. IdleCartCall \in CartCall /\ IdleCartCall.pc = "idle"
    BY DEF IdleCartCall, CartCall
  <2>3. \A b \in Buyers, p \in Products : Carts[b][p].id \in 0 .. MaxLines
    BY DEF CartLine
  <2>4. lastLine \in 0 .. MaxLines
    <3> DEFINE S == {0} \cup {Carts[b][p].id : b \in Buyers, p \in Products}
    <3>1. S \subseteq 0 .. MaxLines /\ S # {}
      BY <2>3
    <3> HIDE DEF S
    <3>2. Max(S) \in S
      BY <3>1, MaxIsIn
    <3>3. lastLine = Max(S)
      BY DEF ShopStoreInit, S
    <3> QED BY <3>1, <3>2, <3>3
  <2> QED BY <2>1, <2>2, <2>3, <2>4 DEF Baskets
<1>3. Bargains
  <2>1. IdleOfferCall \in OfferCall /\ IdleOfferCall.pc = "idle"
    BY DEF IdleOfferCall, OfferCall
  <2> QED BY <2>1 DEF HagglingInit, Bargains, OfferCallOK, DiscountsWereOffered
<1>4. Sales
  <2>1. IdleCheckout \in CheckoutRow /\ IdleCheckout.pc = "idle" /\ IdleCheckout.offer = 0
        /\ IdleCheckout.lines = {}
    BY DEF IdleCheckout, CheckoutRow
  <2>2. LinesOK(IdleCheckout.buyerId, {})
    BY FS_EmptySet DEF LinesOK
  <2>3. CheckoutOK(IdleCheckout)
    BY <2>1, <2>2 DEF CheckoutOK, SpentOK
  <2> QED BY <2>1, <2>3, CheckoutAssumption DEF CheckoutInit, Sales
<1>5. Ledger
  <2>1. \A k \in Sessions : checkouts[k].pc = "idle"
    BY DEF CheckoutInit, IdleCheckout
  <2> QED BY <1>0, <2>1 DEF ShopStoreInit, Ledger
<1>6. LotsApart /\ Listed
  BY <1>0 DEF LotsApart, Listed
<1>7. Conserved
  <2>1. \A p : Held(p) = 0
    <3> TAKE p
    <3> DEFINE S == {q \in OrderIds : orders[q].status # "CANCELLED"}
               F == [o \in S |-> UnitsIn(orders[o].items, p)]
    <3>1. S = {} /\ DOMAIN F = S
      BY <1>0
    <3>2. Held(p) = SumFunctionOnSet(F, DOMAIN F)
      BY DEF Held, SumFunction
    <3> HIDE DEF F, S
    <3>3. SumFunctionOnSet(F, {}) = 0
      BY SumUnfolds, FS_EmptySet
    <3> QED BY <3>1, <3>2, <3>3
  <2>2. \A p \in Products : /\ product[p].stockQty \in Nat
                            /\ provided[p] = product[p].stockQty
    BY DEF ShopStoreInit, Product
  <2> QED BY <2>1, <2>2 DEF Conserved
<1>8. Errands
  <2>1. IdleParcelCall \in ParcelCall /\ IdleParcelCall.pc = "idle"
    BY DEF IdleParcelCall, ParcelCall
  <2> QED BY <2>1 DEF ParcelsInit, Errands
<1>9. Told
  BY DEF ShopStoreInit, Told
<1> QED BY <1>1, <1>2, <1>3, <1>4, <1>5, <1>6, <1>7, <1>8, <1>9 DEF ShopInv

\* The items of an order, taken together.
LEMMA UnitsAreNumbers ==
  ASSUME NEW items, items \subseteq Item, IsFiniteSet(items), NEW p
  PROVE  UnitsIn(items, p) \in Nat
<1> DEFINE S == {j \in items : j.productId = p}
           F == [i \in S |-> i.quantity]
<1>1. IsFiniteSet(S)
  BY FS_Subset
<1>2. \A i \in S : F[i] \in Nat
  BY DEF Item
<1>3. UnitsIn(items, p) = SumFunctionOnSet(F, S)
  BY DEF UnitsIn, SumFunction
<1> HIDE DEF F, S
<1> QED BY <1>1, <1>2, <1>3, SumType

\* There are finitely many orders, of finitely many items.
LEMMA OrdersAreFinite ==
  ASSUME Ledger, Sales
  PROVE  /\ IsFiniteSet(OrderIds)
         /\ \A o \in OrderIds : orders[o] \in Order /\ IsFiniteSet(orders[o].items)
<1>1. IsFiniteSet(Sessions \X Users)
  BY ShopAssumption, FS_Product
<1>2. OrderIds \subseteq Sessions \X Users
  BY DEF OrderIds
<1>3. ASSUME NEW o \in OrderIds PROVE IsFiniteSet(orders[o].items)
  <2>1. /\ orders[o].items = ItemsOf(Share(checkouts[o[1]].lines, o[2]))
        /\ o[1] \in Sessions
    BY <1>2 DEF Ledger, Grounded
  <2> DEFINE S == Share(checkouts[o[1]].lines, o[2])
  <2>2. IsFiniteSet(checkouts[o[1]].lines)
    BY <2>1 DEF Sales, CheckoutOK, LinesOK
  <2>3. IsFiniteSet(S)
    BY <2>2, FS_Subset DEF Share
  <2>4. IsFiniteSet(ItemsOf(S))
    <3>1. [l \in S |-> ItemOf(l)] \in Surjection(S, ItemsOf(S))
      BY DEF Surjection, ItemsOf
    <3> HIDE DEF S
    <3> QED BY <2>3, <3>1, FS_Surjection
  <2> QED BY <2>1, <2>4
<1>4. \A o \in OrderIds : orders[o] \in Order
  BY DEF Ledger, OrderIds
<1> QED BY <1>1, <1>2, <1>3, <1>4, FS_Subset

\* What orders hold is a number.
LEMMA HeldIsNumber ==
  ASSUME Ledger, Sales, NEW p
  PROVE  Held(p) \in Nat
<1> DEFINE S == {q \in OrderIds : orders[q].status # "CANCELLED"}
           F == [o \in S |-> UnitsIn(orders[o].items, p)]
<1>1. IsFiniteSet(S)
  BY OrdersAreFinite, FS_Subset
<1>2. ASSUME NEW o \in S PROVE F[o] \in Nat
  <2>1. orders[o].items \subseteq Item /\ IsFiniteSet(orders[o].items)
    BY OrdersAreFinite DEF Order
  <2> QED BY <2>1, UnitsAreNumbers
<1>3. Held(p) = SumFunctionOnSet(F, S)
  BY DEF Held, SumFunction
<1> HIDE DEF F, S
<1> QED BY <1>1, <1>2, <1>3, SumType

-----------------------------------------------------------------------------
(***************************************************************************)
(* The catalogue                                                           *)
(***************************************************************************)

\* Listings that stay listed keep what rests on them.
LEMMA StaysListed ==
  ASSUME Listed, UNCHANGED orders, orders \in [Sessions \X Users -> Order \cup {Null}],
         \A p \in Products : product[p].status # "NONE" => product'[p].status # "NONE"
  PROVE  Listed'
<1> SUFFICES ASSUME NEW o \in OrderIds, NEW i \in orders[o].items, i.productId # Null
             PROVE  product'[i.productId].status # "NONE"
  BY DEF Listed, OrderIds
<1>1. i.productId \in Products
  BY DEF OrderIds, Order, Item
<1> QED BY <1>1 DEF Listed

\* A row replaced by a listed one, with the difference in stock on the books.
LEMMA RowReplaced ==
  ASSUME Goods, Sales, Ledger, Listed, Conserved, UNCHANGED orders,
         NEW p \in Products, NEW row \in Product, row.status # "NONE",
         product' = [product EXCEPT ![p] = row],
         provided' = [provided EXCEPT ![p] = @ + row.stockQty - product[p].stockQty]
  PROVE  /\ product' \in [Products -> Product] /\ provided' \in [Products -> Int]
         /\ \A q \in Products : product'[q].status = "NONE" => product'[q].stockQty = 0
         /\ \A q \in Products : product[q].status # "NONE" => product'[q].status # "NONE"
         /\ Listed' /\ Conserved'
<1>1. product' \in [Products -> Product]
  BY DEF Goods
<1>2. row.stockQty \in Nat /\ \A q \in Products : product[q].stockQty \in Nat /\ provided[q] \in Int
  BY DEF Goods, Product
<1>3. provided' \in [Products -> Int]
  BY <1>2 DEF Goods
<1>4. \A q \in Products : product'[q] = IF q = p THEN row ELSE product[q]
  BY DEF Goods
<1>5. \A q \in Products : product[q].status # "NONE" => product'[q].status # "NONE"
  BY <1>4
<1>6. \A q \in Products : product'[q].status = "NONE" => product'[q].stockQty = 0
  BY <1>4 DEF Goods
<1>7. Listed'
  BY <1>5, StaysListed DEF Ledger
<1>8. Conserved'
  <2> SUFFICES ASSUME NEW q \in Products PROVE product'[q].stockQty + Held(q)' = provided'[q]
    BY DEF Conserved
  <2>1. product[q].stockQty + Held(q) = provided[q] /\ Held(q)' = Held(q)
    BY HeldStands DEF Conserved
  <2>2. CASE q = p
    <3>1. provided'[q] = provided[q] + row.stockQty - product[q].stockQty /\ product'[q] = row
      BY <2>2, <1>4 DEF Goods
    <3>2. provided[q] \in Int /\ product[q].stockQty \in Nat
      BY <1>2
    <3>3. PICK h : h = Held(q)
      OBVIOUS
    <3>4. product[q].stockQty + h = provided[q]
      BY <2>1, <3>3
    <3>5. h \in Int
      BY HeldIsNumber, <3>3
    <3> QED BY <1>2, <2>1, <3>1, <3>2, <3>3, <3>4, <3>5
  <2>3. CASE q # p
    BY <2>1, <2>3, <1>4 DEF Goods
  <2> QED BY <2>2, <2>3
<1> QED BY <1>1, <1>3, <1>5, <1>6, <1>7, <1>8

\* The write of a catalogue call replaces one row by a listed one.
LEMMA RowWritten ==
  ASSUME Goods, NEW k \in ShelfCalls, shelf[k].pc = "write", NEW rest \in Product,
         NEW status \in (ProductStatus \ {"NONE"}) \cup {Null},
         NEW stockQty \in Nat \cup {Null}, NEW price \in Nat \cup {Null},
         WriteRow(k, status, stockQty, price, rest)
  PROVE  \E row \in Product :
           /\ row.status # "NONE"
           /\ product' = [product EXCEPT ![shelf[k].productId] = row]
           /\ provided' = [provided EXCEPT ![shelf[k].productId] =
                             @ + row.stockQty - product[shelf[k].productId].stockQty]
<1> DEFINE p == shelf[k].productId
           old == product[p]
           row == [rest EXCEPT !.status = Sent(status, old.status),
                               !.stockQty = Sent(stockQty, old.stockQty),
                               !.price = Sent(price, old.price)]
<1>1. p \in Products /\ old \in Product /\ old.status # "NONE"
  BY DEF Goods, ShelfOK
<1> HIDE DEF p, old
<1>2. /\ Sent(status, old.status) \in ProductStatus /\ Sent(status, old.status) # "NONE"
      /\ Sent(stockQty, old.stockQty) \in Nat /\ Sent(price, old.price) \in Nat
  BY <1>1 DEF Sent, Product, ProductStatus
<1>3. row \in Product /\ row.status = Sent(status, old.status)
      /\ row.stockQty = Sent(stockQty, old.stockQty)
  <2>1. PICK st, q, pr : /\ st = Sent(status, old.status)
                         /\ q = Sent(stockQty, old.stockQty) /\ pr = Sent(price, old.price)
    OBVIOUS
  <2>2. st \in ProductStatus /\ q \in Nat /\ pr \in Nat
    BY <1>2, <2>1
  <2>3. PICK r : r = [rest EXCEPT !.status = st, !.stockQty = q, !.price = pr]
    OBVIOUS
  <2>4. r \in Product /\ r.status = st /\ r.stockQty = q
    BY <2>2, <2>3 DEF Product
  <2> QED BY <2>1, <2>3, <2>4
<1>4. /\ product' = [product EXCEPT ![p] = row]
      /\ provided' = [provided EXCEPT ![p] = @ + Sent(stockQty, old.stockQty) - old.stockQty]
  BY DEF WriteRow, p, old
<1> HIDE DEF row
<1> QED BY <1>2, <1>3, <1>4 DEF p, old

\* A finished catalogue call leaves the others as they were.
LEMMA ShelfCallEnds ==
  ASSUME Goods, NEW k \in ShelfCalls, EndShelfCall(k),
         \A p \in Products : product[p].status # "NONE" => product'[p].status # "NONE"
  PROVE  shelf' \in [ShelfCalls -> ShelfCall] /\ \A j \in ShelfCalls : ShelfOK(j)'
<1> DEFINE d == [IdleShelfCall EXCEPT !.pc = "done"]
<1>1. d \in ShelfCall /\ d.pc = "done"
  BY DEF ShelfCall, IdleShelfCall
<1>2. shelf' = [shelf EXCEPT ![k] = d]
  BY DEF EndShelfCall
<1> HIDE DEF d
<1>3. shelf' \in [ShelfCalls -> ShelfCall]
  BY <1>1, <1>2 DEF Goods
<1>4. ASSUME NEW j \in ShelfCalls PROVE ShelfOK(j)'
  <2>1. CASE j = k
    <3>1. shelf'[j] = d
      BY <1>2, <2>1 DEF Goods
    <3> QED BY <3>1, <1>1 DEF ShelfOK
  <2>2. CASE j # k
    <3>1. shelf'[j] = shelf[j] /\ ShelfOK(j)
      BY <1>2, <2>2 DEF Goods
    <3> QED BY <3>1 DEF ShelfOK
  <2> QED BY <2>1, <2>2
<1> QED BY <1>3, <1>4

\* A catalogue call's new state, with the listings as they are.
LEMMA ShelfCallMoves ==
  ASSUME Goods, NEW k \in ShelfCalls, NEW c \in ShelfCall, shelf' = [shelf EXCEPT ![k] = c],
         UNCHANGED <<product, adminActions, provided>>,
         c.pc \in {"count", "write"} =>
           /\ c.op \in ShelfOp \ {"create"}
           /\ c.productId \in Products /\ c.existing \in Product
           /\ c.op \in {"update", "updateStock"} => c.edit \in Edits
           /\ c.op = "updateStock" => c.edit.stockQty # Null
           /\ product[c.productId].status # "NONE"
  PROVE  Goods'
<1>1. shelf' \in [ShelfCalls -> ShelfCall]
  BY DEF Goods
<1>2. ASSUME NEW j \in ShelfCalls PROVE ShelfOK(j)'
  <2>1. CASE j = k
    <3>1. shelf'[j] = c
      BY <2>1 DEF Goods
    <3> QED BY <3>1 DEF ShelfOK
  <2>2. CASE j # k
    <3>1. shelf'[j] = shelf[j] /\ ShelfOK(j)
      BY <2>2 DEF Goods
    <3> QED BY <3>1 DEF ShelfOK
  <2> QED BY <2>1, <2>2
<1> QED BY <1>1, <1>2 DEF Goods

\* The reads of a catalogue call.
LEMMA ShelfReads ==
  ASSUME Goods, NEW k \in ShelfCalls, ReadProduct(k) \/ CountOrders(k)
  PROVE  Goods'
<1>0. UNCHANGED <<product, adminActions, provided>>
  BY DEF ReadProduct, CountOrders, shopStoreVars
<1>1. CASE ReadProduct(k)
  <2>1. PICK p \in Products, op \in ShelfOps[k] \ {"create"} : \E edit \in BodiesOf(op) :
          IF \/ ShelfRefused(op, product[p])
             \/ op = "update" /\ EditRefused(edit, product[p])
          THEN UNCHANGED shelf
          ELSE shelf' = [shelf EXCEPT
                 ![k] = [pc |-> IF op = "remove" THEN "count" ELSE "write", op |-> op,
                         productId |-> p, edit |-> edit, existing |-> product[p],
                         referenced |-> FALSE]]
    BY <1>1 DEF ReadProduct
  <2>2. PICK edit \in BodiesOf(op) :
          IF \/ ShelfRefused(op, product[p])
             \/ op = "update" /\ EditRefused(edit, product[p])
          THEN UNCHANGED shelf
          ELSE shelf' = [shelf EXCEPT
                 ![k] = [pc |-> IF op = "remove" THEN "count" ELSE "write", op |-> op,
                         productId |-> p, edit |-> edit, existing |-> product[p],
                         referenced |-> FALSE]]
    BY <2>1
  <2>3. CASE UNCHANGED shelf
    BY <2>3, <1>0, GoodsStand
  <2>4. CASE shelf' # shelf
    <3> DEFINE c == [pc |-> IF op = "remove" THEN "count" ELSE "write", op |-> op,
                     productId |-> p, edit |-> edit, existing |-> product[p],
                     referenced |-> FALSE]
    <3>1. ~ShelfRefused(op, product[p]) /\ shelf' = [shelf EXCEPT ![k] = c]
      BY <2>2, <2>4
    <3>2. op \in ShelfOp \ {"create"} /\ product[p] \in Product
      BY CatalogueAssumption DEF Goods
    <3>3. product[p].status # "NONE"
      BY <3>1, <3>2 DEF ShelfRefused, ShelfOp
    <3>4. /\ edit \in Edits \cup {Null}
          /\ op \in {"update", "updateStock"} => edit \in Edits
          /\ op = "updateStock" => edit.stockQty # Null
      BY <3>2 DEF BodiesOf, ShelfOp
    <3>5. c \in ShelfCall
      BY <3>2, <3>4 DEF ShelfCall
    <3>6. c.op = op /\ c.productId = p /\ c.edit = edit /\ c.existing = product[p]
      OBVIOUS
    <3> HIDE DEF c
    <3> QED BY <1>0, <3>1, <3>2, <3>3, <3>4, <3>5, <3>6, ShelfCallMoves
  <2> QED BY <2>3, <2>4
<1>2. CASE CountOrders(k)
  <2>1. PICK r \in BOOLEAN : shelf' = [shelf EXCEPT ![k].pc = "write", ![k].referenced = r]
    BY <1>2 DEF CountOrders
  <2>2. PICK c : c = [shelf[k] EXCEPT !.pc = "write", !.referenced = r]
    OBVIOUS
  <2>3. shelf[k] \in ShelfCall /\ ShelfOK(k) /\ shelf[k].pc = "count"
    BY <1>2 DEF Goods, CountOrders
  <2>4. c \in ShelfCall /\ c.op = shelf[k].op /\ c.productId = shelf[k].productId
        /\ c.edit = shelf[k].edit /\ c.existing = shelf[k].existing
    BY <2>2, <2>3 DEF ShelfCall
  <2>5. shelf' = [shelf EXCEPT ![k] = c]
    BY <2>1, <2>2 DEF Goods
  <2> QED BY <1>0, <2>3, <2>4, <2>5, ShelfCallMoves DEF ShelfOK
<1> QED BY <1>1, <1>2

\* The writes of a catalogue call.
LEMMA ShelfWrites ==
  ASSUME Goods, Sales, Ledger, Listed, Conserved, NEW k \in ShelfCalls, WriteProduct(k)
  PROVE  Goods' /\ Listed' /\ Conserved'
<1> DEFINE p == shelf[k].productId
           old == product[p]
           seen == shelf[k].existing
           e == shelf[k].edit
<1>0. /\ ShelfOK(k) /\ shelf[k].pc = "write" /\ UNCHANGED orders /\ EndShelfCall(k)
      /\ p \in Products /\ old \in Product /\ seen \in Product
  BY DEF WriteProduct, catalogueElsewhere, Goods, ShelfOK
<1>1. /\ \A n : StatusFor(n) \in ProductStatus \ {"NONE"}
      /\ \A s, n : resolveStatus(s, n) \in (ProductStatus \ {"NONE"}) \cup {Null}
  BY DEF StatusFor, resolveStatus, ProductStatus
<1>2. /\ "INACTIVE" \in ProductStatus \ {"NONE"} /\ "REMOVED" \in ProductStatus \ {"NONE"}
      /\ "SUSPENDED" \in ProductStatus \ {"NONE"}
  BY DEF ProductStatus
<1>3. /\ \E row \in Product :
           /\ row.status # "NONE"
           /\ product' = [product EXCEPT ![p] = row]
           /\ provided' = [provided EXCEPT ![p] = @ + row.stockQty - product[p].stockQty]
      /\ adminActions' \in [Products -> Seq({"DEACTIVATE_PRODUCT", "REACTIVATE_PRODUCT"})]
  <2>0. UNCHANGED adminActions =>
          adminActions' \in [Products -> Seq({"DEACTIVATE_PRODUCT", "REACTIVATE_PRODUCT"})]
    BY DEF Goods
  <2>1. CASE update(k)
    <3>1. e \in Edits
      BY <1>0, <2>1 DEF update, ShelfOK
    <3> DEFINE rest == [old EXCEPT !.negotiationFloor = Sent(e.negotiationFloor, @),
                                   !.minQty = Sent(e.minQty, @),
                                   !.percent = Sent(e.percent, @)]
    <3>2. /\ Sent(e.negotiationFloor, old.negotiationFloor) \in Nat \cup {Null}
          /\ Sent(e.minQty, old.minQty) \in Nat \cup {Null}
          /\ Sent(e.percent, old.percent) \in Percentage \cup {Null}
      <4>1. /\ e.negotiationFloor \in Nat \cup {Null} /\ e.minQty \in Nat \cup {Null}
            /\ e.percent \in Percentage \cup {Null}
        BY <3>1, CatalogueAssumption
      <4>2. /\ old.negotiationFloor \in Nat \cup {Null} /\ old.minQty \in Nat \cup {Null}
            /\ old.percent \in Percentage \cup {Null}
        BY <1>0 DEF Product
      <4> HIDE DEF e, old
      <4> QED BY <4>1, <4>2 DEF Sent
    <3>3. rest \in Product
      <4> HIDE DEF e, old
      <4>1. PICK f, m, g : /\ f = Sent(e.negotiationFloor, old.negotiationFloor)
                           /\ m = Sent(e.minQty, old.minQty) /\ g = Sent(e.percent, old.percent)
        OBVIOUS
      <4>2. f \in Nat \cup {Null} /\ m \in Nat \cup {Null} /\ g \in Percentage \cup {Null}
        BY <3>2, <4>1
      <4>3. PICK r : r = [old EXCEPT !.negotiationFloor = f, !.minQty = m, !.percent = g]
        OBVIOUS
      <4>4. r \in Product
        BY <1>0, <4>2, <4>3 DEF Product
      <4> QED BY <4>1, <4>3, <4>4
    <3>4. WriteRow(k, resolveStatus(seen.status, Sent(e.stockQty, seen.stockQty)),
                   e.stockQty, e.price, rest)
      BY <2>1 DEF update
    <3>5. e.stockQty \in Nat \cup {Null} /\ e.price \in Nat \cup {Null}
      BY <3>1, CatalogueAssumption
    <3> HIDE DEF rest, e, old, seen
    <3>6. UNCHANGED adminActions
      BY <2>1 DEF update
    <3> QED BY <1>0, <1>1, <2>0, <3>3, <3>4, <3>5, <3>6, RowWritten
  <2>2. CASE updateStatus(k)
    <3>1. PICK st \in ProductStatus \ {"NONE"} : WriteRow(k, st, Null, Null, old)
      BY <2>2, <1>1, <1>2 DEF updateStatus
    <3>2. UNCHANGED adminActions
      BY <2>2 DEF updateStatus
    <3> QED BY <1>0, <2>0, <3>1, <3>2, RowWritten
  <2>3. CASE updateStock(k)
    <3>1. e \in Edits /\ e.stockQty # Null
      BY <1>0, <2>3 DEF updateStock, ShelfOK
    <3>2. e.stockQty \in Nat
      BY <3>1, CatalogueAssumption
    <3>3. WriteRow(k, resolveStatus(seen.status, e.stockQty), e.stockQty, Null, old)
          /\ UNCHANGED adminActions
      BY <2>3 DEF updateStock
    <3> HIDE DEF e, seen
    <3> QED BY <1>0, <1>1, <2>0, <3>2, <3>3, RowWritten
  <2>4. CASE remove(k)
    <3>1. PICK st \in ProductStatus \ {"NONE"} : WriteRow(k, st, Null, Null, old)
      BY <2>4, <1>2 DEF remove
    <3>2. UNCHANGED adminActions
      BY <2>4 DEF remove
    <3> QED BY <1>0, <2>0, <3>1, <3>2, RowWritten
  <2>5. CASE setProductActivation(k)
    <3>1. PICK st \in ProductStatus \ {"NONE"} : WriteRow(k, st, Null, Null, old)
      BY <2>5, <1>1, <1>2 DEF setProductActivation
    <3>2. PICK a \in {"DEACTIVATE_PRODUCT", "REACTIVATE_PRODUCT"} :
            adminActions' = [adminActions EXCEPT ![p] = Append(@, a)]
      BY <2>5 DEF setProductActivation
    <3>3. Append(adminActions[p], a) \in Seq({"DEACTIVATE_PRODUCT", "REACTIVATE_PRODUCT"})
      BY <1>0, AppendProperties DEF Goods
    <3>4. adminActions' \in [Products -> Seq({"DEACTIVATE_PRODUCT", "REACTIVATE_PRODUCT"})]
      BY <3>2, <3>3 DEF Goods
    <3> QED BY <1>0, <3>1, <3>4, RowWritten
  <2> QED BY <2>1, <2>2, <2>3, <2>4, <2>5 DEF WriteProduct
<1> HIDE DEF p
<1>4. /\ product' \in [Products -> Product] /\ provided' \in [Products -> Int]
      /\ \A q \in Products : product'[q].status = "NONE" => product'[q].stockQty = 0
      /\ \A q \in Products : product[q].status # "NONE" => product'[q].status # "NONE"
      /\ Listed' /\ Conserved'
  BY <1>0, <1>3, RowReplaced
<1>5. shelf' \in [ShelfCalls -> ShelfCall] /\ \A j \in ShelfCalls : ShelfOK(j)'
  BY <1>0, <1>4, ShelfCallEnds
<1> QED BY <1>3, <1>4, <1>5 DEF Goods

\* A new listing takes the place of an empty row.
LEMMA ListingCreated ==
  ASSUME Goods, Sales, Ledger, Listed, Conserved, NEW k \in ShelfCalls, CreateProduct(k)
  PROVE  Goods' /\ Listed' /\ Conserved'
<1>1. PICK p \in Products, f \in Forms :
        /\ product[p].status = "NONE"
        /\ product' = [product EXCEPT ![p] =
             [status |-> StatusFor(f.stockQty), stockQty |-> f.stockQty, price |-> f.price,
              negotiationFloor |-> f.negotiationFloor, minQty |-> f.minQty,
              percent |-> f.percent]]
        /\ provided' = [provided EXCEPT ![p] = @ + f.stockQty]
  BY DEF CreateProduct
<1> DEFINE row == [status |-> StatusFor(f.stockQty), stockQty |-> f.stockQty, price |-> f.price,
                   negotiationFloor |-> f.negotiationFloor, minQty |-> f.minQty,
                   percent |-> f.percent]
<1>2. row \in Product /\ row.status # "NONE" /\ row.stockQty = f.stockQty /\ f.stockQty \in Nat
  BY CatalogueAssumption DEF Product, StatusFor, ProductStatus
<1>3. product[p].stockQty = 0 /\ provided[p] \in Int
  BY <1>1 DEF Goods
<1>4. product' = [product EXCEPT ![p] = row]
  BY <1>1
<1> HIDE DEF row
<1>5. provided' = [provided EXCEPT ![p] = @ + row.stockQty - product[p].stockQty]
  <2>1. provided[p] + f.stockQty = provided[p] + row.stockQty - product[p].stockQty
    BY <1>2, <1>3
  <2> QED BY <1>1, <2>1
<1>6. UNCHANGED <<orders, adminActions>> /\ EndShelfCall(k)
  BY DEF CreateProduct, catalogueElsewhere
<1>7. /\ product' \in [Products -> Product] /\ provided' \in [Products -> Int]
      /\ \A q \in Products : product'[q].status = "NONE" => product'[q].stockQty = 0
      /\ \A q \in Products : product[q].status # "NONE" => product'[q].status # "NONE"
      /\ Listed' /\ Conserved'
  BY <1>2, <1>4, <1>5, <1>6, RowReplaced
<1>8. shelf' \in [ShelfCalls -> ShelfCall] /\ \A j \in ShelfCalls : ShelfOK(j)'
  BY <1>6, <1>7, ShelfCallEnds
<1> QED BY <1>6, <1>7, <1>8 DEF Goods

\* Every step of the catalogue.
LEMMA SellingKeeps ==
  ASSUME ShopInv, Selling
  PROVE  ShopInv'
<1> USE DEF ShopInv
<1>1. PICK k \in ShelfCalls : ShelfStep(k)
  BY DEF Selling
<1>2. UNCHANGED <<hagglingVars, checkouts, faults, cartCalls, parcelCalls,
                  cart, lastLine, payments, orders, notifications, announced>>
  BY <1>1 DEF Selling, ShelfStep, ReadProduct, CountOrders, WriteProduct, CreateProduct,
              checkoutVars, shopStoreVars, catalogueElsewhere
<1>3. Goods' /\ Listed' /\ Conserved'
  <2>1. CASE ReadProduct(k) \/ CountOrders(k)
    <3>1. Goods'
      BY <2>1, ShelfReads
    <3>2. UNCHANGED <<product, provided>>
      BY <2>1 DEF ReadProduct, CountOrders, shopStoreVars
    <3> QED BY <1>2, <3>1, <3>2, ListedStands, ConservedStands
  <2>2. CASE WriteProduct(k)
    BY <2>2, ShelfWrites
  <2>3. CASE CreateProduct(k)
    BY <2>3, ListingCreated
  <2> QED BY <1>1, <2>1, <2>2, <2>3 DEF ShelfStep
<1>4. Baskets' /\ Bargains' /\ Errands'
  BY <1>2, BasketsStand, BargainsStand, ErrandsStand
<1>5. Sales' /\ Ledger' /\ LotsApart'
  BY <1>2, SalesStand, LedgerStands, LotsStand DEF hagglingVars
<1>6. Told'
  BY <1>2 DEF Told
<1> QED BY <1>3, <1>4, <1>5, <1>6

-----------------------------------------------------------------------------
(***************************************************************************)
(* Carts                                                                   *)
(***************************************************************************)

\* A cart call's new state, with the carts as they are.
LEMMA CartCallMoves ==
  ASSUME Baskets, UNCHANGED <<cart, lastLine>>, NEW k \in CartCalls, NEW c \in CartCall,
         c.pc = "write" => c.userId \in Buyers /\ c.productId \in Products,
         cartCalls' = [cartCalls EXCEPT ![k] = c]
  PROVE  Baskets'
<1>1. cartCalls' \in [CartCalls -> CartCall]
  BY DEF Baskets
<1>2. \A j \in CartCalls : cartCalls'[j] = IF j = k THEN c ELSE cartCalls[j]
  BY DEF Baskets
<1> QED BY <1>1, <1>2 DEF Baskets

\* A line written into one cart, and its call done.
LEMMA LineWritten ==
  ASSUME Baskets, NEW k \in CartCalls, EndCartCall(k), NEW b \in Buyers, NEW row,
         row \in [Products -> CartLine], \A p \in Products : row[p].id <= MaxLines,
         cart' = [cart EXCEPT ![b] = row], lastLine' \in 0 .. MaxLines
  PROVE  Baskets'
<1> DEFINE d == [IdleCartCall EXCEPT !.pc = "done"]
<1>1. d \in CartCall /\ d.pc = "done"
  BY ShopAssumption DEF CartCall, IdleCartCall
<1>2. cartCalls' = [cartCalls EXCEPT ![k] = d]
  BY DEF EndCartCall
<1> HIDE DEF d
<1>3. cartCalls' \in [CartCalls -> CartCall]
  BY <1>1, <1>2 DEF Baskets
<1>4. \A j \in CartCalls : cartCalls'[j] = IF j = k THEN d ELSE cartCalls[j]
  BY <1>2 DEF Baskets
<1>5. /\ cart' \in [Buyers -> [Products -> CartLine]]
      /\ \A u \in Buyers : cart'[u] = IF u = b THEN row ELSE cart[u]
  BY DEF Baskets
<1>6. \A u \in Buyers, p \in Products : cart'[u][p].id <= MaxLines
  BY <1>5 DEF Baskets
<1> QED BY <1>1, <1>3, <1>4, <1>5, <1>6 DEF Baskets

\* The reads of a cart call.
LEMMA CartReads ==
  ASSUME Baskets, product \in [Products -> Product], NEW k \in CartCalls, ReadCart(k)
  PROVE  Baskets'
<1>0. UNCHANGED <<cart, lastLine>>
  BY DEF ReadCart, shopStoreVars
<1>1. CASE UNCHANGED cartCalls
  BY <1>0, <1>1, BasketsStand
<1>2. CASE cartCalls' # cartCalls
  <2>1. PICK b \in Buyers, p \in Products :
          \/ \E q \in Quantities : ReadForAdd(k, b, p, q) \/ ReadLine(k, "updateItem", b, p, q)
          \/ ReadLine(k, "removeItem", b, p, 0)
    BY DEF ReadCart
  <2>2. cart[b][p].id \in 0 .. MaxLines /\ cart[b][p].quantity \in Nat
    BY DEF Baskets, CartLine
  <2>3. PICK op \in {"addItem", "updateItem", "removeItem"}, n \in Nat :
          cartCalls' = [cartCalls EXCEPT
             ![k] = [pc |-> "write", op |-> op, userId |-> b, productId |-> p,
                     line |-> cart[b][p].id, quantity |-> n]]
    <3>1. ASSUME NEW q \in Quantities, ReadForAdd(k, b, p, q)
          PROVE  cartCalls' = [cartCalls EXCEPT
                   ![k] = [pc |-> "write", op |-> "addItem", userId |-> b, productId |-> p,
                           line |-> cart[b][p].id, quantity |-> cart[b][p].quantity + q]]
                 /\ cart[b][p].quantity + q \in Nat
      BY <1>2, <2>2, <3>1, BasketAssumption DEF ReadForAdd
    <3>2. ASSUME NEW q \in Nat, NEW op \in {"updateItem", "removeItem"}, ReadLine(k, op, b, p, q)
          PROVE  cartCalls' = [cartCalls EXCEPT
                   ![k] = [pc |-> "write", op |-> op, userId |-> b, productId |-> p,
                           line |-> cart[b][p].id, quantity |-> q]]
      BY <1>2, <3>2 DEF ReadLine
    <3>3. CASE \E q \in Quantities : ReadForAdd(k, b, p, q)
      BY <3>1, <3>3
    <3>4. CASE \E q \in Quantities : ReadLine(k, "updateItem", b, p, q)
      <4>1. PICK q \in Nat : ReadLine(k, "updateItem", b, p, q)
        BY <3>4, BasketAssumption
      <4> QED BY <4>1, <3>2
    <3>5. CASE ReadLine(k, "removeItem", b, p, 0)
      BY <3>5, <3>2
    <3> QED BY <2>1, <3>3, <3>4, <3>5
  <2> DEFINE c == [pc |-> "write", op |-> op, userId |-> b, productId |-> p,
                   line |-> cart[b][p].id, quantity |-> n]
  <2>4. c \in CartCall /\ c.userId = b /\ c.productId = p
    BY <2>2 DEF CartCall
  <2>5. cartCalls' = [cartCalls EXCEPT ![k] = c]
    BY <2>3
  <2> HIDE DEF c
  <2> QED BY <1>0, <2>4, <2>5, CartCallMoves
<1> QED BY <1>1, <1>2

\* The writes of a cart call.
LEMMA CartWrites ==
  ASSUME Baskets, NEW k \in CartCalls, WriteCart(k) \/ ClearCart(k)
  PROVE  Baskets'
<1>1. CASE WriteCart(k)
  <2> DEFINE b == cartCalls[k].userId
             p == cartCalls[k].productId
  <2>0. b \in Buyers /\ p \in Products /\ EndCartCall(k) /\ cartCalls[k].quantity \in Nat
    BY <1>1 DEF WriteCart, Baskets, CartCall
  <2>1. cart[b] \in [Products -> CartLine] /\ cart[b][p].id \in 0 .. MaxLines
        /\ \A q \in Products : cart[b][q].id <= MaxLines
    BY <2>0 DEF Baskets, CartLine
  <2>2. PICK line \in CartLine : /\ line.id <= MaxLines /\ lastLine' \in 0 .. MaxLines
                                 /\ cart' = [cart EXCEPT ![b][p] = line]
    <3>1. CASE addItem(k)
      <4> DEFINE fresh == cart[b][p].id = 0
                 line == [id |-> IF fresh THEN lastLine + 1 ELSE cart[b][p].id,
                          quantity |-> cartCalls[k].quantity]
      <4>1. line \in CartLine /\ line.id <= MaxLines /\ lastLine' \in 0 .. MaxLines
        BY <2>0, <2>1, <3>1, ShopAssumption DEF addItem, CartLine, Baskets
      <4>2. cart' = [cart EXCEPT ![b][p] = line]
        BY <3>1 DEF addItem
      <4> HIDE DEF line
      <4> QED BY <4>1, <4>2
    <3>2. CASE WriteLine(k)
      <4>0. lastLine' \in 0 .. MaxLines
        BY <3>2 DEF WriteLine, Baskets
      <4>1. CASE cart[b][p].id # cartCalls[k].line
        <5>1. cart' = cart /\ cart = [cart EXCEPT ![b][p] = cart[b][p]] /\ cart[b][p] \in CartLine
          BY <2>0, <2>1, <3>2, <4>1 DEF WriteLine, Baskets
        <5>2. PICK line \in CartLine : line = cart[b][p]
          BY <5>1
        <5>3. line.id <= MaxLines /\ cart' = [cart EXCEPT ![b][p] = line]
          BY <2>0, <2>1, <5>1, <5>2
        <5> QED BY <4>0, <5>3
      <4>2. CASE cart[b][p].id = cartCalls[k].line
        <5> DEFINE line == IF cartCalls[k].op = "removeItem"
                           THEN NoLine ELSE [cart[b][p] EXCEPT !.quantity = cartCalls[k].quantity]
        <5>1. line \in CartLine /\ line.id <= MaxLines
          <6>1. NoLine \in CartLine /\ NoLine.id = 0 /\ 0 <= MaxLines
            BY ShopAssumption DEF CartLine, NoLine
          <6>2. PICK old, n : old = cart[b][p] /\ n = cartCalls[k].quantity
            OBVIOUS
          <6>3. old \in CartLine /\ old.id <= MaxLines /\ n \in Nat
            BY <2>0, <2>1, <6>2
          <6>4. PICK new : new = [old EXCEPT !.quantity = n]
            OBVIOUS
          <6>5. new \in CartLine /\ new.id <= MaxLines
            BY <6>3, <6>4 DEF CartLine
          <6> QED BY <6>1, <6>2, <6>4, <6>5
        <5>2. cart' = [cart EXCEPT ![b][p] = line]
          BY <3>2, <4>2 DEF WriteLine
        <5> HIDE DEF line
        <5> QED BY <4>0, <5>1, <5>2
      <4> QED BY <4>1, <4>2
    <3> QED BY <1>1, <3>1, <3>2 DEF WriteCart
  <2>3. PICK row : row = [cart[b] EXCEPT ![p] = line]
    OBVIOUS
  <2>4. /\ row \in [Products -> CartLine] /\ \A q \in Products : row[q].id <= MaxLines
        /\ cart' = [cart EXCEPT ![b] = row]
    BY <2>0, <2>1, <2>2, <2>3 DEF Baskets
  <2> HIDE DEF b
  <2> QED BY <2>0, <2>2, <2>4, LineWritten
<1>2. CASE ClearCart(k)
  <2>1. PICK b \in Buyers : cart' = [cart EXCEPT ![b] = [p \in Products |-> NoLine]]
    BY <1>2 DEF ClearCart
  <2>2. NoLine \in CartLine /\ NoLine.id <= MaxLines
    BY ShopAssumption DEF NoLine, CartLine
  <2>3. lastLine' \in 0 .. MaxLines /\ EndCartCall(k)
    BY <1>2 DEF ClearCart, Baskets
  <2>4. PICK row : row = [p \in Products |-> NoLine]
    OBVIOUS
  <2>5. row \in [Products -> CartLine] /\ \A p \in Products : row[p].id <= MaxLines
    BY <2>2, <2>4
  <2> QED BY <2>1, <2>3, <2>4, <2>5, LineWritten
<1> QED BY <1>1, <1>2

\* Every step of a cart.
LEMMA FillingKeeps ==
  ASSUME ShopInv, Filling
  PROVE  ShopInv'
<1> USE DEF ShopInv
<1>1. PICK k \in CartCalls : CartStep(k)
  BY DEF Filling
<1>2. UNCHANGED <<hagglingVars, checkouts, faults, shelf, parcelCalls, product, adminActions,
                  payments, orders, notifications, announced, provided>>
  BY <1>1 DEF Filling, CartStep, ReadCart, WriteCart, ClearCart, checkoutVars, shopStoreVars,
              basketElsewhere
<1>3. Baskets'
  BY <1>1, CartReads, CartWrites DEF CartStep, Goods
<1>4. Goods' /\ Bargains' /\ Errands' /\ Listed' /\ Conserved'
  BY <1>2, GoodsStand, BargainsStand, ErrandsStand, ListedStands, ConservedStands
<1>5. Sales' /\ Ledger' /\ LotsApart'
  BY <1>2, SalesStand, LedgerStands, LotsStand DEF hagglingVars
<1>6. Told'
  BY <1>2 DEF Told
<1> QED BY <1>3, <1>4, <1>5, <1>6

-----------------------------------------------------------------------------
(***************************************************************************)
(* Offers                                                                  *)
(***************************************************************************)

\* A number rounded is a number.
LEMMA RoundedIsNumber ==
  ASSUME NEW n \in Nat, NEW d \in Nat \ {0}
  PROVE  Rounded(n, d) \in Nat
<1>1. PICK a \in Nat, b \in Nat : a = 2 * n + d /\ b = 2 * d /\ b > 0
  OBVIOUS
<1>2. a \div b \in Nat
  BY <1>1
<1> QED BY <1>1, <1>2 DEF Rounded

\* What the server decides: an offer below the price is accepted for its counter.
LEMMA Decided ==
  ASSUME NEW amount \in Nat, NEW quantity \in Nat, NEW row \in Product,
         row.negotiationFloor # Null, NEW counter
  PROVE  LET r == decide(amount, quantity, row, counter)
         IN  /\ r.decision \in {"ACCEPTED", "REJECTED", "COUNTERED"}
             /\ r.counterAmount \in Nat \cup {Null}
             /\ r.decision = "ACCEPTED" /\ amount < row.price => meetsCounter(amount, counter)
             /\ r.decision = "COUNTERED" => r.counterAmount \in Nat
<1>1. row.price \in Nat /\ row.stockQty \in Nat /\ row.negotiationFloor \in Nat
  BY DEF Product
<1>2. Rounded(amount + row.price, 2) \in Nat
  BY <1>1, RoundedIsNumber
<1> DEFINE low == quantity > row.stockQty \/ amount < row.negotiationFloor
           meets == amount >= row.price \/ meetsCounter(amount, counter)
<1>3. decide(amount, quantity, row, counter) =
        IF low THEN [decision |-> "REJECTED", counterAmount |-> Null]
        ELSE IF meets THEN [decision |-> "ACCEPTED", counterAmount |-> Null]
        ELSE [decision |-> "COUNTERED", counterAmount |-> Rounded(amount + row.price, 2)]
  BY DEF decide
<1>4. meets /\ amount < row.price => meetsCounter(amount, counter)
  BY <1>1
<1> HIDE DEF low, meets
<1> QED BY <1>2, <1>3, <1>4

\* A counter that is met was made to this buyer on this listing, in the window.
LEMMA CountersWereMade ==
  ASSUME Bargains, NEW b, NEW p, NEW amount, meetsCounter(amount, findOutstandingCounter(b, p))
  PROVE  \E m \in DOMAIN offers :
           /\ offers[m].buyerId = b /\ offers[m].productId = p
           /\ offers[m].decision = "COUNTERED" /\ offers[m].counterAmount <= amount
           /\ offers[m].createdAt > now - ATTEMPT_WINDOW_MS
<1> DEFINE S == {n \in recentOffers(b, p) : offers[n].decision = "COUNTERED"}
<1>1. S # {} /\ amount >= offers[Max(S)].counterAmount
  BY DEF meetsCounter, findOutstandingCounter
<1>2. S \subseteq 0 .. Len(offers) /\ Len(offers) \in Nat
  BY LenProperties DEF recentOffers, Bargains
<1>3. Max(S) \in S
  <2> HIDE DEF S
  <2> QED BY <1>1, <1>2, MaxIsIn
<1>4. PICK m \in S : m = Max(S)
  BY <1>3
<1> QED BY <1>1, <1>4 DEF recentOffers

\* What backs an offer stays while offers are only added.
LEMMA BackedStays ==
  ASSUME NEW x, Backed(x), DOMAIN offers \subseteq DOMAIN offers',
         \A n \in DOMAIN offers : offers'[n] = offers[n]
  PROVE  Backed(x)'
BY DEF Backed, Countered

\* An offer call's new state.
LEMMA OfferCallMoves ==
  ASSUME Bargains, NEW k \in OfferCalls, NEW c \in OfferCall, OfferCallOK(c),
         offerCalls' = [offerCalls EXCEPT ![k] = c], DOMAIN offers \subseteq DOMAIN offers',
         \A n \in DOMAIN offers : offers'[n] = offers[n],
         now' \in Nat, offers' \in Seq(Offer), DiscountsWereOffered'
  PROVE  Bargains'
<1>1. offerCalls' \in [OfferCalls -> OfferCall]
  BY DEF Bargains
<1>2. \A j \in OfferCalls : offerCalls'[j] = IF j = k THEN c ELSE offerCalls[j]
  BY DEF Bargains
<1>3. ASSUME NEW x, OfferCallOK(x) PROVE OfferCallOK(x)'
  BY <1>3, BackedStays DEF OfferCallOK
<1>4. ASSUME NEW j \in OfferCalls PROVE OfferCallOK(offerCalls[j])'
  <2>1. PICK y : y = offerCalls'[j]
    OBVIOUS
  <2>2. OfferCallOK(y)
    BY <1>2, <2>1 DEF Bargains
  <2>3. OfferCallOK(y)'
    BY <1>3, <2>2
  <2> QED BY <2>1, <2>3 DEF OfferCallOK, Backed
<1> QED BY <1>1, <1>4 DEF Bargains

\* The read of the listing.
LEMMA OfferReads ==
  ASSUME Bargains, product \in [Products -> Product], NEW k \in OfferCalls, ReadListing(k)
  PROVE  Bargains'
<1>0. UNCHANGED <<now, offers>> /\ now \in Nat /\ offers \in Seq(Offer) /\ DiscountsWereOffered'
  BY DEF ReadListing, Bargains, DiscountsWereOffered
<1>1. CASE UNCHANGED offerCalls
  BY <1>0, <1>1, BargainsStand DEF hagglingVars
<1>2. CASE offerCalls' # offerCalls
  <2>1. PICK b \in Buyers, p \in Products, bid \in Bids :
          /\ product[p].negotiationFloor # Null
          /\ offerCalls' = [offerCalls EXCEPT
               ![k] = [pc |-> "offers", buyerId |-> b, productId |-> p, bid |-> bid,
                       row |-> product[p], offer |-> Null]]
    BY <1>2 DEF ReadListing
  <2> DEFINE c == [pc |-> "offers", buyerId |-> b, productId |-> p, bid |-> bid,
                   row |-> product[p], offer |-> Null]
  <2>2. c \in OfferCall /\ OfferCallOK(c)
    BY <2>1 DEF OfferCall, OfferCallOK
  <2>3. offerCalls' = [offerCalls EXCEPT ![k] = c]
    BY <2>1
  <2> HIDE DEF c
  <2>4. now' \in Nat /\ offers' \in Seq(Offer)
    BY <1>0
  <2> QED BY <1>0, <2>2, <2>3, <2>4, OfferCallMoves
<1> QED BY <1>1, <1>2

\* The decision: an offer below the price is accepted on a counter that was read.
LEMMA OfferDecided ==
  ASSUME Bargains, NEW k \in OfferCalls, ReadOffers(k)
  PROVE  Bargains'
<1>0. UNCHANGED <<now, offers>> /\ now \in Nat /\ now' \in Nat /\ offers' \in Seq(Offer) /\ DiscountsWereOffered'
  BY DEF ReadOffers, Bargains, DiscountsWereOffered
<1> DEFINE b == offerCalls[k].buyerId
           p == offerCalls[k].productId
           bid == offerCalls[k].bid
           row == offerCalls[k].row
           counter == findOutstandingCounter(b, p)
           r == decide(bid.amount, bid.quantity, row, counter)
           x == [buyerId |-> b, productId |-> p, quantity |-> bid.quantity,
                 offerAmount |-> bid.amount, decision |-> r.decision,
                 counterAmount |-> r.counterAmount, createdAt |-> 0,
                 expiresAt |-> IF r.decision = "ACCEPTED" THEN now + ACCEPT_TTL ELSE 0,
                 asked |-> row.price, decidedAt |-> now]
           c == [IdleOfferCall EXCEPT !.pc = "insert", !.offer = x]
           d == [IdleOfferCall EXCEPT !.pc = "done"]
<1>1. offerCalls' = [offerCalls EXCEPT ![k] = c] \/ offerCalls' = [offerCalls EXCEPT ![k] = d]
  BY DEF ReadOffers, EndOfferCall
<1>2. /\ b \in Buyers /\ p \in Products /\ bid \in Bids /\ row \in Product
      /\ row.negotiationFloor # Null
  BY DEF ReadOffers, Bargains, OfferCallOK
<1>3. bid.amount \in Nat /\ bid.quantity \in Nat /\ row.price \in Nat
      /\ now + ACCEPT_TTL \in Nat /\ b \in Users
  <2> HIDE DEF b, bid, row
  <2>1. bid.amount \in Nat /\ bid.quantity \in Nat /\ ACCEPT_TTL \in Nat
    BY <1>2, HagglingAssumption
  <2>2. row.price \in Nat /\ b \in Users
    BY <1>2, ShopAssumption DEF Product
  <2> QED BY <1>0, <2>1, <2>2
<1>4. /\ r.decision \in {"ACCEPTED", "REJECTED", "COUNTERED"}
      /\ r.counterAmount \in Nat \cup {Null}
      /\ r.decision = "ACCEPTED" /\ bid.amount < row.price => meetsCounter(bid.amount, counter)
  <2> HIDE DEF b, p, bid, row, counter
  <2> QED BY <1>2, <1>3, Decided
<1>5. /\ x \in Offer /\ x.buyerId = b /\ x.productId = p /\ x.decision = r.decision
      /\ x.offerAmount = bid.amount /\ x.asked = row.price /\ x.decidedAt = now
  <2> HIDE DEF b, p, bid, row, r
  <2> QED BY <1>0, <1>2, <1>3, <1>4 DEF Offer
<1>6. meetsCounter(bid.amount, counter) =>
        \E m \in DOMAIN offers :
          /\ offers[m].buyerId = b /\ offers[m].productId = p
          /\ offers[m].decision = "COUNTERED" /\ offers[m].counterAmount <= bid.amount
          /\ offers[m].createdAt > now - ATTEMPT_WINDOW_MS
  <2> HIDE DEF b, p, bid
  <2> QED BY CountersWereMade
<1> HIDE DEF b, p, bid, row, counter, r, x
<1>7. Backed(x)
  BY <1>4, <1>5, <1>6 DEF Backed, Countered
<1>8. c \in OfferCall /\ OfferCallOK(c) /\ d \in OfferCall /\ OfferCallOK(d)
  BY <1>5, <1>7 DEF OfferCall, OfferCallOK, IdleOfferCall
<1> HIDE DEF c, d
<1> QED BY <1>0, <1>1, <1>8, OfferCallMoves

\* A new offer is the last; the others stand, and so do the sessions that spent one.
LEMMA OfferAdded ==
  ASSUME Bargains, Sales, NEW x \in Offer, offers' = Append(offers, x)
  PROVE  /\ offers' \in Seq(Offer) /\ Len(offers) \in Nat /\ Len(offers') = Len(offers) + 1
         /\ DOMAIN offers = 1 .. Len(offers) /\ DOMAIN offers' = 1 .. Len(offers) + 1
         /\ \A n \in DOMAIN offers : offers'[n] = offers[n]
         /\ offers'[Len(offers) + 1] = x
         /\ UNCHANGED <<checkouts, faults>> => Sales'
<1>1. /\ offers' \in Seq(Offer) /\ Len(offers) \in Nat /\ Len(offers') = Len(offers) + 1
      /\ DOMAIN offers = 1 .. Len(offers) /\ DOMAIN offers' = 1 .. Len(offers) + 1
      /\ \A n \in DOMAIN offers : offers'[n] = offers[n]
      /\ offers'[Len(offers) + 1] = x
  BY LenProperties, AppendProperties DEF Bargains
<1>2. ASSUME UNCHANGED <<checkouts, faults>> PROVE Sales'
  <2>1. \A n \in DOMAIN offers : OfferLine(n)' = OfferLine(n)
    BY <1>1 DEF OfferLine
  <2>2. DOMAIN offers \subseteq DOMAIN offers'
    BY <1>1
  <2>3. ASSUME NEW k \in Sessions PROVE CheckoutOK(checkouts[k])'
    <3>1. CheckoutOK(checkouts[k]) /\ checkouts'[k] = checkouts[k]
      BY <1>2 DEF Sales
    <3>2. SpentOK(checkouts[k])'
      BY <1>1, <2>1, <2>2, <3>1 DEF CheckoutOK, SpentOK
    <3> QED BY <3>1, <3>2 DEF CheckoutOK
  <2> QED BY <1>2, <2>3 DEF Sales
<1> QED BY <1>1, <1>2

\* The insertion of an offer.
LEMMA OfferInserted ==
  ASSUME Bargains, Sales, UNCHANGED <<checkouts, faults>>, NEW k \in OfferCalls, InsertOffer(k)
  PROVE  Bargains' /\ Sales'
<1> DEFINE d == [IdleOfferCall EXCEPT !.pc = "done"]
<1>1. d \in OfferCall /\ OfferCallOK(d)
  BY DEF OfferCall, OfferCallOK, IdleOfferCall
<1>2. offerCalls' = [offerCalls EXCEPT ![k] = d] /\ now' \in Nat /\ now \in Nat
  BY DEF InsertOffer, EndOfferCall, Bargains
<1> HIDE DEF d
<1>3. PICK y : y = offerCalls[k].offer
  OBVIOUS
<1>4. y \in Offer /\ Backed(y)
  BY <1>3 DEF InsertOffer, Bargains, OfferCallOK
<1>5. PICK x : x = [y EXCEPT !.createdAt = now]
  OBVIOUS
<1>6. /\ x \in Offer /\ x.buyerId = y.buyerId /\ x.productId = y.productId
      /\ x.offerAmount = y.offerAmount /\ x.decision = y.decision /\ x.asked = y.asked
      /\ x.decidedAt = y.decidedAt
  BY <1>2, <1>4, <1>5 DEF Offer
<1>7. offers' = Append(offers, x)
  BY <1>3, <1>5 DEF InsertOffer
<1>8. /\ offers' \in Seq(Offer) /\ Len(offers) \in Nat
      /\ DOMAIN offers = 1 .. Len(offers) /\ DOMAIN offers' = 1 .. Len(offers) + 1
      /\ \A n \in DOMAIN offers : offers'[n] = offers[n]
      /\ offers'[Len(offers) + 1] = x
      /\ Sales'
  BY <1>6, <1>7, OfferAdded
<1>9. DiscountsWereOffered'
  <2> SUFFICES ASSUME NEW n \in DOMAIN offers', offers'[n].decision = "ACCEPTED",
                      offers'[n].offerAmount < offers'[n].asked
               PROVE  \E m \in 1 .. n - 1 : Countered(offers'[n], offers'[m])
    BY DEF DiscountsWereOffered, Countered
  <2>1. CASE n = Len(offers) + 1
    <3>1. offers'[n] = x
      BY <1>8, <2>1
    <3>2. PICK m \in DOMAIN offers : Countered(y, offers[m])
      BY <1>4, <1>6, <3>1 DEF Backed
    <3>3. m \in 1 .. n - 1 /\ offers'[m] = offers[m]
      BY <1>8, <2>1
    <3> QED BY <1>6, <3>1, <3>2, <3>3 DEF Countered
  <2>2. CASE n # Len(offers) + 1
    <3>1. n \in DOMAIN offers /\ offers'[n] = offers[n]
      BY <1>8, <2>2
    <3>2. PICK m \in 1 .. n - 1 : Countered(offers[n], offers[m])
      BY <3>1 DEF Bargains, DiscountsWereOffered
    <3>3. m \in DOMAIN offers /\ offers'[m] = offers[m]
      BY <1>8, <3>1
    <3> QED BY <3>1, <3>2, <3>3
  <2> QED BY <2>1, <2>2
<1>10. DOMAIN offers \subseteq DOMAIN offers'
  BY <1>8
<1> QED BY <1>1, <1>2, <1>8, <1>9, <1>10, OfferCallMoves

\* Every step of an offer, and the clock.
LEMMA OfferingKeeps ==
  ASSUME ShopInv, Offering
  PROVE  ShopInv'
<1> USE DEF ShopInv
<1>1. UNCHANGED <<checkouts, faults, shelf, cartCalls, parcelCalls, product, adminActions, cart,
                  lastLine, payments, orders, notifications, announced, provided>>
  BY DEF Offering, OfferStep, ReadListing, ReadOffers, InsertOffer, EndOfferCall, TickOffers,
         checkoutVars, shopStoreVars
<1>2. Bargains' /\ Sales'
  <2>1. CASE \E k \in OfferCalls : OfferStep(k)
    <3>1. PICK k \in OfferCalls : OfferStep(k)
      BY <2>1
    <3>2. CASE ReadListing(k)
      BY <1>1, <3>2, OfferReads, SalesStand DEF ReadListing, Goods
    <3>3. CASE ReadOffers(k)
      BY <1>1, <3>3, OfferDecided, SalesStand DEF ReadOffers
    <3>4. CASE InsertOffer(k)
      BY <1>1, <3>4, OfferInserted
    <3> QED BY <3>1, <3>2, <3>3, <3>4 DEF OfferStep
  <2>2. CASE TickOffers
    <3>1. now' \in Nat /\ UNCHANGED <<offers, offerCalls>>
      BY <2>2 DEF TickOffers, Bargains
    <3> QED BY <1>1, <3>1, SalesStand DEF Bargains, DiscountsWereOffered, OfferCallOK, Backed
  <2> QED BY <2>1, <2>2 DEF Offering
<1>3. Goods' /\ Baskets' /\ Errands' /\ Listed' /\ Conserved'
  BY <1>1, GoodsStand, BasketsStand, ErrandsStand, ListedStands, ConservedStands
<1>4. Ledger' /\ LotsApart'
  BY <1>1, LedgerStands, LotsStand
<1>5. Told'
  BY <1>1 DEF Told
<1> QED BY <1>2, <1>3, <1>4, <1>5

-----------------------------------------------------------------------------
(***************************************************************************)
(* Pricing                                                                 *)
(***************************************************************************)

\* The price of a listing, discounted or not, is a number.
LEMMA PriceIsNumber ==
  ASSUME NEW row \in Product, NEW n \in Nat
  PROVE  effectiveUnitPrice(row, n) \in Nat
<1>1. row.price \in Nat
  BY DEF Product
<1>2. CASE row.minQty # Null /\ row.percent # Null /\ n >= row.minQty
  <2>1. row.percent \in Percentage
    BY <1>2 DEF Product
  <2>0. Whole \in Nat \ {0}
    BY DEF Whole
  <2>2. PICK c \in Nat : c = Whole - row.percent
    BY <2>0, <2>1 DEF Percentage
  <2>3. row.price * c \in Nat
    BY <1>1
  <2>4. Rounded(row.price * c, Whole) \in Nat
    BY <2>0, <2>3, RoundedIsNumber
  <2> QED BY <1>2, <2>2, <2>4 DEF effectiveUnitPrice
<1>3. CASE ~(row.minQty # Null /\ row.percent # Null /\ n >= row.minQty)
  BY <1>1, <1>3 DEF effectiveUnitPrice
<1> QED BY <1>2, <1>3

\* The lines of a cart are one per listing, each at its price.
LEMMA CartLinesOK ==
  ASSUME Goods, Baskets, NEW b \in Buyers, NEW ids
  PROVE  CartLines(b, ids) \subseteq PricedLine /\ LinesOK(b, CartLines(b, ids))
<1> DEFINE P == {q \in Lines(b) : ids = {} \/ cart[b][q].id \in ids}
           L == CartLines(b, ids)
<1>1. P \subseteq Products /\ IsFiniteSet(P)
  BY ShopAssumption, FS_Subset DEF Lines
<1>2. ASSUME NEW p \in P
      PROVE  LET l == CartPricedLine(b, p)
             IN  /\ l \in PricedLine /\ l.productId = p /\ l.auctionId = Null
                 /\ l.subtotal = l.unitPrice * l.quantity
  <2>1. p \in Products /\ p # Null /\ SellerOf[p] \in Users
    BY <1>1, ShopAssumption
  <2>2. product[p] \in Product /\ cart[b][p].id \in Nat /\ cart[b][p].quantity \in Nat
    BY <2>1 DEF Goods, Baskets, CartLine
  <2>3. PICK u \in Nat, n \in Nat : u = effectiveUnitPrice(product[p], cart[b][p].quantity)
                                    /\ n = cart[b][p].quantity
    BY <2>2, PriceIsNumber
  <2>4. u * n \in Nat
    OBVIOUS
  <2>5. CartPricedLine(b, p) = [lineId |-> cart[b][p].id, productId |-> p, auctionId |-> Null,
                                sellerId |-> SellerOf[p], quantity |-> n, unitPrice |-> u,
                                subtotal |-> u * n]
    BY <2>3 DEF CartPricedLine, calculateLineTotal
  <2> QED BY <2>1, <2>2, <2>4, <2>5 DEF PricedLine
<1>3. L = {CartPricedLine(b, p) : p \in P}
  BY DEF CartLines
<1> HIDE DEF P, L
<1>4. L \subseteq PricedLine
  BY <1>2, <1>3
<1>5. IsFiniteSet(L)
  <2>1. [p \in P |-> CartPricedLine(b, p)] \in Surjection(P, L)
    BY <1>3 DEF Surjection
  <2> QED BY <1>1, <2>1, FS_Surjection
<1>6. \A l \in L : /\ l.subtotal = l.unitPrice * l.quantity
                   /\ l.productId # Null /\ l.auctionId = Null
                   /\ \A m \in L : m.productId = l.productId => m = l
  BY <1>1, <1>2, <1>3, ShopAssumption
<1> QED BY <1>4, <1>5, <1>6 DEF LinesOK, L

\* A lot that may be paid for is one line, its winner's.
LEMMA LotLineOK ==
  ASSUME NEW b \in Buyers, NEW l \in Lots, LotRefusal(b, l) = "OK"
  PROVE  {LotLine(l)} \subseteq PricedLine /\ LinesOK(b, {LotLine(l)})
<1>1. Lot[l] \in LotRow /\ Lot[l].winnerUserId = b /\ Lot[l].soldPrice # Null
  BY ShopAssumption DEF LotRefusal
<1>2. Lot[l].sellerId \in Users /\ Lot[l].soldPrice \in Nat
  BY <1>1 DEF LotRow
<1>3. PICK x : x = LotLine(l)
  OBVIOUS
<1>4. /\ x \in PricedLine /\ x.productId = Null /\ x.auctionId = l
      /\ x.subtotal = x.unitPrice * x.quantity
  BY <1>2, <1>3, ShopAssumption DEF LotLine, PricedLine
<1>5. IsFiniteSet({x})
  BY FS_Singleton
<1> QED BY <1>1, <1>3, <1>4, <1>5 DEF LinesOK

\* An offer is one line, at the price agreed.
LEMMA OfferLineOK ==
  ASSUME Bargains, NEW b \in Buyers, NEW n \in DOMAIN offers
  PROVE  {OfferLine(n)} \subseteq PricedLine /\ LinesOK(b, {OfferLine(n)})
<1>1. offers[n] \in Offer
  BY ElementOfSeq, LenProperties DEF Bargains
<1>2. PICK p \in Products, q \in Nat, a \in Nat :
        p = offers[n].productId /\ q = offers[n].quantity /\ a = offers[n].offerAmount
  BY <1>1 DEF Offer
<1>3. PICK x : x = OfferLine(n)
  OBVIOUS
<1>4. SellerOf[p] \in Users /\ p # Null /\ a * q \in Nat
  BY ShopAssumption
<1>5. x = [lineId |-> 0, productId |-> p, auctionId |-> Null, sellerId |-> SellerOf[p],
           quantity |-> q, unitPrice |-> a, subtotal |-> a * q]
  BY <1>2, <1>3 DEF OfferLine
<1>6. /\ x \in PricedLine /\ x.productId # Null /\ x.auctionId = Null
      /\ x.subtotal = x.unitPrice * x.quantity
  BY <1>4, <1>5 DEF PricedLine
<1>7. IsFiniteSet({x})
  BY FS_Singleton
<1> QED BY <1>3, <1>6, <1>7 DEF LinesOK

\* A session's new state, with the offers as they are.
LEMMA SessionMoves ==
  ASSUME Sales, UNCHANGED offers, faults' \in 0 .. MaxFaults, NEW k \in Sessions,
         NEW c, CheckoutOK(c), c.offer = checkouts[k].offer,
         checkouts' = [checkouts EXCEPT ![k] = c]
  PROVE  Sales'
<1>1. c \in CheckoutRow
  BY DEF CheckoutOK
<1>2. \A j \in Sessions : checkouts'[j] = IF j = k THEN c ELSE checkouts[j]
  BY DEF Sales
<1>3. checkouts' \in [Sessions -> CheckoutRow]
  BY <1>1 DEF Sales
<1>4. ASSUME NEW j \in Sessions PROVE CheckoutOK(checkouts[j])'
  <2>1. PICK x : x = checkouts'[j]
    OBVIOUS
  <2>2. CheckoutOK(x)
    BY <1>2, <2>1 DEF Sales
  <2> QED BY <2>1, <2>2 DEF CheckoutOK, SpentOK, OfferLine
<1>5. \A i, j \in Sessions : checkouts'[i].offer = checkouts'[j].offer /\ checkouts'[j].offer # 0 => i = j
  BY <1>2 DEF Sales
<1> QED BY <1>3, <1>4, <1>5 DEF Sales

\* A session that has no order yet may move on; one that has keeps what they rest on.
LEMMA LedgerMoves ==
  ASSUME Ledger, LotsApart, checkouts \in [Sessions -> CheckoutRow],
         UNCHANGED <<orders, payments, notifications>>, NEW k \in Sessions, NEW c,
         checkouts' = [checkouts EXCEPT ![k] = c],
         checkouts[k].pc \in {"announce", "done", "dead"} =>
           /\ c.pc \in {"announce", "done", "dead"}
           /\ c.lines = checkouts[k].lines /\ c.buyerId = checkouts[k].buyerId,
         c.pc = "charged" => payments[k] = Taking(c.lines)
  PROVE  Ledger' /\ LotsApart'
<1>1. \A j \in Sessions : checkouts'[j] = IF j = k THEN c ELSE checkouts[j]
  OBVIOUS
<1>2. ASSUME NEW o \in OrderIds
      PROVE  /\ o[1] \in Sessions
             /\ checkouts'[o[1]].pc \in {"announce", "done", "dead"}
             /\ checkouts'[o[1]].lines = checkouts[o[1]].lines
             /\ checkouts'[o[1]].buyerId = checkouts[o[1]].buyerId
  BY <1>1 DEF Ledger, Grounded, OrderIds
<1>3. OrderIds' = OrderIds
  BY DEF OrderIds
<1>4. \A o \in OrderIds : Grounded(o)'
  BY <1>2, <1>3 DEF Ledger, Grounded
<1>5. \A o \in OrderIds : Walked(o)'
  BY <1>3 DEF Ledger, Walked
<1>6. \A j \in Sessions : checkouts'[j].pc = "charged" => payments'[j] = Taking(checkouts'[j].lines)
  BY <1>1 DEF Ledger
<1>7. LotsApart'
  BY <1>2, <1>3 DEF LotsApart
<1> QED BY <1>3, <1>4, <1>5, <1>6, <1>7 DEF Ledger

\* What pricing makes of a session: priced lines, or a refusal.
LEMMA PricedMoves ==
  ASSUME Sales, NEW k \in Sessions, checkouts[k].pc \in {"idle", "offer"},
         NEW b \in Buyers, NEW code \in Codes, NEW lines, Priced(k, b, code, lines),
         code = "OK" =>
           /\ lines \subseteq PricedLine /\ LinesOK(b, lines)
           /\ checkouts[k].offer # 0 => /\ lines = {OfferLine(checkouts[k].offer)}
                                        /\ b = offers[checkouts[k].offer].buyerId
  PROVE  \E c : /\ CheckoutOK(c) /\ c.offer = checkouts[k].offer /\ c.pc \in {"priced", "done"}
                /\ checkouts' = [checkouts EXCEPT ![k] = c]
<1>1. PICK x : x = checkouts[k]
  OBVIOUS
<1>2. x \in CheckoutRow /\ CheckoutOK(x) /\ x.lines = {} /\ x.pc \in {"idle", "offer"}
  BY <1>1 DEF Sales, CheckoutOK
<1>3. CASE code = "OK"
  <2>1. PICK ids : ids = {l.lineId : l \in lines} \ {0}
    OBVIOUS
  <2>2. ids \subseteq Nat
    BY <1>3, <2>1 DEF PricedLine
  <2>3. PICK c : c = [x EXCEPT !.pc = "priced", !.buyerId = b, !.lines = lines, !.ids = ids]
    OBVIOUS
  <2>4. c \in CheckoutRow /\ c.pc = "priced" /\ c.buyerId = b /\ c.lines = lines
        /\ c.offer = x.offer
    BY <1>2, <1>3, <2>2, <2>3 DEF CheckoutRow
  <2>5. checkouts' = [checkouts EXCEPT ![k] = c]
    BY <1>1, <1>3, <2>1, <2>3 DEF Priced
  <2>6. CheckoutOK(c)
    BY <1>1, <1>2, <1>3, <2>4 DEF CheckoutOK, SpentOK
  <2> QED BY <1>1, <2>4, <2>5, <2>6
<1>4. CASE code # "OK"
  <2>1. PICK c : c = [x EXCEPT !.pc = "done", !.buyerId = b, !.code = code]
    OBVIOUS
  <2>2. c \in CheckoutRow /\ c.pc = "done" /\ c.buyerId = b /\ c.lines = {} /\ c.offer = x.offer
    BY <1>2, <2>1 DEF CheckoutRow
  <2>3. checkouts' = [checkouts EXCEPT ![k] = c]
    BY <1>1, <1>4, <2>1 DEF Priced
  <2>4. LinesOK(b, {})
    BY FS_EmptySet DEF LinesOK
  <2>5. CheckoutOK(c)
    BY <1>2, <2>2, <2>4 DEF CheckoutOK, SpentOK
  <2> QED BY <1>1, <2>2, <2>3, <2>5
<1> QED BY <1>3, <1>4

-----------------------------------------------------------------------------
(***************************************************************************)
(* Sessions                                                                *)
(***************************************************************************)

\* A step of a session that writes nothing but its own progress.
LEMMA SessionStep ==
  ASSUME ShopInv, NEW k \in Sessions, NEW c, CheckoutOK(c), c.offer = checkouts[k].offer,
         checkouts' = [checkouts EXCEPT ![k] = c], faults' \in 0 .. MaxFaults,
         c.pc # "charged",
         checkouts[k].pc \in {"announce", "done", "dead"} =>
           /\ c.pc \in {"announce", "done", "dead"}
           /\ c.lines = checkouts[k].lines /\ c.buyerId = checkouts[k].buyerId,
         UNCHANGED <<hagglingVars, product, adminActions, cart, lastLine, payments, orders,
                     notifications, provided, shelf, cartCalls, parcelCalls>>,
         announced' \subseteq Message
  PROVE  ShopInv'
<1> USE DEF ShopInv
<1>1. Sales'
  BY SessionMoves DEF hagglingVars
<1>2. Ledger' /\ LotsApart'
  BY LedgerMoves DEF Sales
<1>3. Goods' /\ Baskets' /\ Bargains' /\ Listed' /\ Conserved' /\ Errands'
  BY GoodsStand, BasketsStand, BargainsStand, ListedStands, ConservedStands, ErrandsStand
<1>4. Told'
  BY DEF Told
<1> QED BY <1>1, <1>2, <1>3, <1>4

\* Pricing a cart, a lot or a spent offer.
LEMMA PricingKeeps ==
  ASSUME ShopInv, UNCHANGED <<shelf, cartCalls, parcelCalls>>, NEW k \in Sessions,
         \/ \E b \in Buyers : \E ids : PriceCart(k, b, ids)
         \/ \E b \in Buyers, l \in Lots : PriceAuction(k, b, l)
         \/ PriceOffer(k)
  PROVE  ShopInv'
<1> USE DEF ShopInv
<1>0. /\ checkouts[k].pc \in {"idle", "offer"} /\ faults' \in 0 .. MaxFaults
      /\ UNCHANGED <<hagglingVars, shopStoreVars>>
  BY DEF PriceCart, PriceAuction, PriceOffer, Sales
<1> DEFINE Quoted(b, code, lines) ==
        /\ Priced(k, b, code, lines)
        /\ code = "OK" =>
             /\ lines \subseteq PricedLine /\ LinesOK(b, lines)
             /\ checkouts[k].offer # 0 => /\ lines = {OfferLine(checkouts[k].offer)}
                                          /\ b = offers[checkouts[k].offer].buyerId
<1>1. \E b \in Buyers, code \in Codes : \E lines : Quoted(b, code, lines)
  <2>0. CheckoutOK(checkouts[k])
    BY DEF Sales
  <2>1. ASSUME NEW b \in Buyers, NEW ids, PriceCart(k, b, ids)
        PROVE  \E c \in Buyers, code \in Codes : \E lines : Quoted(c, code, lines)
    <3>1. CartRefusal(b, ids) \in Codes
      BY DEF CartRefusal, Codes, CheckoutErrorCode
    <3>2. checkouts[k].offer = 0 /\ Priced(k, b, CartRefusal(b, ids), CartLines(b, ids))
      BY <2>0, <2>1 DEF PriceCart, CheckoutOK
    <3>3. Quoted(b, CartRefusal(b, ids), CartLines(b, ids))
      BY <3>2, CartLinesOK
    <3> HIDE DEF Quoted
    <3> QED BY <3>1, <3>3
  <2>2. ASSUME NEW b \in Buyers, NEW l \in Lots, PriceAuction(k, b, l)
        PROVE  \E c \in Buyers, code \in Codes : \E lines : Quoted(c, code, lines)
    <3>1. LotRefusal(b, l) \in Codes
      BY DEF LotRefusal, Codes, CheckoutErrorCode
    <3>2. checkouts[k].offer = 0 /\ Priced(k, b, LotRefusal(b, l), {LotLine(l)})
      BY <2>0, <2>2 DEF PriceAuction, CheckoutOK
    <3>3. Quoted(b, LotRefusal(b, l), {LotLine(l)})
      BY <3>2, LotLineOK
    <3> HIDE DEF Quoted
    <3> QED BY <3>1, <3>3
  <2>3. ASSUME PriceOffer(k)
        PROVE  \E c \in Buyers, code \in Codes : \E lines : Quoted(c, code, lines)
    <3> DEFINE b == checkouts[k].buyerId
               n == checkouts[k].offer
    <3>1. b \in Buyers /\ n \in DOMAIN offers
      BY <2>0, <2>3 DEF PriceOffer, CheckoutOK, SpentOK
    <3>2. OfferRefusal(b, n) \in Codes /\ (OfferRefusal(b, n) = "OK" => offers[n].buyerId = b)
      BY DEF OfferRefusal, Codes, CheckoutErrorCode
    <3>3. Priced(k, b, OfferRefusal(b, n), {OfferLine(n)})
      BY <2>3 DEF PriceOffer
    <3> HIDE DEF b, n
    <3>4. {OfferLine(n)} \subseteq PricedLine /\ LinesOK(b, {OfferLine(n)})
      BY <3>1, OfferLineOK
    <3>5. Quoted(b, OfferRefusal(b, n), {OfferLine(n)})
      BY <3>2, <3>3, <3>4 DEF n
    <3> HIDE DEF Quoted
    <3> QED BY <3>1, <3>2, <3>5
  <2> HIDE DEF Quoted
  <2> QED BY <2>1, <2>2, <2>3
<1>2. PICK c : /\ CheckoutOK(c) /\ c.offer = checkouts[k].offer /\ c.pc \in {"priced", "done"}
               /\ checkouts' = [checkouts EXCEPT ![k] = c]
  BY <1>0, <1>1, PricedMoves
<1>3. announced' \subseteq Message
  BY <1>0 DEF Told, shopStoreVars
<1> QED BY <1>0, <1>2, <1>3, SessionStep DEF shopStoreVars

\* An offer is spent by the session that moves its expiry, or refused.
LEMMA SpendingKeeps ==
  ASSUME ShopInv, UNCHANGED <<shelf, cartCalls, parcelCalls>>, NEW k \in Sessions,
         NEW b \in Buyers, NEW n \in DOMAIN offers, SpendOffer(k, b, n)
  PROVE  ShopInv'
<1> USE DEF ShopInv
<1>1. PICK x : x = checkouts[k]
  OBVIOUS
<1>2. x \in CheckoutRow /\ CheckoutOK(x) /\ x.pc = "idle" /\ x.lines = {} /\ x.offer = 0
  BY <1>1 DEF SpendOffer, Sales, CheckoutOK
<1>3. LinesOK(b, {})
  BY FS_EmptySet DEF LinesOK
<1>4. UNCHANGED <<faults, now, offerCalls, product, adminActions, cart, lastLine, payments,
                  orders, notifications, announced, provided>> /\ faults' \in 0 .. MaxFaults
  BY DEF SpendOffer, shopStoreVars, Sales
<1>5. CASE UNCHANGED offers
  <2>1. checkouts' = [checkouts EXCEPT ![k].pc = "done", ![k].buyerId = b,
                                       ![k].code = "OFFER_UNUSABLE"]
    <3>1. ~verifyAndConsumeAcceptToken(n)
      <4> SUFFICES ASSUME verifyAndConsumeAcceptToken(n) PROVE FALSE
        OBVIOUS
      <4>1. offers[n].expiresAt > now /\ now \in Nat
        BY DEF verifyAndConsumeAcceptToken, Redeemable, Bargains
      <4>2. offers' = [offers EXCEPT ![n].expiresAt = 0] /\ offers[n] \in Offer
        BY ElementOfSeq, LenProperties DEF verifyAndConsumeAcceptToken, Bargains
      <4>3. offers'[n].expiresAt = 0
        BY <4>2 DEF Offer
      <4> QED BY <4>1, <4>3, <1>5
    <3> QED BY <3>1 DEF SpendOffer
  <2>2. PICK c : c = [x EXCEPT !.pc = "done", !.buyerId = b, !.code = "OFFER_UNUSABLE"]
    OBVIOUS
  <2>3. c \in CheckoutRow /\ c.pc = "done" /\ c.buyerId = b /\ c.lines = {} /\ c.offer = 0
    BY <1>2, <2>2 DEF CheckoutRow, Codes, CheckoutErrorCode
  <2>4. checkouts' = [checkouts EXCEPT ![k] = c]
    BY <1>1, <2>1, <2>2 DEF Sales
  <2>5. CheckoutOK(c)
    BY <1>3, <2>3 DEF CheckoutOK, SpentOK
  <2>6. announced' \subseteq Message
    BY <1>4 DEF Told
  <2> QED BY <1>1, <1>2, <1>4, <1>5, <2>3, <2>4, <2>5, <2>6, SessionStep DEF hagglingVars
<1>6. CASE offers' # offers
  <2>1. /\ offers[n].expiresAt > now /\ offers' = [offers EXCEPT ![n].expiresAt = 0]
        /\ checkouts' = [checkouts EXCEPT ![k].pc = "offer", ![k].buyerId = b, ![k].offer = n]
    BY <1>6 DEF SpendOffer, verifyAndConsumeAcceptToken, Redeemable
  <2>2. offers[n] \in Offer /\ n \in Nat \ {0} /\ offers[n].expiresAt # 0
    <3>1. offers[n] \in Offer /\ n \in Nat \ {0} /\ now \in Nat
      BY ElementOfSeq, LenProperties DEF Bargains
    <3>2. offers[n].expiresAt \in Nat
      BY <3>1 DEF Offer
    <3> QED BY <2>1, <3>1, <3>2
  <2>3. PICK r : r = [offers[n] EXCEPT !.expiresAt = 0]
    OBVIOUS
  <2>4. /\ r \in Offer /\ r.expiresAt = 0 /\ r.buyerId = offers[n].buyerId
        /\ r.productId = offers[n].productId /\ r.quantity = offers[n].quantity
        /\ r.offerAmount = offers[n].offerAmount /\ r.decision = offers[n].decision
        /\ r.asked = offers[n].asked /\ r.counterAmount = offers[n].counterAmount
        /\ r.createdAt = offers[n].createdAt /\ r.decidedAt = offers[n].decidedAt
    BY <2>2, <2>3 DEF Offer
  <2>5. offers' = [offers EXCEPT ![n] = r]
    BY <2>1, <2>3
  <2>6. /\ offers' \in Seq(Offer) /\ DOMAIN offers' = DOMAIN offers
        /\ \A m \in DOMAIN offers : offers'[m] = IF m = n THEN r ELSE offers[m]
    BY <2>4, <2>5, ExceptSeq, LenProperties DEF Bargains
  <2>7. PICK c : c = [x EXCEPT !.pc = "offer", !.buyerId = b, !.offer = n]
    OBVIOUS
  <2>8. c \in CheckoutRow /\ c.pc = "offer" /\ c.buyerId = b /\ c.lines = {} /\ c.offer = n
    BY <1>2, <2>2, <2>7 DEF CheckoutRow
  <2>9. /\ checkouts' = [checkouts EXCEPT ![k] = c]
        /\ \A j \in Sessions : checkouts'[j] = IF j = k THEN c ELSE checkouts[j]
    BY <1>1, <2>1, <2>7 DEF Sales
  <2>10. \A j \in Sessions : checkouts[j].offer # n
    BY <2>2 DEF Sales, CheckoutOK, SpentOK
  <2>11. Sales'
    <3>1. checkouts' \in [Sessions -> CheckoutRow]
      BY <2>8, <2>9 DEF Sales
    <3>2. CheckoutOK(c)'
      BY <1>3, <2>4, <2>6, <2>8 DEF CheckoutOK, SpentOK
    <3>3. ASSUME NEW j \in Sessions, j # k PROVE CheckoutOK(checkouts[j])'
      <4>1. PICK y : y = checkouts[j]
        OBVIOUS
      <4>2. CheckoutOK(y) /\ y.offer # n
        BY <2>10, <4>1 DEF Sales
      <4>3. y.offer # 0 => offers'[y.offer] = offers[y.offer] /\ OfferLine(y.offer)' = OfferLine(y.offer)
        BY <2>6, <4>2 DEF CheckoutOK, SpentOK, OfferLine
      <4>4. CheckoutOK(y)'
        BY <2>6, <4>2, <4>3 DEF CheckoutOK, SpentOK
      <4> QED BY <3>3, <4>1, <4>4, <2>9
    <3>4. ASSUME NEW j \in Sessions PROVE CheckoutOK(checkouts[j])'
      BY <2>9, <3>2, <3>3
    <3>5. \A i, j \in Sessions : checkouts'[i].offer = checkouts'[j].offer
                                 /\ checkouts'[j].offer # 0 => i = j
      BY <2>8, <2>9, <2>10 DEF Sales
    <3> QED BY <1>4, <3>1, <3>4, <3>5 DEF Sales
  <2>12. Bargains'
    <3>1. \A m \in DOMAIN offers :
            /\ offers'[m].buyerId = offers[m].buyerId /\ offers'[m].productId = offers[m].productId
            /\ offers'[m].offerAmount = offers[m].offerAmount
            /\ offers'[m].decision = offers[m].decision /\ offers'[m].asked = offers[m].asked
            /\ offers'[m].counterAmount = offers[m].counterAmount
            /\ offers'[m].createdAt = offers[m].createdAt /\ offers'[m].decidedAt = offers[m].decidedAt
      BY <2>4, <2>6
    <3>2. DiscountsWereOffered'
      <4>1. \A m \in DOMAIN offers : 1 .. m - 1 \subseteq DOMAIN offers
        BY LenProperties DEF Bargains
      <4> QED BY <2>6, <3>1, <4>1 DEF Bargains, DiscountsWereOffered, Countered
    <3>3. ASSUME NEW j \in OfferCalls PROVE OfferCallOK(offerCalls[j])'
      <4>1. PICK y : y = offerCalls[j]
        OBVIOUS
      <4>2. OfferCallOK(y)
        BY <4>1 DEF Bargains
      <4>3. Backed(y.offer) => Backed(y.offer)'
        BY <2>6, <3>1 DEF Backed, Countered
      <4> QED BY <1>4, <4>1, <4>2, <4>3 DEF OfferCallOK
    <3> QED BY <1>4, <2>6, <3>2, <3>3 DEF Bargains
  <2>13. Ledger' /\ LotsApart'
    BY <1>1, <1>2, <1>4, <2>8, <2>9, LedgerMoves DEF Sales
  <2>14. Goods' /\ Baskets' /\ Listed' /\ Conserved' /\ Errands'
    BY <1>4, GoodsStand, BasketsStand, ListedStands, ConservedStands, ErrandsStand
  <2>15. Told'
    BY <1>4 DEF Told
  <2> QED BY <2>11, <2>12, <2>13, <2>14, <2>15
<1> QED BY <1>5, <1>6

\* What a set of priced lines comes to.
LEMMA TotalIsNumber ==
  ASSUME NEW lines, lines \subseteq PricedLine, IsFiniteSet(lines)
  PROVE  Total(lines) \in Nat
<1> DEFINE F == [l \in lines |-> l.subtotal]
<1>1. \A l \in lines : F[l] \in Nat
  BY DEF PricedLine
<1>2. Total(lines) = SumFunctionOnSet(F, lines)
  BY DEF Total, SumFunction
<1> HIDE DEF F
<1> QED BY <1>1, <1>2, SumType

\* What is known of a session under way.
LEMMA SessionFacts ==
  ASSUME ShopInv, NEW k \in Sessions
  PROVE  /\ CheckoutOK(checkouts[k]) /\ checkouts[k] \in CheckoutRow
         /\ checkouts[k].lines \subseteq PricedLine /\ IsFiniteSet(checkouts[k].lines)
         /\ checkouts[k].pc \in {"priced", "charged", "announce"} => checkouts[k].buyerId \in Users
         /\ checkouts[k].pc \notin {"announce", "done", "dead"} =>
              \A o \in OrderIds : o[1] # k
<1>1. CheckoutOK(checkouts[k]) /\ checkouts[k] \in CheckoutRow
  BY DEF ShopInv, Sales
<1>2. checkouts[k].lines \subseteq PricedLine /\ IsFiniteSet(checkouts[k].lines)
  BY <1>1 DEF CheckoutOK, LinesOK, CheckoutRow
<1>3. checkouts[k].pc \in {"priced", "charged", "announce"} => checkouts[k].buyerId \in Users
  BY <1>1, ShopAssumption DEF CheckoutOK
<1>4. checkouts[k].pc \notin {"announce", "done", "dead"} => \A o \in OrderIds : o[1] # k
  BY DEF ShopInv, Ledger, Grounded
<1> QED BY <1>1, <1>2, <1>3, <1>4

\* The charge, before there is any order of the session.
LEMMA ChargingKeeps ==
  ASSUME ShopInv, UNCHANGED <<shelf, cartCalls, parcelCalls>>, NEW k \in Sessions,
         ChargeSession(k)
  PROVE  ShopInv'
<1> USE DEF ShopInv
<1>1. PICK x, t : x = checkouts[k] /\ t = Total(x.lines)
  OBVIOUS
<1>2. /\ x \in CheckoutRow /\ CheckoutOK(x) /\ x.pc = "priced" /\ t \in Nat
      /\ \A o \in OrderIds : o[1] # k
  <2>1. x.pc = "priced"
    BY <1>1 DEF ChargeSession
  <2>2. t \in Nat
    BY <1>1, SessionFacts, TotalIsNumber
  <2> QED BY <1>1, <2>1, <2>2, SessionFacts
<1>3. PICK r : r = charge(t)
  OBVIOUS
<1>4. r \in Charge /\ (r.status # "FAILED" => r = Taking(x.lines)) /\ r.status \in {"FAILED", "SUCCEEDED"}
  BY <1>1, <1>2, <1>3 DEF charge, Charge, Taking
<1>5. PICK c : c = IF r.status = "FAILED"
                   THEN [x EXCEPT !.pc = "done", !.code = "PAYMENT_DECLINED", !.sessionId = TRUE]
                   ELSE [x EXCEPT !.pc = "charged"]
  OBVIOUS
<1>6. /\ c \in CheckoutRow /\ c.lines = x.lines /\ c.buyerId = x.buyerId /\ c.offer = x.offer
      /\ c.pc = IF r.status = "FAILED" THEN "done" ELSE "charged"
  <2>1. CASE r.status = "FAILED"
    BY <1>2, <1>5, <2>1 DEF CheckoutRow, Codes, CheckoutErrorCode
  <2>2. CASE r.status # "FAILED"
    BY <1>2, <1>5, <2>2 DEF CheckoutRow
  <2> QED BY <2>1, <2>2
<1>7. /\ checkouts' = [checkouts EXCEPT ![k] = c] /\ payments' = [payments EXCEPT ![k] = r]
      /\ UNCHANGED <<product, adminActions, cart, lastLine, orders, notifications,
                     announced, provided, faults, hagglingVars>>
  BY <1>1, <1>3, <1>5 DEF ChargeSession
<1>8. CheckoutOK(c)
  BY <1>2, <1>6 DEF CheckoutOK, SpentOK
<1>9. Sales'
  BY <1>1, <1>6, <1>7, <1>8, SessionMoves DEF Sales, hagglingVars
<1>10. /\ \A j \in Sessions : checkouts'[j] = IF j = k THEN c ELSE checkouts[j]
       /\ \A j \in Sessions : payments'[j] = IF j = k THEN r ELSE payments[j]
  BY <1>7 DEF Sales, Ledger
<1>11. OrderIds' = OrderIds /\ \A o \in OrderIds : o[1] \in Sessions /\ o[1] # k
  BY <1>2, <1>7 DEF OrderIds
<1>12. Ledger'
  <2>1. payments' \in [Sessions -> Charge \cup {Null}]
    BY <1>4, <1>7 DEF Ledger
  <2>2. \A o \in OrderIds : Grounded(o)'
    BY <1>7, <1>10, <1>11 DEF Ledger, Grounded
  <2>3. \A o \in OrderIds : Walked(o)'
    BY <1>7, <1>11 DEF Ledger, Walked
  <2>4. \A j \in Sessions : checkouts'[j].pc = "charged" => payments'[j] = Taking(checkouts'[j].lines)
    BY <1>4, <1>6, <1>10 DEF Ledger
  <2> QED BY <1>7, <1>11, <2>1, <2>2, <2>3, <2>4 DEF Ledger
<1>13. LotsApart'
  BY <1>10, <1>11 DEF LotsApart
<1>14. Goods' /\ Baskets' /\ Bargains' /\ Listed' /\ Conserved' /\ Errands'
  BY <1>7, GoodsStand, BasketsStand, BargainsStand, ListedStands, ConservedStands, ErrandsStand
<1>15. Told'
  BY <1>7 DEF Told
<1> QED BY <1>9, <1>12, <1>13, <1>14, <1>15

\* Messages about a session's orders are messages.
LEMMA PlacedAreMessages ==
  ASSUME ShopInv, NEW k \in Sessions, checkouts[k].pc \in {"charged", "announce"}
  PROVE  /\ OrderPlaced(k) \subseteq Message
         /\ {Note("autoReply", checkouts[k].buyerId, <<k, s>>, Null) :
               s \in {l.sellerId : l \in ProductLines(k)}} \subseteq Message
<1>1. checkouts[k].buyerId \in Users /\ checkouts[k].lines \subseteq PricedLine
  BY SessionFacts
<1>2. \A l \in checkouts[k].lines : l.sellerId \in Users
  BY <1>1 DEF PricedLine
<1>3. \A s \in Users : /\ Note("ORDER_PLACED", checkouts[k].buyerId, <<k, s>>, Null) \in Message
                       /\ Note("ORDER_PLACED", s, <<k, s>>, Null) \in Message
                       /\ Note("autoReply", checkouts[k].buyerId, <<k, s>>, Null) \in Message
  BY <1>1 DEF Note, Message
<1>4. OrderPlaced(k) \subseteq Message
  <2> SUFFICES ASSUME NEW m \in OrderPlaced(k) PROVE m \in Message
    OBVIOUS
  <2>1. PICK s \in SellersOf(k) : m \in {Note("ORDER_PLACED", checkouts[k].buyerId, <<k, s>>, Null),
                                        Note("ORDER_PLACED", s, <<k, s>>, Null)}
    BY DEF OrderPlaced
  <2>2. s \in Users
    BY <1>2 DEF SellersOf
  <2> QED BY <1>3, <2>1, <2>2
<1>5. {l.sellerId : l \in ProductLines(k)} \subseteq Users
  BY <1>2 DEF ProductLines
<1> QED BY <1>3, <1>4, <1>5

\* Losing the race, announcing, and dying change the session alone.
LEMMA ClosingKeeps ==
  ASSUME ShopInv, UNCHANGED <<shelf, cartCalls, parcelCalls>>, NEW k \in Sessions,
         LoseOrders(k) \/ AnnounceOrders(k) \/ CrashCheckout(k)
  PROVE  ShopInv'
<1>1. PICK x : x = checkouts[k]
  OBVIOUS
<1>2. /\ x \in CheckoutRow /\ CheckoutOK(x)
      /\ x.pc \in {"offer", "priced", "charged", "announce"} /\ x.pc # "idle"
  BY <1>1, SessionFacts DEF LoseOrders, AnnounceOrders, CrashCheckout
<1>3. PICK c : /\ checkouts' = [checkouts EXCEPT ![k] = c] /\ c \in CheckoutRow
               /\ c.pc \in {"done", "dead"} /\ c.lines = x.lines /\ c.buyerId = x.buyerId
               /\ c.offer = x.offer
  <2>1. CASE LoseOrders(k)
    <3>1. PICK code \in {"AUCTION_ALREADY_PAID", "STOCK_LOST_AFTER_CHARGE"} :
            checkouts' = [checkouts EXCEPT ![k].pc = "done", ![k].sessionId = TRUE,
                                           ![k].code = code]
      BY <2>1 DEF LoseOrders
    <3>2. PICK c : c = [x EXCEPT !.pc = "done", !.sessionId = TRUE, !.code = code]
      OBVIOUS
    <3>3. c \in CheckoutRow /\ c.pc = "done" /\ c.lines = x.lines /\ c.buyerId = x.buyerId
          /\ c.offer = x.offer
      BY <1>2, <3>2 DEF CheckoutRow, Codes, CheckoutErrorCode
    <3>4. checkouts' = [checkouts EXCEPT ![k] = c]
      BY <1>1, <3>1, <3>2 DEF ShopInv, Sales
    <3> QED BY <3>3, <3>4
  <2>2. CASE AnnounceOrders(k)
    <3>1. PICK c : c = [x EXCEPT !.pc = "done", !.code = "OK"]
      OBVIOUS
    <3>2. c \in CheckoutRow /\ c.pc = "done" /\ c.lines = x.lines /\ c.buyerId = x.buyerId
          /\ c.offer = x.offer
      BY <1>2, <3>1 DEF CheckoutRow, Codes
    <3>3. checkouts' = [checkouts EXCEPT ![k] = c]
      BY <1>1, <2>2, <3>1 DEF AnnounceOrders, ShopInv, Sales
    <3> QED BY <3>2, <3>3
  <2>3. CASE CrashCheckout(k)
    <3>1. PICK c : c = [x EXCEPT !.pc = "dead"]
      OBVIOUS
    <3>2. c \in CheckoutRow /\ c.pc = "dead" /\ c.lines = x.lines /\ c.buyerId = x.buyerId
          /\ c.offer = x.offer
      BY <1>2, <3>1 DEF CheckoutRow
    <3>3. checkouts' = [checkouts EXCEPT ![k] = c]
      BY <1>1, <2>3, <3>1 DEF CrashCheckout, ShopInv, Sales
    <3> QED BY <3>2, <3>3
  <2> QED BY <2>1, <2>2, <2>3
<1>4. CheckoutOK(c)
  BY <1>2, <1>3 DEF CheckoutOK, SpentOK
<1>5. faults' \in 0 .. MaxFaults
  BY CheckoutAssumption DEF LoseOrders, AnnounceOrders, CrashCheckout, ShopInv, Sales
<1>6. announced' \subseteq Message
  <2>1. CASE AnnounceOrders(k)
    BY <2>1, PlacedAreMessages DEF AnnounceOrders, ShopInv, Told
  <2>2. CASE LoseOrders(k) \/ CrashCheckout(k)
    BY <2>2 DEF LoseOrders, CrashCheckout, shopStoreVars, ShopInv, Told
  <2> QED BY <2>1, <2>2
<1>7. UNCHANGED <<hagglingVars, product, adminActions, cart, lastLine, payments, orders,
                  notifications, provided>>
  BY DEF LoseOrders, AnnounceOrders, CrashCheckout, shopStoreVars
<1> QED BY <1>1, <1>3, <1>4, <1>5, <1>6, <1>7, SessionStep

-----------------------------------------------------------------------------
(***************************************************************************)
(* Writing orders                                                          *)
(***************************************************************************)

\* When a listing is at most one item, its units are that item's quantity.
LEMMA UnitsOfItem ==
  ASSUME NEW items, items \subseteq Item, NEW p,
         \A i, j \in items : i.productId = p /\ j.productId = p => i = j
  PROVE  /\ (\A i \in items : i.productId # p) => UnitsIn(items, p) = 0
         /\ \A i \in items : i.productId = p => UnitsIn(items, p) = i.quantity
<1> DEFINE S == {j \in items : j.productId = p}
           F == [i \in S |-> i.quantity]
<1>1. UnitsIn(items, p) = SumFunctionOnSet(F, S)
  BY DEF UnitsIn, SumFunction
<1>2. ASSUME \A i \in items : i.productId # p PROVE UnitsIn(items, p) = 0
  <2>1. S = {}
    BY <1>2
  <2> HIDE DEF F, S
  <2>2. SumFunctionOnSet(F, {}) = 0
    BY SumUnfolds, FS_EmptySet
  <2> QED BY <1>1, <2>1, <2>2
<1>3. ASSUME NEW i \in items, i.productId = p PROVE UnitsIn(items, p) = i.quantity
  <2>1. S = {i} /\ F[i] = i.quantity /\ i.quantity \in Nat
    BY <1>3 DEF Item
  <2> HIDE DEF F, S
  <2>3. F[i] \in Int
    BY <2>1
  <2>2. SumFunctionOnSet(F, {i}) = F[i]
    BY <2>3, SumOfOne
  <2> QED BY <1>1, <2>1, <2>2
<1> QED BY <1>2, <1>3

\* The items of a share: typed, and one per listing.
LEMMA ItemsOfShare ==
  ASSUME NEW b, NEW lines, lines \subseteq PricedLine, LinesOK(b, lines), NEW s
  PROVE  LET items == ItemsOf(Share(lines, s))
         IN  /\ items \subseteq Item
             /\ \A i, j \in items : i.productId = j.productId /\ i.productId # Null => i = j
<1>1. \A l \in lines : ItemOf(l) \in Item /\ ItemOf(l).productId = l.productId
  BY DEF ItemOf, Item, PricedLine
<1>2. \A l, m \in lines : l.productId = m.productId /\ l.productId # Null => l = m
  BY DEF LinesOK
<1> QED BY <1>1, <1>2 DEF ItemsOf, Share

\* What orders hold, when some are added to those that stand.
LEMMA HeldGrows ==
  ASSUME ShopInv, NEW New, IsFiniteSet(New), New \cap OrderIds = {},
         OrderIds' = OrderIds \cup New, \A o \in OrderIds : orders'[o] = orders[o],
         \A o \in New : orders'[o].status # "CANCELLED",
         NEW p, NEW U, \A o \in New : U[o] = UnitsIn(orders'[o].items, p) /\ U[o] \in Nat
  PROVE  Held(p)' = Held(p) + SumFunctionOnSet(U, New) /\ SumFunctionOnSet(U, New) \in Nat
<1> DEFINE S == {q \in OrderIds : orders[q].status # "CANCELLED"}
           F == [o \in S |-> UnitsIn(orders[o].items, p)]
           G == [o \in S \cup New |-> UnitsIn(orders'[o].items, p)]
<1>1. IsFiniteSet(S) /\ S \cap New = {}
  BY OrdersAreFinite, FS_Subset DEF ShopInv
<1>2. Held(p) = SumFunctionOnSet(F, S)
  BY DEF Held, SumFunction
<1>3. Held(p)' = SumFunctionOnSet(G, S \cup New)
  <2>1. {q \in OrderIds' : orders'[q].status # "CANCELLED"} = S \cup New
    OBVIOUS
  <2>2. Held(p)' = SumFunction([o \in {q \in OrderIds' : orders'[q].status # "CANCELLED"} |->
                                  UnitsIn(orders'[o].items, p)])
    BY DEF Held
  <2> QED BY <2>1, <2>2 DEF SumFunction
<1>4. \A o \in S : F[o] = G[o] /\ F[o] \in Nat
  <2> SUFFICES ASSUME NEW o \in S PROVE F[o] = G[o] /\ F[o] \in Nat
    OBVIOUS
  <2>1. orders'[o] = orders[o]
    OBVIOUS
  <2>2. orders[o].items \subseteq Item /\ IsFiniteSet(orders[o].items)
    BY OrdersAreFinite DEF Order, ShopInv
  <2> QED BY <2>1, <2>2, UnitsAreNumbers
<1>5. \A o \in New : G[o] = U[o]
  OBVIOUS
<1> HIDE DEF F, G, S
<1>6. SumFunctionOnSet(G, S \cup New) = SumFunctionOnSet(G, S) + SumFunctionOnSet(G, New)
  BY <1>1, <1>4, <1>5, SumJoins
<1>7. SumFunctionOnSet(G, S) = SumFunctionOnSet(F, S)
  BY <1>1, <1>4, SumAgrees
<1>8. SumFunctionOnSet(G, New) = SumFunctionOnSet(U, New)
  BY <1>5, SumAgrees
<1>9. SumFunctionOnSet(U, New) \in Nat
  BY SumType
<1> QED BY <1>2, <1>3, <1>6, <1>7, <1>8, <1>9

\* An order of a session's share of lines.
LEMMA NewOrderIsOrder ==
  ASSUME ShopInv, NEW k \in Sessions, checkouts[k].pc = "charged", NEW s
  PROVE  LET n == NewOrder(k, s)
             share == Share(checkouts[k].lines, s)
         IN  /\ n \in Order /\ n.buyerId = checkouts[k].buyerId
             /\ n.subtotal = Total(share) /\ n.items = ItemsOf(share)
             /\ n.status = "PAID" /\ n.shipment = "PROCESSING" /\ n.tracking = FALSE
             /\ n.events = <<"PROCESSING">>
<1> DEFINE L == checkouts[k].lines
           share == Share(L, s)
<1>1. checkouts[k].buyerId \in Users /\ L \subseteq PricedLine /\ IsFiniteSet(L)
      /\ LinesOK(checkouts[k].buyerId, L)
  BY SessionFacts DEF CheckoutOK
<1>2. share \subseteq PricedLine /\ IsFiniteSet(share)
  BY <1>1, FS_Subset DEF Share
<1>3. PICK t \in Nat : t = Total(share)
  BY <1>2, TotalIsNumber
<1>4. PICK items : items = ItemsOf(share)
  OBVIOUS
<1>5. items \subseteq Item
  BY <1>1, <1>4, ItemsOfShare
<1>6. PICK n : n = NewOrder(k, s)
  OBVIOUS
<1>7. n = [buyerId |-> checkouts[k].buyerId, subtotal |-> t, items |-> items,
           status |-> "PAID", shipment |-> "PROCESSING", tracking |-> FALSE,
           events |-> <<"PROCESSING">>]
  BY <1>3, <1>4, <1>6 DEF NewOrder, Share, ItemsOf, ItemOf
<1>8. <<"PROCESSING">> \in Seq(ShipmentStatus) /\ "PROCESSING" \in ShipmentStatus
  BY DEF ShipmentStatus
<1>9. n \in Order
  BY <1>1, <1>5, <1>7, <1>8 DEF Order
<1> QED BY <1>3, <1>4, <1>6, <1>7, <1>9

\* What a transaction that writes orders does to orders.
LEMMA OrdersWritten ==
  ASSUME ShopInv, NEW k \in Sessions, WriteOrders(k)
  PROVE  LET New == {<<k, s>> : s \in SellersOf(k)}
         IN  /\ New \subseteq Sessions \X Users /\ IsFiniteSet(New)
             /\ New \cap OrderIds = {} /\ OrderIds' = OrderIds \cup New
             /\ \A o \in OrderIds : orders'[o] = orders[o] /\ o[1] # k
             /\ \A o \in New : o[1] = k /\ o[2] \in SellersOf(k) /\ orders'[o] = NewOrder(k, o[2])
             /\ orders' \in [Sessions \X Users -> Order \cup {Null}]
<1> DEFINE New == {<<k, s>> : s \in SellersOf(k)}
<1>0. checkouts[k].pc = "charged" /\ checkouts[k].lines \subseteq PricedLine
      /\ \A o \in OrderIds : o[1] # k
  BY SessionFacts DEF WriteOrders
<1>1. SellersOf(k) \subseteq Users
  BY <1>0 DEF SellersOf, PricedLine
<1>2. IsFiniteSet(New) /\ New \subseteq Sessions \X Users
  <2>1. IsFiniteSet(Sessions \X Users) /\ New \subseteq Sessions \X Users
    BY <1>1, ShopAssumption, FS_Product
  <2> QED BY <2>1, FS_Subset
<1>3. orders' = [o \in Sessions \X Users |->
                   IF o[1] = k /\ o[2] \in SellersOf(k) THEN NewOrder(k, o[2]) ELSE orders[o]]
  BY DEF WriteOrders
<1>4. \A o \in Sessions \X Users : o[1] = k /\ o[2] \in SellersOf(k) <=> o \in New
  OBVIOUS
<1>5. \A s \in SellersOf(k) : NewOrder(k, s) \in Order /\ NewOrder(k, s) # Null
  BY <1>0, NewOrderIsOrder, RowsAssumption
<1>6. orders' \in [Sessions \X Users -> Order \cup {Null}]
  BY <1>3, <1>5 DEF ShopInv, Ledger
<1>7. New \cap OrderIds = {}
  BY <1>0
<1>8. \A o \in New : o[1] = k /\ o[2] \in SellersOf(k) /\ orders'[o] = NewOrder(k, o[2])
  BY <1>2, <1>3
<1>9. \A o \in Sessions \X Users : o \notin New => orders'[o] = orders[o]
  BY <1>3, <1>4
<1> HIDE DEF New
<1>10. \A o \in OrderIds : orders'[o] = orders[o] /\ o[1] # k
  BY <1>0, <1>7, <1>9 DEF OrderIds
<1>11. OrderIds' = OrderIds \cup New
  <2>1. OrderIds' = {o \in Sessions \X Users : orders'[o] # Null}
    BY DEF OrderIds
  <2>2. \A o \in New : orders'[o] # Null
    BY <1>5, <1>8
  <2> QED BY <2>1, <2>2, <1>2, <1>9 DEF OrderIds
<1> QED BY <1>2, <1>6, <1>7, <1>8, <1>10, <1>11 DEF New

\* The transaction takes from the shelf what its orders hold.
LEMMA StockMoves ==
  ASSUME ShopInv, UNCHANGED <<shelf, cartCalls, parcelCalls>>, NEW k \in Sessions, WriteOrders(k)
  PROVE  Goods' /\ Listed' /\ Conserved'
<1> DEFINE L == checkouts[k].lines
           PL == ProductLines(k)
           New == {<<k, s>> : s \in SellersOf(k)}
           Line(p) == CHOOSE l \in PL : l.productId = p
<1>0. /\ checkouts[k].pc = "charged" /\ L \subseteq PricedLine /\ LinesOK(checkouts[k].buyerId, L)
      /\ UNCHANGED <<adminActions, provided>>
  BY SessionFacts DEF WriteOrders, CheckoutOK
<1>1. \A l \in PL : /\ l \in L /\ l.productId \in Products /\ l.quantity \in Nat /\ l.productId # Null
                    /\ StockGuard(l)
                    /\ \A m \in L : m.productId = l.productId => m = l
  BY <1>0 DEF WriteOrders, ProductLines, PricedLine, LinesOK
<1>2. \A l \in PL : Line(l.productId) = l
  <2> SUFFICES ASSUME NEW l \in PL PROVE Line(l.productId) = l
    OBVIOUS
  <2>1. Line(l.productId) \in PL /\ Line(l.productId).productId = l.productId
    OBVIOUS
  <2> HIDE DEF Line, L, PL
  <2> QED BY <1>1, <2>1
<1>3. product' = [p \in Products |-> IF \E l \in PL : l.productId = p
                                     THEN Decremented(product[p], Line(p).quantity)
                                     ELSE product[p]]
  BY DEF WriteOrders
<1> HIDE DEF Line, PL
<1>4. ASSUME NEW l \in PL
      PROVE  LET p == l.productId
             IN  /\ product'[p] = Decremented(product[p], l.quantity) /\ product'[p] \in Product
                 /\ product'[p].stockQty = product[p].stockQty - l.quantity
                 /\ product'[p].status # "NONE"
  <2>1. PICK p \in Products, q \in Nat : p = l.productId /\ q = l.quantity
    BY <1>1
  <2>2. product[p] \in Product /\ product[p].stockQty >= q /\ product[p].status = "ACTIVE"
    BY <1>1, <2>1 DEF StockGuard, ShopInv, Goods
  <2>3. product'[p] = Decremented(product[p], q)
    BY <1>2, <1>3, <2>1
  <2>4. PICK r : r = Decremented(product[p], q)
    OBVIOUS
  <2>5. product[p].stockQty - q \in Nat
    BY <2>2 DEF Product
  <2>6. r \in Product /\ r.stockQty = product[p].stockQty - q /\ r.status # "NONE"
    BY <2>2, <2>4, <2>5 DEF Decremented, Product, ProductStatus
  <2> QED BY <2>1, <2>3, <2>4, <2>6
<1>5. \A p \in Products : (\A l \in PL : l.productId # p) => product'[p] = product[p]
  BY <1>3
<1>6. /\ product' \in [Products -> Product]
      /\ \A p \in Products : product[p].status # "NONE" => product'[p].status # "NONE"
      /\ \A p \in Products : product'[p].status = "NONE" => product'[p].stockQty = 0
  <2>1. \A p \in Products : product'[p] \in Product
    BY <1>4, <1>5 DEF ShopInv, Goods
  <2>2. product' \in [Products -> Product]
    BY <1>3, <2>1
  <2>3. \A p \in Products : product[p].status # "NONE" => product'[p].status # "NONE"
    BY <1>4, <1>5
  <2>4. \A p \in Products : product'[p].status = "NONE" => product'[p].stockQty = 0
    BY <1>4, <1>5 DEF ShopInv, Goods
  <2> QED BY <2>2, <2>3, <2>4
<1>7. Goods'
  <2>1. \A j \in ShelfCalls : ShelfOK(j)'
    BY <1>6 DEF ShopInv, Goods, ShelfOK
  <2> QED BY <1>0, <1>6, <2>1 DEF ShopInv, Goods
<1>8. /\ New \cap OrderIds = {} /\ OrderIds' = OrderIds \cup New /\ IsFiniteSet(New)
      /\ \A o \in OrderIds : orders'[o] = orders[o]
      /\ \A o \in New : o[1] = k /\ o[2] \in SellersOf(k) /\ orders'[o] = NewOrder(k, o[2])
  BY OrdersWritten
<1>9. \A o \in New : orders'[o].items = ItemsOf(Share(L, o[2])) /\ orders'[o].status = "PAID"
  <2> SUFFICES ASSUME NEW o \in New
               PROVE  orders'[o].items = ItemsOf(Share(L, o[2])) /\ orders'[o].status = "PAID"
    OBVIOUS
  <2>1. PICK s : s = o[2] /\ orders'[o] = NewOrder(k, s)
    BY <1>8
  <2>2. NewOrder(k, s).items = ItemsOf(Share(L, s)) /\ NewOrder(k, s).status = "PAID"
    BY <1>0, NewOrderIsOrder
  <2> QED BY <2>1, <2>2
<1>10. Listed'
  <2> SUFFICES ASSUME NEW o \in OrderIds', NEW i \in orders'[o].items, i.productId # Null
               PROVE  product'[i.productId].status # "NONE"
    BY DEF Listed
  <2>1. CASE o \in OrderIds
    <3>1. i \in orders[o].items /\ orders[o] \in Order
      BY <2>1, <1>8 DEF ShopInv, Ledger, OrderIds
    <3>2. i.productId \in Products
      BY <3>1 DEF Order, Item
    <3> QED BY <2>1, <3>1, <3>2, <1>6 DEF ShopInv, Listed
  <2>2. CASE o \in New
    <3>1. PICK l \in L : i = ItemOf(l)
      BY <2>2, <1>9 DEF ItemsOf, Share
    <3>2. l \in PL /\ l.productId = i.productId
      BY <3>1 DEF PL, ProductLines, ItemOf
    <3> QED BY <3>2, <1>4
  <2> QED BY <2>1, <2>2, <1>8
<1>11. Conserved'
  <2> SUFFICES ASSUME NEW p \in Products PROVE product'[p].stockQty + Held(p)' = provided'[p]
    BY DEF Conserved
  <2> DEFINE U == [o \in New |-> UnitsIn(orders'[o].items, p)]
  <2>1. p # Null
    BY ShopAssumption
  <2>2. \A o \in New : /\ orders'[o].items \subseteq Item
                       /\ \A i, j \in orders'[o].items : i.productId = p /\ j.productId = p => i = j
    BY <1>0, <1>9, <2>1, ItemsOfShare
  <2>3. \A o \in New : /\ (\A i \in orders'[o].items : i.productId # p) => U[o] = 0
                       /\ \A i \in orders'[o].items : i.productId = p => U[o] = i.quantity
    BY <2>2, UnitsOfItem
  <2>4. \A o \in New : U[o] \in Nat
    <3> SUFFICES ASSUME NEW o \in New PROVE U[o] \in Nat
      OBVIOUS
    <3>1. CASE \A i \in orders'[o].items : i.productId # p
      <4> HIDE DEF U
      <4> QED BY <2>3, <3>1
    <3>2. ASSUME NEW i \in orders'[o].items, i.productId = p PROVE U[o] \in Nat
      <4>1. i.quantity \in Nat
        BY <2>2 DEF Item
      <4> HIDE DEF U
      <4> QED BY <2>3, <3>2, <4>1
    <3> QED BY <3>1, <3>2
  <2>5. Held(p)' = Held(p) + SumFunctionOnSet(U, New) /\ SumFunctionOnSet(U, New) \in Nat
    BY <1>8, <1>9, <2>4, HeldGrows
  <2>6. product[p].stockQty + Held(p) = provided[p] /\ Held(p) \in Nat /\ product[p].stockQty \in Nat
    BY HeldIsNumber DEF ShopInv, Conserved, Goods, Product
  <2> HIDE DEF U
  <2>7. CASE \A l \in PL : l.productId # p
    <3>1. \A o \in New : \A i \in orders'[o].items : i.productId # p
      BY <1>9, <2>1, <2>7 DEF ItemsOf, Share, ItemOf, PL, ProductLines
    <3>2. SumFunctionOnSet(U, New) = 0
      BY <1>8, <2>3, <3>1, SumType
    <3> QED BY <1>0, <1>5, <2>5, <2>6, <2>7, <3>2
  <2>8. ASSUME NEW l \in PL, l.productId = p PROVE product'[p].stockQty + Held(p)' = provided'[p]
    <3> DEFINE o == <<k, l.sellerId>>
    <3>1. o \in New /\ l \in L
      BY <2>8, <1>1 DEF SellersOf
    <3>2. U[o] = l.quantity
      <4>1. ItemOf(l) \in orders'[o].items /\ ItemOf(l).productId = p /\ ItemOf(l).quantity = l.quantity
        BY <1>9, <2>8, <3>1 DEF ItemsOf, Share, ItemOf
      <4> QED BY <2>3, <3>1, <4>1
    <3>3. ASSUME NEW n \in New \ {o} PROVE U[n] = 0
      <4> SUFFICES ASSUME NEW i \in orders'[n].items, i.productId = p PROVE FALSE
        BY <2>3
      <4>1. PICK m \in L : i = ItemOf(m) /\ m.sellerId = n[2]
        BY <1>9 DEF ItemsOf, Share
      <4>2. m = l
        BY <1>1, <2>8, <4>1 DEF ItemOf
      <4>3. n = o
        BY <4>1, <4>2
      <4> QED BY <4>3
    <3> HIDE DEF o, New
    <3>4. SumFunctionOnSet(U, New) = U[o] + SumFunctionOnSet(U, New \ {o})
      BY <1>8, <2>4, <3>1, SumTakes
    <3>5. SumFunctionOnSet(U, New \ {o}) = 0
      <4>1. IsFiniteSet(New \ {o})
        BY <1>8, FS_Subset
      <4> QED BY <3>3, <4>1, SumType
    <3>6. product'[p].stockQty = product[p].stockQty - l.quantity /\ l.quantity \in Nat
      BY <1>1, <1>4, <2>8
    <3> QED BY <1>0, <2>5, <2>6, <3>2, <3>4, <3>5, <3>6
  <2> QED BY <2>7, <2>8
<1> QED BY <1>7, <1>10, <1>11

\* A lot among what a session bought is a lot some order holds.
LEMMA LotIsHeld ==
  ASSUME Ledger, NEW o \in OrderIds, NEW l \in checkouts[o[1]].lines, l.auctionId # Null
  PROVE  l.auctionId \in PaidLots
<1>1. PICK q : q = <<o[1], l.sellerId>>
  OBVIOUS
<1>2. q \in OrderIds /\ q[1] = o[1] /\ q[2] = l.sellerId
  BY <1>1 DEF Ledger, Grounded
<1>3. orders[q].items = ItemsOf(Share(checkouts[o[1]].lines, l.sellerId))
  BY <1>2 DEF Ledger, Grounded
<1>4. ItemOf(l) \in orders[q].items /\ ItemOf(l).auctionId = l.auctionId
  BY <1>3 DEF ItemsOf, Share, ItemOf
<1> QED BY <1>2, <1>4 DEF PaidLots

\* The transaction that writes the orders of a paid session.
LEMMA WritingKeeps ==
  ASSUME ShopInv, UNCHANGED <<shelf, cartCalls, parcelCalls>>, NEW k \in Sessions, WriteOrders(k)
  PROVE  ShopInv'
<1> DEFINE New == {<<k, s>> : s \in SellersOf(k)}
<1>1. PICK x, c : x = checkouts[k] /\ c = [x EXCEPT !.pc = "announce"]
  OBVIOUS
<1>2. x \in CheckoutRow /\ CheckoutOK(x) /\ x.pc = "charged" /\ x.buyerId \in Buyers
  BY <1>1, SessionFacts DEF WriteOrders, CheckoutOK
<1>3. /\ c \in CheckoutRow /\ c.pc = "announce" /\ c.lines = x.lines /\ c.buyerId = x.buyerId
      /\ c.offer = x.offer
  BY <1>1, <1>2 DEF CheckoutRow
<1>4. /\ checkouts' = [checkouts EXCEPT ![k] = c]
      /\ UNCHANGED <<adminActions, lastLine, payments, announced, provided, faults, hagglingVars>>
      /\ notifications' = notifications \cup OrderPlaced(k)
  BY <1>1 DEF WriteOrders, ShopInv, Sales
<1>5. CheckoutOK(c)
  BY <1>2, <1>3 DEF CheckoutOK, SpentOK
<1>6. Sales'
  BY <1>1, <1>3, <1>4, <1>5, SessionMoves DEF Sales, hagglingVars, ShopInv
<1>7. \A j \in Sessions : checkouts'[j] = IF j = k THEN c ELSE checkouts[j]
  BY <1>4 DEF ShopInv, Sales
<1>8. /\ New \cap OrderIds = {} /\ OrderIds' = OrderIds \cup New
      /\ \A o \in OrderIds : orders'[o] = orders[o] /\ o[1] # k /\ o[1] \in Sessions
      /\ \A o \in New : o[1] = k /\ o[2] \in SellersOf(k) /\ orders'[o] = NewOrder(k, o[2])
      /\ orders' \in [Sessions \X Users -> Order \cup {Null}]
  BY OrdersWritten DEF OrderIds
<1>9. \A l \in x.lines : <<k, l.sellerId>> \in New
  BY <1>1 DEF SellersOf
<1>10. \A s \in SellersOf(k) : Share(x.lines, s) # {}
  BY <1>1 DEF SellersOf, Share
<1> HIDE DEF New
<1>11. Ledger'
  <2>1. ASSUME NEW o \in OrderIds PROVE Grounded(o)' /\ Walked(o)'
    <3>1. checkouts'[o[1]] = checkouts[o[1]] /\ orders'[o] = orders[o]
      BY <1>7, <1>8
    <3>2. Grounded(o)'
      BY <3>1, <1>4, <1>8 DEF ShopInv, Ledger, Grounded
    <3>3. Walked(o)'
      BY <3>1, <1>4 DEF ShopInv, Ledger, Walked
    <3> QED BY <3>2, <3>3
  <2>2. ASSUME NEW o \in New PROVE Grounded(o)' /\ Walked(o)'
    <3>1. PICK s, n : s = o[2] /\ n = NewOrder(k, s)
      OBVIOUS
    <3>2. checkouts'[o[1]] = c /\ o[1] = k /\ orders'[o] = n /\ s \in SellersOf(k)
      BY <1>7, <1>8, <3>1
    <3>3. /\ n.buyerId = x.buyerId /\ n.subtotal = Total(Share(x.lines, s))
          /\ n.items = ItemsOf(Share(x.lines, s))
          /\ n.status = "PAID" /\ n.shipment = "PROCESSING" /\ n.tracking = FALSE
          /\ n.events = <<"PROCESSING">>
      BY <1>1, <1>2, <3>1, NewOrderIsOrder
    <3>4. payments'[k] = Taking(x.lines)
      BY <1>1, <1>2, <1>4 DEF ShopInv, Ledger
    <3>5. Grounded(o)'
      BY <1>3, <1>8, <1>9, <1>10, <3>1, <3>2, <3>3, <3>4 DEF Grounded
    <3>6. Walked(o)'
      BY <3>2, <3>3 DEF Walked
    <3> QED BY <3>5, <3>6
  <2>3. \A j \in Sessions : checkouts'[j].pc = "charged" => payments'[j] = Taking(checkouts'[j].lines)
    BY <1>3, <1>4, <1>7 DEF ShopInv, Ledger
  <2>4. payments' \in [Sessions -> Charge \cup {Null}]
    BY <1>4 DEF ShopInv, Ledger
  <2> QED BY <1>8, <2>1, <2>2, <2>3, <2>4 DEF Ledger
<1>12. LotsApart'
  <2>1. \A o \in OrderIds' : checkouts'[o[1]].lines = checkouts[o[1]].lines
    BY <1>1, <1>3, <1>7, <1>8
  <2>2. \A l \in checkouts[k].lines : l.auctionId \notin PaidLots
    BY DEF WriteOrders, LotGuard
  <2> SUFFICES ASSUME NEW o \in OrderIds', NEW q \in OrderIds',
                      NEW l \in checkouts[o[1]].lines, NEW m \in checkouts[q[1]].lines,
                      l.auctionId = m.auctionId, l.auctionId # Null
               PROVE  o[1] = q[1]
    BY <2>1 DEF LotsApart
  <2>3. CASE o \in OrderIds /\ q \in OrderIds
    BY <2>3 DEF ShopInv, LotsApart
  <2>4. CASE o \in New /\ q \in New
    BY <2>4, <1>8
  <2>5. CASE o \in OrderIds /\ q \in New
    <3>1. l.auctionId \in PaidLots
      BY <2>5, LotIsHeld DEF ShopInv
    <3>2. m.auctionId \notin PaidLots
      BY <2>2, <2>5, <1>8
    <3> QED BY <3>1, <3>2
  <2>6. CASE o \in New /\ q \in OrderIds
    <3>1. m.auctionId \in PaidLots
      BY <2>6, LotIsHeld DEF ShopInv
    <3>2. l.auctionId \notin PaidLots
      BY <2>2, <2>6, <1>8
    <3> QED BY <3>1, <3>2
  <2> QED BY <1>8, <2>3, <2>4, <2>5, <2>6
<1>13. Goods' /\ Listed' /\ Conserved'
  BY StockMoves
<1>14. Baskets'
  <2>1. PICK b \in Buyers : b = checkouts[k].buyerId
    BY <1>1, <1>2
  <2>2. PICK row : row = [p \in Products |-> IF cart[b][p].id \in checkouts[k].ids
                                             THEN NoLine ELSE cart[b][p]]
    OBVIOUS
  <2>3. cart' = [cart EXCEPT ![b] = row]
    BY <2>1, <2>2 DEF WriteOrders
  <2>4. NoLine \in CartLine /\ NoLine.id = 0 /\ MaxLines \in Nat
    BY ShopAssumption DEF NoLine, CartLine
  <2>5. \A p \in Products : row[p] \in CartLine /\ row[p].id <= MaxLines
    BY <2>2, <2>4 DEF ShopInv, Baskets
  <2>6. row \in [Products -> CartLine]
    BY <2>2, <2>5
  <2>7. cart' \in [Buyers -> [Products -> CartLine]]
    BY <2>3, <2>6 DEF ShopInv, Baskets
  <2>8. \A a \in Buyers, p \in Products : cart'[a][p].id <= MaxLines
    BY <2>3, <2>5 DEF ShopInv, Baskets
  <2> QED BY <1>4, <2>7, <2>8 DEF ShopInv, Baskets
<1>15. Bargains'
  BY <1>4, BargainsStand DEF ShopInv
<1>16. Errands'
  BY <1>8 DEF ShopInv, Errands
<1>17. Told'
  <2>1. OrderPlaced(k) \subseteq Message
    BY <1>1, <1>2, PlacedAreMessages
  <2> QED BY <1>4, <2>1 DEF ShopInv, Told
<1> QED BY <1>6, <1>11, <1>12, <1>13, <1>14, <1>15, <1>16, <1>17 DEF ShopInv

\* Checkouts keep the invariant.
LEMMA BuyingKeeps ==
  ASSUME ShopInv, Buying
  PROVE  ShopInv'
<1>1. PICK k \in Sessions : StartCheckout(k) \/ ServeCheckout(k)
  BY DEF Buying
<1>2. UNCHANGED <<shelf, cartCalls, parcelCalls>>
  BY DEF Buying
<1>3. CASE \/ \E b \in Buyers : \E ids : PriceCart(k, b, ids)
           \/ \E b \in Buyers, l \in Lots : PriceAuction(k, b, l)
           \/ PriceOffer(k)
  BY <1>2, <1>3, PricingKeeps
<1>4. CASE \E b \in Buyers, n \in DOMAIN offers : SpendOffer(k, b, n)
  BY <1>2, <1>4, SpendingKeeps
<1>5. CASE ChargeSession(k)
  BY <1>2, <1>5, ChargingKeeps
<1>6. CASE WriteOrders(k)
  BY <1>2, <1>6, WritingKeeps
<1>7. CASE LoseOrders(k) \/ AnnounceOrders(k) \/ CrashCheckout(k)
  BY <1>2, <1>7, ClosingKeeps
<1> QED BY <1>1, <1>3, <1>4, <1>5, <1>6, <1>7 DEF StartCheckout, ServeCheckout

-----------------------------------------------------------------------------
(***************************************************************************)
(* Parcels                                                                 *)
(***************************************************************************)

\* The steps of the table: forward, and cancelled only before anything ships.
LEMMA StepsOfTheTable ==
  ASSUME NEW a \in ShipmentStatus, NEW b, canTransition(a, b)
  PROVE  /\ b \in ShipmentStatus \ {"PROCESSING"}
         /\ a \notin {"DELIVERED", "CANCELLED"}
         /\ a = "PROCESSING" => b \in {"SHIPPED", "CANCELLED"}
         /\ a # "PROCESSING" => b \in {"IN_TRANSIT", "DELIVERED"}
<1>1. CASE a = "PROCESSING"
  BY <1>1 DEF canTransition, SHIPMENT_TRANSITIONS, ShipmentStatus
<1>2. CASE a = "SHIPPED"
  BY <1>2 DEF canTransition, SHIPMENT_TRANSITIONS, ShipmentStatus
<1>3. CASE a = "IN_TRANSIT"
  BY <1>3 DEF canTransition, SHIPMENT_TRANSITIONS, ShipmentStatus
<1>4. CASE a = "DELIVERED"
  BY <1>4 DEF canTransition, SHIPMENT_TRANSITIONS, ShipmentStatus
<1>5. CASE a = "CANCELLED"
  BY <1>5 DEF canTransition, SHIPMENT_TRANSITIONS, ShipmentStatus
<1> QED BY <1>1, <1>2, <1>3, <1>4, <1>5 DEF ShipmentStatus

\* What orders hold, when one of them is written again with the items it had.
LEMMA HeldAfter ==
  ASSUME ShopInv, NEW o \in OrderIds, OrderIds' = OrderIds,
         \A q \in OrderIds \ {o} : orders'[q] = orders[q],
         orders'[o].items = orders[o].items, orders[o].status # "CANCELLED", NEW p
  PROVE  Held(p)' = IF orders'[o].status = "CANCELLED"
                    THEN Held(p) - UnitsIn(orders[o].items, p) ELSE Held(p)
<1> DEFINE S == {q \in OrderIds : orders[q].status # "CANCELLED"}
           F == [q \in S |-> UnitsIn(orders[q].items, p)]
           R == IF orders'[o].status = "CANCELLED" THEN S \ {o} ELSE S
           G == [q \in R |-> UnitsIn(orders'[q].items, p)]
<1>1. IsFiniteSet(S) /\ IsFiniteSet(R) /\ R \subseteq S /\ o \in S
  <2>1. IsFiniteSet(S) /\ R \subseteq S /\ o \in S
    BY OrdersAreFinite, FS_Subset DEF ShopInv
  <2> QED BY <2>1, FS_Subset
<1>2. Held(p) = SumFunctionOnSet(F, S)
  BY DEF Held, SumFunction
<1>3. Held(p)' = SumFunctionOnSet(G, R)
  <2>1. {q \in OrderIds' : orders'[q].status # "CANCELLED"} = R
    OBVIOUS
  <2>2. Held(p)' = SumFunction([q \in {r \in OrderIds' : orders'[r].status # "CANCELLED"} |->
                                  UnitsIn(orders'[q].items, p)])
    BY DEF Held
  <2> QED BY <2>1, <2>2 DEF SumFunction
<1>4. \A q \in S : F[q] = UnitsIn(orders[q].items, p) /\ F[q] \in Nat
  <2> SUFFICES ASSUME NEW q \in S PROVE F[q] \in Nat
    OBVIOUS
  <2>1. orders[q].items \subseteq Item /\ IsFiniteSet(orders[q].items)
    BY OrdersAreFinite DEF Order, ShopInv
  <2> QED BY <2>1, UnitsAreNumbers
<1>5. \A q \in R : G[q] = F[q]
  OBVIOUS
<1>6. R = IF orders'[o].status = "CANCELLED" THEN S \ {o} ELSE S
  OBVIOUS
<1> HIDE DEF F, G, S, R
<1>7. SumFunctionOnSet(G, R) = SumFunctionOnSet(F, R)
  BY <1>1, <1>5, SumAgrees
<1>8. SumFunctionOnSet(F, S) = F[o] + SumFunctionOnSet(F, S \ {o})
  BY <1>1, <1>4, SumTakes
<1>9. SumFunctionOnSet(F, S \ {o}) \in Nat
  <2>1. IsFiniteSet(S \ {o})
    BY <1>1, FS_Subset
  <2> QED BY <1>4, <2>1, SumType
<1> QED BY <1>1, <1>2, <1>3, <1>4, <1>6, <1>7, <1>8, <1>9

\* The row a parcel's step writes.
LEMMA OrderMoved ==
  ASSUME ShopInv, NEW k \in ParcelCalls, MoveParcel(k)
  PROVE  LET o == parcelCalls[k].order
             next == parcelCalls[k].next
         IN  /\ o \in OrderIds /\ o \in Sessions \X Users /\ OrderIds' = OrderIds
             /\ orders' \in [Sessions \X Users -> Order \cup {Null}]
             /\ \A q \in OrderIds \ {o} : orders'[q] = orders[q]
             /\ orders[o] \in Order /\ orders[o].status # "CANCELLED"
             /\ next \in ShipmentStatus \ {"PROCESSING"} /\ canTransition(orders[o].shipment, next)
             /\ orders'[o].buyerId = orders[o].buyerId /\ orders'[o].items = orders[o].items
             /\ orders'[o].subtotal = orders[o].subtotal
             /\ orders'[o].shipment = next /\ orders'[o].events = Append(orders[o].events, next)
             /\ orders'[o].tracking = (orders[o].tracking \/ next = "SHIPPED")
             /\ orders'[o].status = IF next = "CANCELLED" THEN "CANCELLED" ELSE orders[o].status
<1>1. PICK o, next : o = parcelCalls[k].order /\ next = parcelCalls[k].next
  OBVIOUS
<1>2. /\ parcelCalls[k].pc = "write" /\ o \in OrderIds /\ next \in ShipmentStatus
      /\ canTransition(orders[o].shipment, next)
  BY <1>1 DEF MoveParcel, ParcelGuard, ShopInv, Errands
<1>3. o \in Sessions \X Users /\ orders[o] \in Order /\ Walked(o)
  BY <1>2 DEF OrderIds, ShopInv, Ledger
<1>4. next \in ShipmentStatus \ {"PROCESSING"} /\ orders[o].shipment # "CANCELLED"
  BY <1>2, <1>3, StepsOfTheTable DEF Order
<1>5. orders[o].status # "CANCELLED"
  BY <1>3, <1>4 DEF Walked
<1>6. PICK x, t, s : /\ x = orders[o] /\ t = (x.tracking \/ next = "SHIPPED")
                     /\ s = IF next = "CANCELLED" THEN "CANCELLED" ELSE x.status
  OBVIOUS
<1>7. PICK y : y = [x EXCEPT !.shipment = next, !.events = Append(@, next),
                             !.tracking = t, !.status = s]
  OBVIOUS
<1>8. t \in BOOLEAN /\ s \in {"PAID", "CANCELLED"} /\ Append(x.events, next) \in Seq(ShipmentStatus)
  <2>1. x.events \in Seq(ShipmentStatus) /\ x.status \in {"PAID", "CANCELLED"} /\ x.tracking \in BOOLEAN
    BY <1>3, <1>6 DEF Order
  <2> QED BY <1>2, <1>6, <2>1, AppendProperties
<1>9. /\ y \in Order /\ y.buyerId = x.buyerId /\ y.items = x.items /\ y.subtotal = x.subtotal
      /\ y.shipment = next /\ y.events = Append(x.events, next) /\ y.tracking = t /\ y.status = s
  <2>1. PICK e \in Seq(ShipmentStatus) : e = Append(x.events, next)
    BY <1>8
  <2>2. y = [x EXCEPT !.shipment = next, !.events = e, !.tracking = t, !.status = s]
    BY <1>7, <2>1
  <2> QED BY <1>2, <1>3, <1>6, <1>8, <2>1, <2>2 DEF Order
<1>10. orders' = [orders EXCEPT ![o] = y]
  <2>1. orders' = [orders EXCEPT ![o] = Moved(orders[o], next)]
    BY <1>1 DEF MoveParcel
  <2>2. y = Moved(x, next)
    BY <1>3, <1>6, <1>7 DEF Order, Moved
  <2> QED BY <1>6, <2>1, <2>2
<1>11. orders' \in [Sessions \X Users -> Order \cup {Null}]
  BY <1>3, <1>9, <1>10 DEF ShopInv, Ledger
<1>12. orders'[o] = y /\ \A q \in Sessions \X Users : q # o => orders'[q] = orders[q]
  BY <1>3, <1>10 DEF ShopInv, Ledger
<1>13. OrderIds' = OrderIds
  <2>1. y # Null
    BY <1>9, RowsAssumption
  <2> QED BY <1>2, <1>3, <1>12, <2>1 DEF OrderIds
<1>14. \A q \in OrderIds \ {o} : orders'[q] = orders[q]
  BY <1>12 DEF OrderIds
<1> QED BY <1>1, <1>2, <1>3, <1>4, <1>5, <1>6, <1>9, <1>11, <1>12, <1>13, <1>14

\* A parcel's step keeps the walk of its order and everybody else's.
LEMMA WalkGrows ==
  ASSUME ShopInv, NEW k \in ParcelCalls, MoveParcel(k), NEW q \in OrderIds
  PROVE  Walked(q)'
<1>1. PICK o, next : o = parcelCalls[k].order /\ next = parcelCalls[k].next
  OBVIOUS
<1>2. notifications' = notifications \cup buildNotifications(o, next)
  BY <1>1 DEF MoveParcel
<1>3. CASE q # o
  <2>1. orders'[q] = orders[q]
    BY <1>1, <1>3, OrderMoved
  <2> QED BY <1>2, <2>1 DEF ShopInv, Ledger, Walked
<1>4. CASE q = o
  <2>1. PICK x, y, w, t : x = orders[q] /\ y = orders'[q] /\ w = x.events /\ t = y.events
    OBVIOUS
  <2>2. /\ x \in Order /\ x.status # "CANCELLED" /\ next \in ShipmentStatus \ {"PROCESSING"}
        /\ canTransition(x.shipment, next) /\ y.buyerId = x.buyerId /\ y.shipment = next
        /\ t = Append(w, next) /\ y.tracking = (x.tracking \/ next = "SHIPPED")
        /\ y.status = IF next = "CANCELLED" THEN "CANCELLED" ELSE x.status
    BY <1>1, <1>4, <2>1, OrderMoved
  <2>3. /\ Len(w) > 0 /\ w[1] = "PROCESSING" /\ w[Len(w)] = x.shipment
        /\ \A i \in 1 .. Len(w) - 1 : canTransition(w[i], w[i + 1])
        /\ \A i \in 2 .. Len(w) : Note("SHIPMENT_UPDATE", x.buyerId, q, w[i]) \in notifications
        /\ x.tracking <=> x.shipment \in {"SHIPPED", "IN_TRANSIT", "DELIVERED"}
    BY <2>1 DEF ShopInv, Ledger, Walked
  <2>4. w \in Seq(ShipmentStatus) /\ x.shipment \in ShipmentStatus /\ x.tracking \in BOOLEAN
    BY <2>1, <2>2 DEF Order
  <2>5. Len(w) \in Nat /\ Len(t) = Len(w) + 1 /\ t[Len(w) + 1] = next
        /\ \A i \in 1 .. Len(w) : t[i] = w[i]
    BY <2>2, <2>4, AppendProperties, LenProperties
  <2>6. Note("SHIPMENT_UPDATE", x.buyerId, q, next) \in notifications'
    BY <1>2, <1>4, <2>1 DEF buildNotifications
  <2>7. \A i \in 1 .. Len(t) - 1 : canTransition(t[i], t[i + 1])
    <3> SUFFICES ASSUME NEW i \in 1 .. Len(w) PROVE canTransition(t[i], t[i + 1])
      BY <2>5
    <3>1. CASE i = Len(w)
      BY <2>2, <2>3, <2>5, <3>1
    <3>2. CASE i # Len(w)
      <4>1. i \in 1 .. Len(w) - 1 /\ i + 1 \in 1 .. Len(w)
        BY <2>5, <3>2
      <4> QED BY <2>3, <2>5, <4>1
    <3> QED BY <3>1, <3>2
  <2>8. \A i \in 2 .. Len(t) : Note("SHIPMENT_UPDATE", y.buyerId, q, t[i]) \in notifications'
    <3> SUFFICES ASSUME NEW i \in 2 .. Len(w) + 1
                 PROVE  Note("SHIPMENT_UPDATE", x.buyerId, q, t[i]) \in notifications'
      BY <2>2, <2>5
    <3>1. CASE i = Len(w) + 1
      BY <2>5, <2>6, <3>1
    <3>2. CASE i # Len(w) + 1
      <4>1. i \in 2 .. Len(w) /\ i \in 1 .. Len(w)
        BY <2>5, <3>2
      <4> QED BY <1>2, <2>3, <2>5, <4>1
    <3> QED BY <3>1, <3>2
  <2>9. y.tracking <=> y.shipment \in {"SHIPPED", "IN_TRANSIT", "DELIVERED"}
    <3>1. /\ x.shipment \in {"PROCESSING", "SHIPPED", "IN_TRANSIT"}
          /\ x.shipment = "PROCESSING" => next \in {"SHIPPED", "CANCELLED"}
          /\ x.shipment # "PROCESSING" => next \in {"IN_TRANSIT", "DELIVERED"}
      BY <2>2, <2>4, StepsOfTheTable DEF ShipmentStatus
    <3>2. CASE x.shipment = "PROCESSING"
      <4>1. ~x.tracking
        BY <2>3, <3>2
      <4>2. y.tracking <=> next = "SHIPPED"
        BY <2>2, <4>1
      <4> QED BY <2>2, <3>1, <3>2, <4>2
    <3>3. CASE x.shipment # "PROCESSING"
      <4>1. x.tracking
        BY <2>3, <3>1, <3>3
      <4>2. y.tracking
        BY <2>2, <4>1
      <4> QED BY <2>2, <3>1, <3>3, <4>2
    <3> QED BY <3>2, <3>3
  <2>10. (y.status = "CANCELLED") <=> (y.shipment = "CANCELLED")
    BY <2>2
  <2>11. Len(t) > 0 /\ t[1] = "PROCESSING" /\ t[Len(t)] = y.shipment
    BY <2>2, <2>3, <2>5
  <2> QED BY <2>1, <2>7, <2>8, <2>9, <2>10, <2>11 DEF Walked
<1> QED BY <1>3, <1>4

\* A cancelled parcel puts back on the shelf what its order held.
LEMMA GoodsReturn ==
  ASSUME ShopInv, UNCHANGED shelf, NEW k \in ParcelCalls, MoveParcel(k)
  PROVE  Goods' /\ Listed' /\ Conserved'
<1>1. PICK o, next : o = parcelCalls[k].order /\ next = parcelCalls[k].next
  OBVIOUS
<1>2. /\ o \in OrderIds /\ o \in Sessions \X Users /\ OrderIds' = OrderIds
      /\ \A q \in OrderIds \ {o} : orders'[q] = orders[q]
      /\ orders[o] \in Order /\ orders[o].status # "CANCELLED"
      /\ orders'[o].items = orders[o].items
      /\ orders'[o].status = IF next = "CANCELLED" THEN "CANCELLED" ELSE orders[o].status
  BY <1>1, OrderMoved
<1>3. \A q \in OrderIds : orders'[q].items = orders[q].items /\ orders[q].items \subseteq Item
  <2>1. \A q \in OrderIds : orders'[q].items = orders[q].items
    BY <1>2
  <2>2. \A q \in OrderIds : orders[q].items \subseteq Item
    BY OrdersAreFinite DEF ShopInv, Order
  <2> QED BY <2>1, <2>2
<1>4. UNCHANGED <<adminActions, provided>>
  BY DEF MoveParcel
<1>5. CASE next # "CANCELLED"
  <2>1. UNCHANGED product
    BY <1>1, <1>5 DEF MoveParcel
  <2>2. \A p \in Products : Held(p)' = Held(p)
    BY <1>2, <1>5, HeldAfter
  <2>3. Goods'
    BY <1>4, <2>1, GoodsStand DEF ShopInv
  <2>4. Listed'
    BY <1>2, <1>3, <2>1 DEF ShopInv, Listed
  <2> QED BY <1>4, <2>1, <2>2, <2>3, <2>4 DEF ShopInv, Conserved
<1>6. CASE next = "CANCELLED"
  <2> DEFINE goods == {i \in orders[o].items : i.productId # Null}
             Of(p) == CHOOSE i \in goods : i.productId = p
  <2>1. product' = [p \in Products |-> IF \E i \in goods : i.productId = p
                                       THEN Restocked(product[p], Of(p).quantity) ELSE product[p]]
    BY <1>1, <1>6 DEF MoveParcel
  <2>2. \A i, j \in orders[o].items : i.productId = j.productId /\ i.productId # Null => i = j
    <3>1. PICK c : c = checkouts[o[1]]
      OBVIOUS
    <3>2. /\ c.lines \subseteq PricedLine /\ LinesOK(c.buyerId, c.lines)
          /\ orders[o].items = ItemsOf(Share(c.lines, o[2]))
      BY <1>2, <3>1, SessionFacts DEF CheckoutOK, ShopInv, Ledger, Grounded
    <3> QED BY <3>2, ItemsOfShare
  <2>3. ASSUME NEW i \in goods PROVE Of(i.productId) = i
    <3>1. Of(i.productId) \in goods /\ Of(i.productId).productId = i.productId
      OBVIOUS
    <3> HIDE DEF Of
    <3> QED BY <2>2, <3>1
  <2> HIDE DEF Of
  <2>4. ASSUME NEW i \in goods
        PROVE  /\ i.productId \in Products /\ i.quantity \in Nat
               /\ product'[i.productId] = Restocked(product[i.productId], i.quantity)
               /\ product'[i.productId] \in Product
               /\ product'[i.productId].stockQty = product[i.productId].stockQty + i.quantity
               /\ product'[i.productId].status # "NONE"
    <3>1. PICK p, n : p = i.productId /\ n = i.quantity
      OBVIOUS
    <3>2. p \in Products /\ n \in Nat
      BY <1>2, <1>3, <3>1 DEF Item
    <3>3. product'[p] = Restocked(product[p], n)
      BY <2>1, <2>3, <3>1, <3>2
    <3>4. product[p] \in Product /\ product[p].status # "NONE"
      BY <1>2, <3>1, <3>2 DEF ShopInv, Goods, Listed
    <3>5. PICK r : r = Restocked(product[p], n)
      OBVIOUS
    <3>6. product[p].stockQty + n \in Nat
      BY <3>2, <3>4 DEF Product
    <3>7. r \in Product /\ r.stockQty = product[p].stockQty + n /\ r.status # "NONE"
      BY <3>4, <3>5, <3>6 DEF Restocked, Product, ProductStatus
    <3> QED BY <3>1, <3>2, <3>3, <3>5, <3>7
  <2>5. \A p \in Products : (\A i \in goods : i.productId # p) => product'[p] = product[p]
    BY <2>1
  <2> HIDE DEF goods
  <2>6. \A p \in Products : product'[p] \in Product
    BY <2>4, <2>5 DEF ShopInv, Goods
  <2>7. product' \in [Products -> Product]
    BY <2>1, <2>6
  <2>8. \A p \in Products : product[p].status # "NONE" => product'[p].status # "NONE"
    BY <2>4, <2>5
  <2>9. \A p \in Products : product'[p].status = "NONE" => product'[p].stockQty = 0
    BY <2>4, <2>5 DEF ShopInv, Goods
  <2>10. Goods'
    <3>1. \A j \in ShelfCalls : ShelfOK(j)'
      BY <2>8 DEF ShopInv, Goods, ShelfOK
    <3> QED BY <1>4, <2>7, <2>9, <3>1 DEF ShopInv, Goods
  <2>11. Listed'
    <3> SUFFICES ASSUME NEW q \in OrderIds, NEW i \in orders[q].items, i.productId # Null
                 PROVE  product'[i.productId].status # "NONE"
      BY <1>2, <1>3 DEF Listed
    <3>1. i.productId \in Products
      BY <1>3 DEF Item
    <3> QED BY <2>8, <3>1 DEF ShopInv, Listed
  <2>12. ASSUME NEW p \in Products PROVE product'[p].stockQty + Held(p)' = provided'[p]
    <3>1. Held(p)' = Held(p) - UnitsIn(orders[o].items, p)
      BY <1>2, <1>6, HeldAfter
    <3>2. product[p].stockQty + Held(p) = provided[p] /\ Held(p) \in Nat /\ product[p].stockQty \in Nat
      BY HeldIsNumber DEF ShopInv, Conserved, Goods, Product
    <3>3. p # Null
      BY ShopAssumption
    <3>4. /\ (\A i \in orders[o].items : i.productId # p) => UnitsIn(orders[o].items, p) = 0
          /\ \A i \in orders[o].items : i.productId = p => UnitsIn(orders[o].items, p) = i.quantity
      BY <1>2, <1>3, <2>2, <3>3, UnitsOfItem
    <3>5. CASE \A i \in goods : i.productId # p
      <4>1. \A i \in orders[o].items : i.productId # p
        BY <3>3, <3>5 DEF goods
      <4> QED BY <1>4, <2>5, <3>1, <3>2, <3>4, <3>5, <4>1
    <3>6. ASSUME NEW i \in goods, i.productId = p
          PROVE  product'[p].stockQty + Held(p)' = provided'[p]
      <4>1. UnitsIn(orders[o].items, p) = i.quantity
        BY <3>4, <3>6 DEF goods
      <4>2. product'[p].stockQty = product[p].stockQty + i.quantity /\ i.quantity \in Nat
        BY <2>4, <3>6
      <4> QED BY <1>4, <3>1, <3>2, <4>1, <4>2
    <3> QED BY <3>5, <3>6
  <2> QED BY <2>10, <2>11, <2>12 DEF Conserved
<1> QED BY <1>5, <1>6

\* A parcel call moves on.
LEMMA ParcelCallMoves ==
  ASSUME Errands, OrderIds' = OrderIds, NEW k \in ParcelCalls, NEW c \in ParcelCall,
         parcelCalls' = [parcelCalls EXCEPT ![k] = c],
         c.pc \in {"write", "announce"} => c.order \in OrderIds /\ c.next \in ShipmentStatus,
         c.pc = "write" => c.seen \in ShipmentStatus /\ canTransition(c.seen, c.next)
  PROVE  Errands'
<1>1. parcelCalls' \in [ParcelCalls -> ParcelCall]
  BY DEF Errands
<1>2. \A j \in ParcelCalls : parcelCalls'[j] = IF j = k THEN c ELSE parcelCalls[j]
  BY DEF Errands
<1> QED BY <1>1, <1>2 DEF Errands

\* A call that ends holds nothing.
LEMMA ParcelCallEnds ==
  ASSUME Errands, OrderIds' = OrderIds, NEW k \in ParcelCalls, EndParcelCall(k)
  PROVE  Errands'
<1>1. PICK c : c = [IdleParcelCall EXCEPT !.pc = "done"]
  OBVIOUS
<1>2. c \in ParcelCall /\ c.pc = "done"
  BY <1>1 DEF IdleParcelCall, ParcelCall
<1>3. parcelCalls' = [parcelCalls EXCEPT ![k] = c]
  BY <1>1 DEF EndParcelCall
<1> QED BY <1>2, <1>3, ParcelCallMoves

\* The transaction that moves a parcel.
LEMMA MovingKeeps ==
  ASSUME ShopInv, UNCHANGED <<hagglingVars, checkoutVars, shelf, cartCalls>>,
         NEW k \in ParcelCalls, MoveParcel(k)
  PROVE  ShopInv'
<1>1. PICK o, next : o = parcelCalls[k].order /\ next = parcelCalls[k].next
  OBVIOUS
<1>2. /\ o \in OrderIds /\ o \in Sessions \X Users /\ OrderIds' = OrderIds
      /\ orders' \in [Sessions \X Users -> Order \cup {Null}]
      /\ \A q \in OrderIds \ {o} : orders'[q] = orders[q]
      /\ orders[o] \in Order /\ next \in ShipmentStatus
      /\ orders'[o].buyerId = orders[o].buyerId /\ orders'[o].items = orders[o].items
      /\ orders'[o].subtotal = orders[o].subtotal
  BY <1>1, OrderMoved
<1>3. /\ UNCHANGED <<adminActions, cart, lastLine, payments, announced, provided, checkouts,
                     faults, now, offers, offerCalls, shelf, cartCalls>>
      /\ notifications' = notifications \cup buildNotifications(o, next)
  BY <1>1 DEF MoveParcel, hagglingVars, checkoutVars
<1>4. Ledger'
  <2>1. \A q \in OrderIds : Grounded(q)'
    BY <1>2, <1>3 DEF ShopInv, Ledger, Grounded
  <2>2. \A q \in OrderIds : Walked(q)'
    BY WalkGrows
  <2> QED BY <1>2, <1>3, <2>1, <2>2 DEF ShopInv, Ledger
<1>5. LotsApart'
  BY <1>2, <1>3 DEF ShopInv, LotsApart
<1>6. Goods' /\ Listed' /\ Conserved'
  BY GoodsReturn
<1>7. Baskets' /\ Bargains' /\ Sales'
  BY <1>3, BasketsStand, BargainsStand, SalesStand DEF ShopInv, hagglingVars
<1>8. Errands'
  <2>1. PICK x, c : x = parcelCalls[k] /\ c = [x EXCEPT !.pc = "announce"]
    OBVIOUS
  <2>2. x \in ParcelCall
    BY <2>1 DEF ShopInv, Errands
  <2>3. c \in ParcelCall /\ c.pc = "announce" /\ c.order = o /\ c.next = next
    BY <1>1, <2>1, <2>2 DEF ParcelCall
  <2>4. parcelCalls' = [parcelCalls EXCEPT ![k] = c]
    BY <2>1 DEF MoveParcel, ShopInv, Errands
  <2> QED BY <1>2, <2>3, <2>4, ParcelCallMoves DEF ShopInv
<1>9. Told'
  <2>1. orders[o].buyerId \in Users
    BY <1>2 DEF Order
  <2>2. buildNotifications(o, next) \subseteq Message
    BY <1>2, <2>1 DEF buildNotifications, Note, Message
  <2> QED BY <1>3, <2>2 DEF ShopInv, Told
<1> QED BY <1>4, <1>5, <1>6, <1>7, <1>8, <1>9 DEF ShopInv

\* Sellers walking parcels keep the invariant.
LEMMA ShippingKeeps ==
  ASSUME ShopInv, Shipping
  PROVE  ShopInv'
<1>1. PICK k \in ParcelCalls : ParcelStep(k)
  BY DEF Shipping
<1>2. UNCHANGED <<hagglingVars, checkoutVars, shelf, cartCalls>>
  BY DEF Shipping
<1>3. CASE MoveParcel(k)
  BY <1>2, <1>3, MovingKeeps
<1>4. ASSUME UNCHANGED <<product, adminActions, cart, lastLine, payments, orders, notifications,
                         provided>>, Errands', announced' \subseteq Message
      PROVE  ShopInv'
  <2>1. UNCHANGED <<checkouts, faults, offers>>
    BY <1>2 DEF hagglingVars, checkoutVars
  <2> QED BY <1>2, <1>4, <2>1, GoodsStand, BasketsStand, BargainsStand, SalesStand, LedgerStands,
             LotsStand, ListedStands, ConservedStands DEF ShopInv, Told
<1>5. CASE LoadParcel(k)
  <2>1. UNCHANGED <<product, adminActions, cart, lastLine, payments, orders, notifications,
                    provided, announced>>
    BY <1>5 DEF LoadParcel, shopStoreVars
  <2>2. OrderIds' = OrderIds
    BY <2>1 DEF OrderIds
  <2>3. Errands'
    <3>1. CASE UNCHANGED parcelCalls
      BY <2>1, <3>1, ErrandsStand DEF ShopInv
    <3>2. ASSUME NEW o \in OrderIds, NEW next \in ShipmentStatus,
                 canTransition(orders[o].shipment, next),
                 parcelCalls' = [parcelCalls EXCEPT
                   ![k] = [pc |-> "write", order |-> o, next |-> next, seen |-> orders[o].shipment]]
          PROVE  Errands'
      <4>1. orders[o].shipment \in ShipmentStatus /\ o \in Sessions \X Users
        BY OrdersAreFinite DEF ShopInv, Order, OrderIds
      <4>2. PICK c : c = [pc |-> "write", order |-> o, next |-> next, seen |-> orders[o].shipment]
        OBVIOUS
      <4>3. c \in ParcelCall /\ c.order = o /\ c.next = next /\ c.seen = orders[o].shipment
        BY <4>1, <4>2 DEF ParcelCall
      <4> QED BY <2>2, <3>2, <4>1, <4>2, <4>3, ParcelCallMoves DEF ShopInv
    <3> QED BY <1>5, <3>1, <3>2 DEF LoadParcel
  <2>4. announced' \subseteq Message
    BY <2>1 DEF ShopInv, Told
  <2> QED BY <1>4, <2>1, <2>3, <2>4
<1>6. CASE LoseParcel(k)
  <2>1. UNCHANGED <<product, adminActions, cart, lastLine, payments, orders, notifications,
                    provided, announced>>
    BY <1>6 DEF LoseParcel, shopStoreVars
  <2>2. Errands'
    BY <1>6, <2>1, ParcelCallEnds DEF LoseParcel, ShopInv, OrderIds
  <2>3. announced' \subseteq Message
    BY <2>1 DEF ShopInv, Told
  <2> QED BY <1>4, <2>1, <2>2, <2>3
<1>7. CASE AnnounceParcel(k)
  <2>1. PICK o, next : o = parcelCalls[k].order /\ next = parcelCalls[k].next
    OBVIOUS
  <2>2. UNCHANGED <<product, adminActions, cart, lastLine, payments, orders, notifications, provided>>
    BY <1>7 DEF AnnounceParcel
  <2>3. Errands'
    BY <1>7, <2>2, ParcelCallEnds DEF AnnounceParcel, ShopInv, OrderIds
  <2>4. o \in OrderIds /\ next \in ShipmentStatus
    BY <1>7, <2>1 DEF AnnounceParcel, ShopInv, Errands
  <2>5. orders[o].buyerId \in Users /\ o \in Sessions \X Users /\ o[2] \in Users
    BY <2>4, OrdersAreFinite DEF ShopInv, Order, OrderIds
  <2>6. \A user \in Users : Note("order:status", user, o, next) \in Message
    BY <2>4, <2>5 DEF Note, Message
  <2>7. announced' \subseteq Message
    BY <1>7, <2>1, <2>5, <2>6 DEF AnnounceParcel, ShopInv, Told
  <2> QED BY <1>4, <2>2, <2>3, <2>7
<1> QED BY <1>1, <1>3, <1>5, <1>6, <1>7 DEF ParcelStep

-----------------------------------------------------------------------------
(***************************************************************************)
(* What follows                                                            *)
(***************************************************************************)

\* A step that leaves the shop alone.
LEMMA ShopStands ==
  ASSUME ShopInv, UNCHANGED shopVars
  PROVE  ShopInv'
<1>1. /\ UNCHANGED <<product, adminActions, cart, lastLine, payments, orders, notifications,
                     announced, provided, checkouts, faults, now, offers, offerCalls,
                     shelf, cartCalls, parcelCalls>>
      /\ UNCHANGED hagglingVars
  BY DEF shopVars, shopStoreVars, hagglingVars, checkoutVars
<1>2. Told'
  BY <1>1 DEF ShopInv, Told
<1> QED BY <1>1, <1>2, GoodsStand, BasketsStand, BargainsStand, SalesStand, LedgerStands,
           LotsStand, ListedStands, ConservedStands, ErrandsStand DEF ShopInv

\* ShopInv holds of every state of the shop: what its rows, its carts, its
\* offers, its sessions, its orders and its calls under way say of each other,
\* whatever order the services' steps come in (catalogue, cart, negotiation,
\* checkout and shipment services).
THEOREM ShopInvariance == ShopSpec => []ShopInv
<1>1. ShopInit => ShopInv
  BY ShopStarts
<1>2. ShopInv /\ [ShopNext]_shopVars => ShopInv'
  <2> SUFFICES ASSUME ShopInv, [ShopNext]_shopVars PROVE ShopInv'
    OBVIOUS
  <2>1. CASE UNCHANGED shopVars
    BY <2>1, ShopStands
  <2>2. CASE Selling
    BY <2>2, SellingKeeps
  <2>3. CASE Filling
    BY <2>3, FillingKeeps
  <2>4. CASE Offering
    BY <2>4, OfferingKeeps
  <2>5. CASE Buying
    BY <2>5, BuyingKeeps
  <2>6. CASE Shipping
    BY <2>6, ShippingKeeps
  <2>7. CASE ShopAtRest
    BY <2>1, <2>7 DEF ShopAtRest
  <2> QED BY <2>1, <2>2, <2>3, <2>4, <2>5, <2>6, <2>7 DEF ShopNext
<1> QED BY <1>1, <1>2, PTL DEF ShopSpec

\* Every row, cart, offer, session and call keeps its type (the columns and
\* the shapes the services pass around).
THEOREM ShopIsWellTyped == ShopSpec => []ShopTypeOK
<1>1. ShopInv => ShopTypeOK
  <2> SUFFICES ASSUME ShopInv PROVE ShopTypeOK
    OBVIOUS
  <2> USE DEF ShopInv
  <2>1. \A o \in OrderIds : orders[o].items \subseteq Item /\ [orders[o] EXCEPT !.items = {}] \in Order
    <3> SUFFICES ASSUME NEW o \in OrderIds
                 PROVE  orders[o].items \subseteq Item /\ [orders[o] EXCEPT !.items = {}] \in Order
      OBVIOUS
    <3>1. PICK x : x = orders[o]
      OBVIOUS
    <3>2. x \in Order
      BY <3>1, OrdersAreFinite
    <3> QED BY <3>1, <3>2 DEF Order
  <2>2. ShopStoreTypeOK
    BY <2>1 DEF ShopStoreTypeOK, Goods, Baskets, Ledger, Told
  <2>3. CatalogueTypeOK
    <3>1. \A k \in ShelfCalls : shelf[k] \in ShelfCall
      BY DEF Goods
    <3> QED BY <3>1 DEF CatalogueTypeOK, ShelfCall
  <2>4. BasketTypeOK
    <3>1. \A k \in CartCalls : cartCalls[k] \in CartCall
      BY DEF Baskets
    <3> QED BY <3>1 DEF BasketTypeOK, CartCall
  <2>5. HagglingTypeOK
    <3>1. \A k \in OfferCalls : offerCalls[k] \in OfferCall
      BY DEF Bargains
    <3>2. \A k \in OfferCalls : offerCalls[k].pc \in {"idle", "offers", "insert", "done"}
      BY <3>1 DEF OfferCall
    <3> QED BY <3>2 DEF HagglingTypeOK, Bargains
  <2>6. CheckoutTypeOK
    <3>1. \A k \in Sessions : checkouts[k] \in CheckoutRow
      BY DEF Sales
    <3> QED BY <3>1 DEF CheckoutTypeOK, CheckoutRow, Sales
  <2>7. ParcelsTypeOK
    <3>1. \A k \in ParcelCalls : parcelCalls[k] \in ParcelCall
      BY DEF Errands
    <3> QED BY <3>1 DEF ParcelsTypeOK, ParcelCall
  <2> QED BY <2>2, <2>3, <2>4, <2>5, <2>6, <2>7 DEF ShopTypeOK
<1> QED BY <1>1, ShopInvariance, PTL

\* Nothing is oversold, lost or put back twice, for any number of listings,
\* sessions and calls (decrementStock, cancelOrder, updateStock).
THEOREM StockIsConserved == ShopSpec => []StockConserved
<1>1. ShopInv => StockConserved
  <2> SUFFICES ASSUME ShopInv, NEW p \in Products
               PROVE  product[p].stockQty >= 0 /\ product[p].stockQty + Held(p) = provided[p]
    BY DEF StockConserved
  <2>1. product[p].stockQty \in Nat
    BY DEF ShopInv, Goods, Product
  <2> QED BY <2>1 DEF ShopInv, Conserved
<1> QED BY <1>1, ShopInvariance, PTL

\* What a share of lines comes to, line by line of the order it becomes.
LEMMA ShareIsItems ==
  ASSUME NEW b, NEW lines, lines \subseteq PricedLine, LinesOK(b, lines), NEW s
  PROVE  LET share == Share(lines, s)
             items == ItemsOf(share)
         IN  Total(share) = SumFunction([i \in items |-> lineTotal(i)])
<1> DEFINE share == Share(lines, s)
           items == ItemsOf(share)
           F == [l \in share |-> l.subtotal]
           H == [l \in share |-> ItemOf(l)]
           G == [i \in items |-> lineTotal(i)]
<1>1. IsFiniteSet(share) /\ share \subseteq PricedLine
  BY FS_Subset DEF LinesOK, Share
<1>2. \A l \in share : F[l] \in Nat /\ F[l] = lineTotal(ItemOf(l))
  BY <1>1 DEF PricedLine, LinesOK, Share, lineTotal, ItemOf
<1>3. \A l \in share : H[l] \in items /\ H[l] = ItemOf(l)
  BY DEF ItemsOf
<1>5. \A l, m \in share : ItemOf(l) = ItemOf(m) => l = m
  <2> SUFFICES ASSUME NEW l \in share, NEW m \in share, ItemOf(l) = ItemOf(m) PROVE l = m
    OBVIOUS
  <2>1. l.productId = m.productId /\ l \in lines /\ m \in lines
    BY DEF ItemOf, Share
  <2> QED BY <2>1 DEF LinesOK
<1>6. items = {H[l] : l \in share} /\ \A l \in share : G[H[l]] = F[l]
  BY <1>2, <1>3 DEF ItemsOf
<1>7. Total(share) = SumFunctionOnSet(F, share)
  BY DEF Total, SumFunction
<1>8. SumFunction(G) = SumFunctionOnSet(G, items)
  BY DEF SumFunction
<1> HIDE DEF F, G, H, share, items
<1>9. SumFunctionOnSet(F, share) = SumFunctionOnSet(G, items)
  <2>1. (\A l \in share : F[l] \in Int) /\ \A l, m \in share : H[l] = H[m] => l = m
    BY <1>2, <1>3, <1>5
  <2> QED BY <1>1, <1>6, <2>1, SumRenamed
<1> QED BY <1>7, <1>8, <1>9 DEF G, items, share

\* Orders, their charge and their lines, from the invariant.
LEMMA OrdersAddUp ==
  ASSUME ShopInv
  PROVE  OrdersMatchCharge
<1> SUFFICES ASSUME NEW k \in Sessions,
                    {o \in OrderIds : o[1] = k} # {}
             PROVE  LET mine == {o \in OrderIds : o[1] = k}
                    IN  /\ payments[k] # Null
                        /\ payments[k].status = "SUCCEEDED"
                        /\ payments[k].amount = SumFunction([o \in mine |-> orders[o].subtotal])
                        /\ \A o \in mine :
                             orders[o].subtotal =
                               SumFunction([i \in orders[o].items |-> lineTotal(i)])
  BY DEF OrdersMatchCharge
<1> DEFINE mine == {o \in OrderIds : o[1] = k}
           L == checkouts[k].lines
           F == [l \in L |-> l.subtotal]
           G == [o \in mine |-> orders[o].subtotal]
           H == [l \in L |-> <<k, l.sellerId>>]
<1>1. L \subseteq PricedLine /\ IsFiniteSet(L) /\ LinesOK(checkouts[k].buyerId, L)
  BY SessionFacts DEF CheckoutOK
<1>2. \A o \in mine : /\ Share(L, o[2]) # {} /\ orders[o].items = ItemsOf(Share(L, o[2]))
                      /\ orders[o].subtotal = Total(Share(L, o[2]))
                      /\ payments[k] = Taking(L)
                      /\ \A l \in L : <<k, l.sellerId>> \in OrderIds
  BY DEF ShopInv, Ledger, Grounded
<1>3. payments[k] = Taking(L) /\ Total(L) \in Nat
  BY <1>1, <1>2, TotalIsNumber
<1>4. payments[k] # Null /\ payments[k].status = "SUCCEEDED" /\ payments[k].amount = Total(L)
  <2>1. Taking(L) \in Charge
    BY <1>3 DEF Taking, Charge
  <2> QED BY <1>3, <2>1, RowsAssumption DEF Taking
<1>5. \A l \in L : H[l] \in mine /\ F[l] \in Nat
  BY <1>1, <1>2 DEF PricedLine
<1>6. IsFiniteSet(mine)
  BY OrdersAreFinite, FS_Subset DEF ShopInv
<1>7. ASSUME NEW o \in mine PROVE G[o] = SumFunctionOnSet(F, {l \in L : H[l] = o})
  <2> DEFINE share == Share(L, o[2])
             E == [l \in share |-> l.subtotal]
  <2>1. {l \in L : H[l] = o} = share
    <3>1. o = <<k, o[2]>>
      BY DEF OrderIds
    <3> QED BY <3>1 DEF Share
  <2>2. G[o] = SumFunctionOnSet(E, share)
    BY <1>2 DEF Total, SumFunction
  <2>3. IsFiniteSet(share) /\ \A l \in share : E[l] = F[l]
    BY <1>1, FS_Subset DEF Share
  <2> HIDE DEF share, E, F, G, H, mine, L
  <2>4. SumFunctionOnSet(E, share) = SumFunctionOnSet(F, share)
    BY <2>3, SumAgrees
  <2> QED BY <2>1, <2>2, <2>4
<1>8. Total(L) = SumFunctionOnSet(F, L) /\ SumFunction(G) = SumFunctionOnSet(G, mine)
  BY DEF Total, SumFunction
<1>9. \A o \in mine : orders[o].subtotal = SumFunction([i \in orders[o].items |-> lineTotal(i)])
  BY <1>1, <1>2, ShareIsItems
<1>10. SumFunctionOnSet(F, L) = SumFunctionOnSet(G, mine)
  <2> HIDE DEF F, G, H, mine, L
  <2>1. Sorts(H, L, mine, F, G) /\ \A l \in L : F[l] \in Int
    BY <1>5, <1>7 DEF Sorts
  <2> QED BY <1>1, <1>6, <2>1, SumParts
<1> QED BY <1>4, <1>8, <1>9, <1>10

\* Orders exist only against their session's one successful charge, add up to
\* it, and are each the sum of their lines (CheckoutService: chargeSession,
\* writeOrders; the order lists' lineTotal).
THEOREM ChargesAreMatched == ShopSpec => []OrdersMatchCharge
<1>1. ShopInv => OrdersMatchCharge
  BY OrdersAddUp
<1> QED BY <1>1, ShopInvariance, PTL

\* A set whose members are all one thing has at most one.
LEMMA AtMostOne ==
  ASSUME NEW S, \A x, y \in S : x = y
  PROVE  Cardinality(S) <= 1
<1>1. CASE S = {}
  BY <1>1, FS_EmptySet
<1>2. ASSUME NEW x \in S PROVE Cardinality(S) <= 1
  <2>1. S = {x}
    OBVIOUS
  <2> QED BY <2>1, FS_Singleton
<1> QED BY <1>1, <1>2

\* A lot is paid for once, by its winner, at the price it fell for, whatever
\* payments race for it (priceAuction, the unique index on the auction of an
\* order item).
THEOREM LotsArePaidOnce == ShopSpec => []LotsPaidOnce
<1>1. ShopInv => LotsPaidOnce
  <2> SUFFICES ASSUME ShopInv, NEW l \in Lots
               PROVE  LET paid == {o \in OrderIds : \E i \in orders[o].items : i.auctionId = l}
                      IN  /\ Cardinality(paid) <= 1
                          /\ \A o \in paid :
                               /\ orders[o].buyerId = Lot[l].winnerUserId
                               /\ o[2] = Lot[l].sellerId
                               /\ [productId |-> Null, auctionId |-> l, quantity |-> 1,
                                   unitPrice |-> Lot[l].soldPrice] \in orders[o].items
    BY DEF LotsPaidOnce
  <2> DEFINE paid == {o \in OrderIds : \E i \in orders[o].items : i.auctionId = l}
  <2>1. l # Null
    BY ShopAssumption
  <2>2. ASSUME NEW o \in paid
        PROVE  /\ LotLine(l) \in checkouts[o[1]].lines
               /\ orders[o].buyerId = Lot[l].winnerUserId /\ o[2] = Lot[l].sellerId
               /\ [productId |-> Null, auctionId |-> l, quantity |-> 1,
                   unitPrice |-> Lot[l].soldPrice] \in orders[o].items
    <3>1. PICK c : c = checkouts[o[1]]
      OBVIOUS
    <3>2. /\ orders[o].items = ItemsOf(Share(c.lines, o[2])) /\ orders[o].buyerId = c.buyerId
          /\ LinesOK(c.buyerId, c.lines)
      BY <3>1, SessionFacts DEF CheckoutOK, ShopInv, Ledger, Grounded, OrderIds
    <3>3. PICK i \in orders[o].items : i.auctionId = l
      OBVIOUS
    <3>4. PICK m \in c.lines : m.sellerId = o[2] /\ i = ItemOf(m) /\ m.auctionId = l
      BY <3>2, <3>3 DEF ItemsOf, Share, ItemOf
    <3>5. m.productId = Null
      BY <2>1, <3>2, <3>4 DEF LinesOK
    <3>6. m = LotLine(l) /\ Lot[l].winnerUserId = c.buyerId
      BY <3>2, <3>4, <3>5 DEF LinesOK
    <3>7. i = [productId |-> Null, auctionId |-> l, quantity |-> 1,
               unitPrice |-> Lot[l].soldPrice] /\ m.sellerId = Lot[l].sellerId
      BY <3>4, <3>6 DEF ItemOf, LotLine
    <3> QED BY <3>1, <3>2, <3>4, <3>6, <3>7
  <2>3. LotLine(l).auctionId = l
    BY DEF LotLine
  <2>4. ASSUME NEW o \in paid, NEW q \in paid PROVE o = q
    <3>1. o[1] = q[1]
      BY <2>1, <2>2, <2>3 DEF ShopInv, LotsApart
    <3>2. o[2] = q[2]
      BY <2>2
    <3> QED BY <3>1, <3>2 DEF OrderIds
  <2> HIDE DEF paid
  <2>5. Cardinality(paid) <= 1
    BY <2>4, AtMostOne
  <2> QED BY <2>2, <2>5 DEF paid
<1> QED BY <1>1, ShopInvariance, PTL

\* An accepted offer is spent by one session, and buys what was agreed
\* (verifyAndConsumeAcceptToken, priceOffer).
THEOREM OffersAreSpentOnce == ShopSpec => []OffersSpentOnce
<1>1. ShopInv => OffersSpentOnce
  <2> SUFFICES ASSUME ShopInv, NEW n \in DOMAIN offers
               PROVE  LET spent == {k \in Sessions : checkouts[k].offer = n}
                      IN  /\ Cardinality(spent) <= 1
                          /\ \A k \in spent, o \in OrderIds :
                               o[1] = k =>
                                 /\ orders[o].buyerId = offers[n].buyerId
                                 /\ orders[o].items =
                                      {[productId |-> offers[n].productId, auctionId |-> Null,
                                        quantity |-> offers[n].quantity,
                                        unitPrice |-> offers[n].offerAmount]}
    BY DEF OffersSpentOnce
  <2> DEFINE spent == {k \in Sessions : checkouts[k].offer = n}
  <2>1. n # 0
    <3>1. DOMAIN offers = 1 .. Len(offers) /\ Len(offers) \in Nat
      BY LenProperties DEF ShopInv, Bargains
    <3> QED BY <3>1
  <2>2. \A j, k \in spent : j = k
    BY <2>1 DEF ShopInv, Sales
  <2>3. ASSUME NEW k \in spent, NEW o \in OrderIds, o[1] = k
        PROVE  /\ orders[o].buyerId = offers[n].buyerId
               /\ orders[o].items = {[productId |-> offers[n].productId, auctionId |-> Null,
                                      quantity |-> offers[n].quantity,
                                      unitPrice |-> offers[n].offerAmount]}
    <3>1. PICK c : c = checkouts[k]
      OBVIOUS
    <3>2. c.offer = n /\ SpentOK(c)
      BY <3>1, SessionFacts DEF CheckoutOK
    <3>3. /\ orders[o].items = ItemsOf(Share(c.lines, o[2])) /\ orders[o].buyerId = c.buyerId
          /\ Share(c.lines, o[2]) # {}
      BY <2>3, <3>1 DEF ShopInv, Ledger, Grounded
    <3>4. c.lines # {}
      BY <3>3 DEF Share
    <3>5. c.lines = {OfferLine(n)} /\ c.buyerId = offers[n].buyerId
      BY <2>1, <3>2, <3>4 DEF SpentOK
    <3>6. Share(c.lines, o[2]) = {OfferLine(n)}
      BY <3>3, <3>5 DEF Share
    <3>7. ItemsOf(Share(c.lines, o[2])) = {ItemOf(OfferLine(n))}
      BY <3>6 DEF ItemsOf
    <3> QED BY <3>3, <3>5, <3>7 DEF ItemOf, OfferLine
  <2> HIDE DEF spent
  <2>4. Cardinality(spent) <= 1
    BY <2>2, AtMostOne
  <2> QED BY <2>3, <2>4 DEF spent
<1> QED BY <1>1, ShopInvariance, PTL

\* A price below the one asked is accepted only where this buyer had been offered
\* it and the counter was still in the window (decide, findOutstandingCounter).
THEOREM DiscountsAreOffered == ShopSpec => []DiscountsWereOffered
<1>1. ShopInv => DiscountsWereOffered
  BY DEF ShopInv, Bargains
<1> QED BY <1>1, ShopInvariance, PTL

\* Parcels only walk forward along the table, the buyer is told of each step,
\* and an order is cancelled exactly with its parcel, whatever calls race for
\* it (ShipmentService.updateStatus).
THEOREM ParcelsOnlyWalkForward == ShopSpec => []ParcelsWalkForward
<1>1. ShopInv => ParcelsWalkForward
  BY DEF ShopInv, Ledger, Walked, ParcelsWalkForward
<1> QED BY <1>1, ShopInvariance, PTL

-----------------------------------------------------------------------------
(***************************************************************************)
(* ShopFront: what a receipt and a refusal say of the money, for every     *)
(* number of tabs, sessions and other people's calls.                      *)
(*                                                                         *)
(* FrontInv adds to ShopInv what a session's answer says of its charge and *)
(* orders, and what a tab may hold of its session.  A session that was     *)
(* asked for keeps its buyer, and one that answered changes no more, so a  *)
(* tab may show an old answer.                                             *)
(***************************************************************************)

\* The refusals that come before any charge.
Unsold == {"ITEMS_UNAVAILABLE", "CART_EMPTY", "AUCTION_UNPAYABLE", "OFFER_UNUSABLE"}

Answer(k) ==
  LET c == checkouts[k]
  IN  /\ c.pc \in {"idle", "offer", "priced"} => payments[k] = Null
      /\ c.pc \in {"priced", "charged"} => c.lines # {}
      /\ c.pc = "announce" \/ (c.pc = "done" /\ c.code = "OK") => Bought(k) # {}
      /\ c.pc = "done" /\ c.code \in Unsold \cup {"PAYMENT_DECLINED"} => ~Taken(k)
      /\ c.pc = "done" /\ c.code = "STOCK_LOST_AFTER_CHARGE" => Taken(k) /\ Bought(k) = {}

Answers == \A k \in Sessions : Answer(k)

TabFields == DOMAIN ClosedTab
IsTab(r) == DOMAIN r = TabFields /\ r = [f \in TabFields |-> r[f]]

\* What tab t may hold in row r.
Holds(t, r) ==
  LET c == checkouts[r.session]
  IN  /\ IsTab(r)
      /\ r.page # "closed" => /\ r.kind = "AUCTION" => r.target \in Lots
                              /\ r.kind = "OFFER" => r.target \in DOMAIN offers
      /\ r.page \in {"sent", "paying", "receipt", "failed"} => r.session \in Sessions
      /\ r.page \in {"paying", "receipt", "failed"} => c.pc # "idle" /\ c.buyerId = UserOf[t]
      /\ r.page = "receipt" => c.pc = "done" /\ c.code = "OK"
      /\ r.page = "failed" => \/ r.failure = checkoutFailure(Null)
                              \/ c.pc = "done" /\ r.failure = checkoutFailure(c.code)

TabsOK == DOMAIN tabs = Tabs /\ \A t \in Tabs : Holds(t, tabs[t])

FrontInv == ShopInv /\ Answers /\ TabsOK

\* A session that was asked for keeps its buyer, and an answer is final; offers
\* are only added.
SessionKept(k) ==
  /\ checkouts[k].pc # "idle" => /\ checkouts'[k].pc # "idle"
                                 /\ checkouts'[k].buyerId = checkouts[k].buyerId
  /\ checkouts[k].pc = "done" => checkouts'[k] = checkouts[k]

Onward == DOMAIN offers \subseteq DOMAIN offers' /\ \A k \in Sessions : SessionKept(k)

-----------------------------------------------------------------------------
(***************************************************************************)
(* Sessions answer once                                                    *)
(***************************************************************************)

\* A step of session k leaves the other answers as they are.
LEMMA OneAnswers ==
  ASSUME Answers, NEW k \in Sessions, Answer(k)', SessionKept(k),
         \A j \in Sessions \ {k} : checkouts'[j] = checkouts[j] /\ payments'[j] = payments[j],
         \A o \in (OrderIds' \ OrderIds) \cup (OrderIds \ OrderIds') : o[1] = k
  PROVE  Answers' /\ \A j \in Sessions : SessionKept(j)
<1>1. ASSUME NEW j \in Sessions \ {k} PROVE Answer(j)' /\ SessionKept(j)
  <2>1. Bought(j)' = Bought(j)
    BY DEF Bought
  <2>2. Taken(j)' = Taken(j)
    BY DEF Taken
  <2> QED BY <2>1, <2>2 DEF Answers, Answer, SessionKept
<1> QED BY <1>1 DEF Answers

\* A session is priced, with something to pay for, or refused before any charge.
LEMMA PricedAnswers ==
  ASSUME ShopInv, Answers, NEW k \in Sessions, checkouts[k].pc \in {"idle", "offer"},
         NEW b \in Buyers, NEW code, NEW lines, Priced(k, b, code, lines),
         code \in Unsold \cup {"OK", "AUCTION_ALREADY_PAID"}, code = "OK" => lines # {},
         checkouts[k].pc = "offer" => b = checkouts[k].buyerId,
         UNCHANGED <<payments, orders, offers>>
  PROVE  /\ Answers' /\ Onward
         /\ checkouts'[k].pc # "idle" /\ checkouts'[k].buyerId = b
<1>1. PICK x : x = checkouts[k]
  OBVIOUS
<1>2. x \in CheckoutRow /\ x.pc \in {"idle", "offer"} /\ payments[k] = Null
      /\ checkouts \in [Sessions -> CheckoutRow]
  BY <1>1 DEF Answers, Answer, ShopInv, Sales
<1>3. PICK c : /\ checkouts' = [checkouts EXCEPT ![k] = c] /\ c.buyerId = b
               /\ \/ c.pc = "priced" /\ c.lines # {}
                  \/ c.pc = "done" /\ c.code = code /\ code # "OK"
  <2>1. CASE code = "OK"
    <3>1. PICK c : c = [x EXCEPT !.pc = "priced", !.buyerId = b, !.lines = lines,
                                 !.ids = {l.lineId : l \in lines} \ {0}]
      OBVIOUS
    <3>2. c.pc = "priced" /\ c.lines = lines /\ c.buyerId = b
      BY <1>2, <3>1 DEF CheckoutRow
    <3>3. checkouts' = [checkouts EXCEPT ![k] = c]
      BY <1>1, <2>1, <3>1 DEF Priced
    <3> QED BY <2>1, <3>2, <3>3
  <2>2. CASE code # "OK"
    <3>1. PICK c : c = [x EXCEPT !.pc = "done", !.buyerId = b, !.code = code]
      OBVIOUS
    <3>2. c.pc = "done" /\ c.code = code /\ c.buyerId = b
      BY <1>2, <3>1 DEF CheckoutRow
    <3>3. checkouts' = [checkouts EXCEPT ![k] = c]
      BY <1>1, <2>2, <3>1 DEF Priced
    <3> QED BY <2>2, <3>2, <3>3
  <2> QED BY <2>1, <2>2
<1>4. checkouts'[k] = c /\ \A j \in Sessions \ {k} : checkouts'[j] = checkouts[j]
  BY <1>2, <1>3
<1>5. SessionKept(k)
  BY <1>1, <1>2, <1>3, <1>4 DEF SessionKept
<1>6. OrderIds' = OrderIds /\ payments'[k] = Null
  BY <1>2 DEF OrderIds
<1>7. ~Taken(k)'
  BY <1>6 DEF Taken
<1>8. Answer(k)'
  BY <1>3, <1>4, <1>6, <1>7 DEF Answer, Unsold
<1>9. Answers' /\ \A j \in Sessions : SessionKept(j)
  BY <1>4, <1>5, <1>6, <1>8, OneAnswers
<1> QED BY <1>3, <1>4, <1>9 DEF Onward

\* Pricing a cart, whatever lines the request names.
LEMMA CartAnswers ==
  ASSUME ShopInv, Answers, NEW k \in Sessions, NEW b \in Buyers, NEW ids, PriceCart(k, b, ids)
  PROVE  Answers' /\ Onward /\ checkouts'[k].pc # "idle" /\ checkouts'[k].buyerId = b
<1>1. CartRefusal(b, ids) \in Unsold \cup {"OK", "AUCTION_ALREADY_PAID"}
  BY DEF CartRefusal, Unsold
<1>2. CartRefusal(b, ids) = "OK" => CartLines(b, ids) # {}
  <2>1. CartRefusal(b, ids) = "OK" => {p \in Lines(b) : ids = {} \/ cart[b][p].id \in ids} # {}
    BY DEF CartRefusal
  <2> QED BY <2>1 DEF CartLines
<1>3. /\ checkouts[k].pc = "idle" /\ Priced(k, b, CartRefusal(b, ids), CartLines(b, ids))
      /\ UNCHANGED <<payments, orders, offers>>
  BY DEF PriceCart, shopStoreVars, hagglingVars
<1> QED BY <1>1, <1>2, <1>3, PricedAnswers

\* Pricing a lot.
LEMMA LotAnswers ==
  ASSUME ShopInv, Answers, NEW k \in Sessions, NEW b \in Buyers, NEW l, PriceAuction(k, b, l)
  PROVE  Answers' /\ Onward /\ checkouts'[k].pc # "idle" /\ checkouts'[k].buyerId = b
<1>1. LotRefusal(b, l) \in Unsold \cup {"OK", "AUCTION_ALREADY_PAID"}
  BY DEF LotRefusal, Unsold
<1>2. /\ checkouts[k].pc = "idle" /\ Priced(k, b, LotRefusal(b, l), {LotLine(l)})
      /\ UNCHANGED <<payments, orders, offers>> /\ {LotLine(l)} # {}
  BY DEF PriceAuction, shopStoreVars, hagglingVars
<1> QED BY <1>1, <1>2, PricedAnswers

\* Spending an offer, and pricing what was spent.
LEMMA OfferAnswers ==
  ASSUME ShopInv, Answers, NEW k \in Sessions, PriceOffer(k)
  PROVE  Answers' /\ Onward
<1>1. PICK b, n : b = checkouts[k].buyerId /\ n = checkouts[k].offer
  OBVIOUS
<1>2. b \in Buyers /\ checkouts[k].pc = "offer"
  BY <1>1, SessionFacts DEF PriceOffer, CheckoutOK
<1>3. OfferRefusal(b, n) \in Unsold \cup {"OK", "AUCTION_ALREADY_PAID"}
  BY DEF OfferRefusal, Unsold
<1>4. /\ Priced(k, b, OfferRefusal(b, n), {OfferLine(n)}) /\ {OfferLine(n)} # {}
      /\ UNCHANGED <<payments, orders, offers>>
  BY <1>1 DEF PriceOffer, shopStoreVars, hagglingVars
<1> QED BY <1>1, <1>2, <1>3, <1>4, PricedAnswers

LEMMA SpendAnswers ==
  ASSUME ShopInv, Answers, NEW k \in Sessions, NEW b \in Buyers, NEW n \in DOMAIN offers,
         SpendOffer(k, b, n)
  PROVE  Answers' /\ Onward /\ checkouts'[k].pc # "idle" /\ checkouts'[k].buyerId = b
<1>1. PICK x : x = checkouts[k]
  OBVIOUS
<1>2. x \in CheckoutRow /\ x.pc = "idle" /\ payments[k] = Null
      /\ checkouts \in [Sessions -> CheckoutRow]
  BY <1>1 DEF SpendOffer, Answers, Answer, ShopInv, Sales
<1>3. UNCHANGED <<payments, orders>> /\ DOMAIN offers' = DOMAIN offers
  BY DEF SpendOffer, shopStoreVars, verifyAndConsumeAcceptToken
<1>4. PICK c : /\ checkouts' = [checkouts EXCEPT ![k] = c] /\ c.buyerId = b
               /\ c.pc = "offer" \/ (c.pc = "done" /\ c.code = "OFFER_UNUSABLE")
  <2>1. CASE checkouts' = [checkouts EXCEPT ![k].pc = "offer", ![k].buyerId = b, ![k].offer = n]
    <3>1. PICK c : c = [x EXCEPT !.pc = "offer", !.buyerId = b, !.offer = n]
      OBVIOUS
    <3>2. c.pc = "offer" /\ c.buyerId = b
      BY <1>2, <3>1 DEF CheckoutRow
    <3>3. checkouts' = [checkouts EXCEPT ![k] = c]
      BY <1>1, <1>2, <2>1, <3>1
    <3> QED BY <3>2, <3>3
  <2>2. CASE checkouts' = [checkouts EXCEPT ![k].pc = "done", ![k].buyerId = b,
                                            ![k].code = "OFFER_UNUSABLE"]
    <3>1. PICK c : c = [x EXCEPT !.pc = "done", !.buyerId = b, !.code = "OFFER_UNUSABLE"]
      OBVIOUS
    <3>2. c.pc = "done" /\ c.buyerId = b /\ c.code = "OFFER_UNUSABLE"
      BY <1>2, <3>1 DEF CheckoutRow
    <3>3. checkouts' = [checkouts EXCEPT ![k] = c]
      BY <1>1, <1>2, <2>2, <3>1
    <3> QED BY <3>2, <3>3
  <2> QED BY <2>1, <2>2 DEF SpendOffer
<1>5. checkouts'[k] = c /\ \A j \in Sessions \ {k} : checkouts'[j] = checkouts[j]
  BY <1>2, <1>4
<1>6. SessionKept(k)
  BY <1>1, <1>2 DEF SessionKept
<1>7. OrderIds' = OrderIds /\ payments'[k] = Null
  BY <1>2, <1>3 DEF OrderIds
<1>8. ~Taken(k)'
  BY <1>7 DEF Taken
<1>9. Answer(k)'
  BY <1>4, <1>5, <1>7, <1>8 DEF Answer, Unsold
<1>10. Answers' /\ \A j \in Sessions : SessionKept(j)
  BY <1>3, <1>5, <1>6, <1>7, <1>9, OneAnswers
<1> QED BY <1>3, <1>4, <1>5, <1>10 DEF Onward

\* The charge: the session goes on paid for, or answers that it was declined.
LEMMA ChargeAnswers ==
  ASSUME ShopInv, Answers, NEW k \in Sessions, ChargeSession(k)
  PROVE  Answers' /\ Onward
<1>1. PICK x, r : x = checkouts[k] /\ r = charge(Total(x.lines))
  OBVIOUS
<1>2. /\ x \in CheckoutRow /\ x.pc = "priced" /\ x.lines # {}
      /\ checkouts \in [Sessions -> CheckoutRow] /\ payments \in [Sessions -> Charge \cup {Null}]
  BY <1>1 DEF ChargeSession, Answers, Answer, ShopInv, Sales, Ledger
<1>3. UNCHANGED <<orders, offers>> /\ payments' = [payments EXCEPT ![k] = r]
  BY <1>1 DEF ChargeSession, hagglingVars
<1>4. PICK c : /\ checkouts' = [checkouts EXCEPT ![k] = c] /\ c.buyerId = x.buyerId
               /\ \/ c.pc = "charged" /\ c.lines # {}
                  \/ c.pc = "done" /\ c.code = "PAYMENT_DECLINED" /\ r.status = "FAILED"
  <2>1. CASE r.status = "FAILED"
    <3>1. PICK c : c = [x EXCEPT !.pc = "done", !.code = "PAYMENT_DECLINED", !.sessionId = TRUE]
      OBVIOUS
    <3>2. c.pc = "done" /\ c.code = "PAYMENT_DECLINED" /\ c.buyerId = x.buyerId
      BY <1>2, <3>1 DEF CheckoutRow
    <3>3. checkouts' = [checkouts EXCEPT ![k] = c]
      BY <1>1, <2>1, <3>1 DEF ChargeSession
    <3> QED BY <2>1, <3>2, <3>3
  <2>2. CASE r.status # "FAILED"
    <3>1. PICK c : c = [x EXCEPT !.pc = "charged"]
      OBVIOUS
    <3>2. c.pc = "charged" /\ c.lines = x.lines /\ c.buyerId = x.buyerId
      BY <1>2, <3>1 DEF CheckoutRow
    <3>3. checkouts' = [checkouts EXCEPT ![k] = c]
      BY <1>1, <2>2, <3>1 DEF ChargeSession
    <3> QED BY <1>2, <3>2, <3>3
  <2> QED BY <2>1, <2>2
<1>5. /\ checkouts'[k] = c /\ payments'[k] = r /\ OrderIds' = OrderIds
      /\ \A j \in Sessions \ {k} : checkouts'[j] = checkouts[j] /\ payments'[j] = payments[j]
  BY <1>2, <1>3, <1>4 DEF OrderIds
<1>6. SessionKept(k)
  BY <1>1, <1>2, <1>4, <1>5 DEF SessionKept
<1>7. c.pc = "done" => ~Taken(k)'
  BY <1>4, <1>5 DEF Taken
<1>8. Answer(k)'
  BY <1>4, <1>5, <1>7 DEF Answer, Unsold
<1>9. Answers' /\ \A j \in Sessions : SessionKept(j)
  BY <1>5, <1>6, <1>8, OneAnswers
<1> QED BY <1>3, <1>9 DEF Onward

\* The orders are written: something was bought.
LEMMA WriteAnswers ==
  ASSUME ShopInv, Answers, NEW k \in Sessions, WriteOrders(k)
  PROVE  Answers' /\ Onward
<1>1. PICK x, c : x = checkouts[k] /\ c = [x EXCEPT !.pc = "announce"]
  OBVIOUS
<1>2. /\ x \in CheckoutRow /\ x.pc = "charged" /\ x.lines # {}
      /\ checkouts \in [Sessions -> CheckoutRow]
  BY <1>1 DEF WriteOrders, Answers, Answer, ShopInv, Sales
<1>3. c.pc = "announce" /\ c.buyerId = x.buyerId
  BY <1>1, <1>2 DEF CheckoutRow
<1>4. checkouts' = [checkouts EXCEPT ![k] = c] /\ UNCHANGED <<payments, offers>>
  BY <1>1, <1>2 DEF WriteOrders, hagglingVars
<1>5. checkouts'[k] = c /\ \A j \in Sessions \ {k} : checkouts'[j] = checkouts[j]
  BY <1>2, <1>4
<1>6. PICK N : /\ N = {<<k, s>> : s \in SellersOf(k)} /\ OrderIds' = OrderIds \cup N
               /\ \A o \in N : o[1] = k
  BY OrdersWritten
<1>7. Bought(k)' # {}
  <2>1. N # {} /\ N \subseteq OrderIds'
    BY <1>1, <1>2, <1>6 DEF SellersOf
  <2> QED BY <2>1, <1>6 DEF Bought
<1>8. Answer(k)' /\ SessionKept(k)
  BY <1>1, <1>2, <1>3, <1>5, <1>7 DEF Answer, SessionKept
<1>9. Answers' /\ \A j \in Sessions : SessionKept(j)
  BY <1>4, <1>5, <1>6, <1>8, OneAnswers
<1> QED BY <1>4, <1>9 DEF Onward

\* A session ends: its orders were refused, or are announced, or it dies.
LEMMA CloseAnswers ==
  ASSUME ShopInv, Answers, NEW k \in Sessions,
         LoseOrders(k) \/ AnnounceOrders(k) \/ CrashCheckout(k)
  PROVE  Answers' /\ Onward
<1>1. PICK x : x = checkouts[k]
  OBVIOUS
<1>2. /\ x \in CheckoutRow /\ checkouts \in [Sessions -> CheckoutRow]
      /\ x.pc \in {"offer", "priced", "charged", "announce"}
  BY <1>1 DEF LoseOrders, AnnounceOrders, CrashCheckout, ShopInv, Sales
<1>3. UNCHANGED <<payments, orders, offers>>
  BY DEF LoseOrders, AnnounceOrders, CrashCheckout, shopStoreVars, hagglingVars
<1>4. PICK c : /\ checkouts' = [checkouts EXCEPT ![k] = c] /\ c.buyerId = x.buyerId
               /\ \/ c.pc = "dead"
                  \/ c.pc = "done" /\ c.code = "OK" /\ x.pc = "announce"
                  \/ /\ c.pc = "done" /\ x.pc = "charged"
                     /\ c.code \in {"AUCTION_ALREADY_PAID", "STOCK_LOST_AFTER_CHARGE"}
  <2>1. CASE LoseOrders(k)
    <3>1. PICK code \in {"AUCTION_ALREADY_PAID", "STOCK_LOST_AFTER_CHARGE"} :
            checkouts' = [checkouts EXCEPT ![k].pc = "done", ![k].sessionId = TRUE,
                                           ![k].code = code]
      BY <2>1 DEF LoseOrders
    <3>2. PICK c : c = [x EXCEPT !.pc = "done", !.sessionId = TRUE, !.code = code]
      OBVIOUS
    <3>3. c.pc = "done" /\ c.buyerId = x.buyerId /\ c.code = code
      BY <1>2, <3>2 DEF CheckoutRow
    <3>4. checkouts' = [checkouts EXCEPT ![k] = c]
      BY <1>1, <1>2, <3>1, <3>2
    <3> QED BY <1>1, <2>1, <3>3, <3>4 DEF LoseOrders
  <2>2. CASE AnnounceOrders(k)
    <3>1. PICK c : c = [x EXCEPT !.pc = "done", !.code = "OK"]
      OBVIOUS
    <3>2. c.pc = "done" /\ c.buyerId = x.buyerId /\ c.code = "OK"
      BY <1>2, <3>1 DEF CheckoutRow
    <3>3. checkouts' = [checkouts EXCEPT ![k] = c] /\ x.pc = "announce"
      BY <1>1, <1>2, <2>2, <3>1 DEF AnnounceOrders
    <3> QED BY <3>2, <3>3
  <2>3. CASE CrashCheckout(k)
    <3>1. PICK c : c = [x EXCEPT !.pc = "dead"]
      OBVIOUS
    <3>2. c.pc = "dead" /\ c.buyerId = x.buyerId
      BY <1>2, <3>1 DEF CheckoutRow
    <3>3. checkouts' = [checkouts EXCEPT ![k] = c]
      BY <1>1, <1>2, <2>3, <3>1 DEF CrashCheckout
    <3> QED BY <3>2, <3>3
  <2> QED BY <2>1, <2>2, <2>3
<1>5. /\ checkouts'[k] = c /\ OrderIds' = OrderIds
      /\ \A j \in Sessions \ {k} : checkouts'[j] = checkouts[j]
  BY <1>2, <1>3, <1>4 DEF OrderIds
<1>6. x.pc = "charged" => Taken(k)' /\ Bought(k)' = {}
  <2> SUFFICES ASSUME x.pc = "charged" PROVE Taken(k)' /\ Bought(k)' = {}
    OBVIOUS
  <2>1. payments[k] = Taking(x.lines) /\ x.lines \subseteq PricedLine /\ IsFiniteSet(x.lines)
        /\ \A o \in OrderIds : o[1] # k
    BY <1>1, SessionFacts DEF ShopInv, Ledger
  <2>2. Taking(x.lines) \in Charge /\ Taking(x.lines).status = "SUCCEEDED"
    BY <2>1, TotalIsNumber DEF Taking, Charge
  <2>3. Taken(k)'
    BY <1>3, <2>1, <2>2, RowsAssumption DEF Taken
  <2> QED BY <1>5, <2>1, <2>3 DEF Bought
<1>7. x.pc = "announce" => Bought(k)' # {}
  BY <1>1, <1>5 DEF Answers, Answer, Bought
<1>8. Answer(k)' /\ SessionKept(k)
  BY <1>1, <1>2, <1>4, <1>5, <1>6, <1>7 DEF Answer, SessionKept, Unsold
<1>9. Answers' /\ \A j \in Sessions : SessionKept(j)
  BY <1>3, <1>5, <1>8, OneAnswers
<1> QED BY <1>3, <1>9 DEF Onward

\* The server's steps of a session.
LEMMA ServingAnswers ==
  ASSUME ShopInv, Answers, NEW k \in Sessions, ServeCheckout(k),
         UNCHANGED <<shelf, cartCalls, parcelCalls>>
  PROVE  ShopInv' /\ Answers' /\ Onward
<1>1. CASE PriceOffer(k)
  BY <1>1, PricingKeeps, OfferAnswers
<1>2. CASE ChargeSession(k)
  BY <1>2, ChargingKeeps, ChargeAnswers
<1>3. CASE WriteOrders(k)
  BY <1>3, WritingKeeps, WriteAnswers
<1>4. CASE LoseOrders(k) \/ AnnounceOrders(k) \/ CrashCheckout(k)
  BY <1>4, ClosingKeeps, CloseAnswers
<1> QED BY <1>1, <1>2, <1>3, <1>4 DEF ServeCheckout

\* What everybody else does leaves charges and orders where they are.
LEMMA OthersAnswer ==
  ASSUME ShopInv, Answers, Selling \/ Filling \/ Offering \/ Shipping
  PROVE  ShopInv' /\ Answers' /\ Onward
<1>1. ShopInv'
  BY SellingKeeps, FillingKeeps, OfferingKeeps, ShippingKeeps
<1>2. UNCHANGED <<checkouts, payments>>
  <2>1. CASE Selling
    BY <2>1 DEF Selling, ShelfStep, CreateProduct, ReadProduct, CountOrders, WriteProduct,
                shopStoreVars, catalogueElsewhere, checkoutVars
  <2>2. CASE Filling
    BY <2>2 DEF Filling, CartStep, ReadCart, WriteCart, ClearCart, shopStoreVars,
                basketElsewhere, checkoutVars
  <2>3. CASE Offering
    BY <2>3 DEF Offering, OfferStep, ReadListing, ReadOffers, InsertOffer, TickOffers, shopStoreVars,
                checkoutVars
  <2>4. CASE Shipping
    BY <2>4 DEF Shipping, ParcelStep, LoadParcel, MoveParcel, LoseParcel, AnnounceParcel,
                shopStoreVars, checkoutVars
  <2> QED BY <2>1, <2>2, <2>3, <2>4
<1>3. OrderIds' = OrderIds
  <2>1. CASE Selling
    BY <2>1 DEF Selling, ShelfStep, CreateProduct, ReadProduct, CountOrders, WriteProduct,
                shopStoreVars, catalogueElsewhere, OrderIds
  <2>2. CASE Filling
    BY <2>2 DEF Filling, CartStep, ReadCart, WriteCart, ClearCart, shopStoreVars,
                basketElsewhere, OrderIds
  <2>3. CASE Offering
    BY <2>3 DEF Offering, OfferStep, ReadListing, ReadOffers, InsertOffer, TickOffers, shopStoreVars, OrderIds
  <2>4. CASE Shipping
    <3>1. PICK k \in ParcelCalls : ParcelStep(k)
      BY <2>4 DEF Shipping
    <3>2. CASE MoveParcel(k)
      BY <3>2, OrderMoved
    <3>3. CASE LoadParcel(k) \/ LoseParcel(k) \/ AnnounceParcel(k)
      BY <3>3 DEF LoadParcel, LoseParcel, AnnounceParcel, shopStoreVars, OrderIds
    <3> QED BY <3>1, <3>2, <3>3 DEF ParcelStep
  <2> QED BY <2>1, <2>2, <2>3, <2>4
<1>4. DOMAIN offers \subseteq DOMAIN offers'
  <2>1. CASE UNCHANGED offers
    BY <2>1
  <2>2. ASSUME NEW n, offers' = Append(offers, n) PROVE DOMAIN offers \subseteq DOMAIN offers'
    <3>1. offers \in Seq(Offer) /\ offers' = Append(offers, n)
      BY <2>2 DEF ShopInv, Bargains
    <3>2. DOMAIN offers = 1 .. Len(offers) /\ Len(offers) \in Nat
      BY <3>1, LenProperties
    <3>3. DOMAIN offers' = 1 .. Len(offers) + 1
      BY <3>1
    <3> QED BY <3>2, <3>3
  <2>3. CASE Offering
    BY <2>1, <2>2, <2>3 DEF Offering, OfferStep, ReadListing, ReadOffers, InsertOffer, TickOffers
  <2>4. CASE Selling \/ Filling \/ Shipping
    BY <2>1, <2>4 DEF Selling, Filling, Shipping, hagglingVars
  <2> QED BY <2>3, <2>4
<1>5. \A k \in Sessions : Bought(k)' = Bought(k) /\ Taken(k)' = Taken(k)
  BY <1>2, <1>3 DEF Bought, Taken
<1>6. Answers'
  BY <1>2, <1>5 DEF Answers, Answer
<1> QED BY <1>1, <1>2, <1>4, <1>6 DEF Onward, SessionKept

\* Nothing of the shop changes.
LEMMA RestAnswers ==
  ASSUME ShopInv, Answers, UNCHANGED shopVars
  PROVE  ShopInv' /\ Answers' /\ Onward
<1>1. UNCHANGED <<payments, orders, checkouts, offers>>
  BY DEF shopVars, shopStoreVars, hagglingVars, checkoutVars
<1>2. OrderIds' = OrderIds
  BY <1>1 DEF OrderIds
<1>3. \A k \in Sessions : Bought(k)' = Bought(k) /\ Taken(k)' = Taken(k)
  BY <1>1, <1>2 DEF Bought, Taken
<1>4. Answers'
  BY <1>1, <1>3 DEF Answers, Answer
<1> QED BY <1>1, <1>4, ShopStands DEF Onward, SessionKept

-----------------------------------------------------------------------------
(***************************************************************************)
(* Tabs                                                                    *)
(***************************************************************************)

\* What a tab holds stays true while sessions go on.
LEMMA HoldsOn ==
  ASSUME NEW t \in Tabs, NEW r, Holds(t, r), Onward
  PROVE  Holds(t, r)'
<1>1. r.session \in Sessions => SessionKept(r.session)
  BY DEF Onward
<1> QED BY <1>1 DEF Holds, Onward, SessionKept

LEMMA TabsStand ==
  ASSUME TabsOK, Onward, UNCHANGED tabs
  PROVE  TabsOK'
<1>1. ASSUME NEW t \in Tabs PROVE Holds(t, tabs[t])'
  <2>1. PICK r : r = tabs[t]
    OBVIOUS
  <2>2. Holds(t, r)'
    BY <2>1, HoldsOn DEF TabsOK
  <2> QED BY <2>1, <2>2
<1> QED BY <1>1 DEF TabsOK

\* A tab turns to a row it may hold; the others stay where they are.
LEMMA TabTurns ==
  ASSUME TabsOK, Onward, NEW t \in Tabs, NEW r, Turn(t, r), Holds(t, r)'
  PROVE  TabsOK'
<1>1. DOMAIN tabs' = Tabs /\ tabs'[t] = r /\ \A s \in Tabs \ {t} : tabs'[s] = tabs[s]
  BY DEF Turn, TabsOK
<1>2. ASSUME NEW s \in Tabs \ {t} PROVE Holds(s, tabs[s])'
  <2>1. PICK q : q = tabs[s]
    OBVIOUS
  <2>2. Holds(s, q)'
    BY <2>1, HoldsOn DEF TabsOK
  <2> QED BY <1>1, <2>1, <2>2
<1> QED BY <1>1, <1>2 DEF TabsOK

\* A tab turns while the shop stands still.
LEMMA TabAlone ==
  ASSUME FrontInv, UNCHANGED shopVars, NEW t \in Tabs, NEW r, Turn(t, r), Holds(t, r)
  PROVE  FrontInv'
<1>1. ShopInv' /\ Answers' /\ Onward
  BY RestAnswers DEF FrontInv
<1>2. Holds(t, r)'
  BY <1>1, HoldsOn
<1>3. TabsOK'
  BY <1>1, <1>2, TabTurns DEF FrontInv
<1> QED BY <1>1, <1>3 DEF FrontInv

\* Opening pages and picking lines.
LEMMA BrowsingKeeps ==
  ASSUME FrontInv, NEW t \in Tabs,
         OpenCart(t) \/ FetchCart(t) \/ Tick(t) \/ Proceed(t) \/ OpenLot(t) \/ OpenOffer(t)
         \/ Retry(t)
  PROVE  FrontInv'
<1>1. PICK x : x = tabs[t]
  OBVIOUS
<1>2. Holds(t, x) /\ IsTab(x)
  BY <1>1 DEF FrontInv, TabsOK, Holds
<1>3. UNCHANGED shopVars
  BY DEF OpenCart, FetchCart, Tick, Proceed, OpenLot, OpenOffer, Retry, frontElsewhere
<1>4. \E r : Turn(t, r) /\ Holds(t, r)
  <2>1. CASE OpenCart(t)
    <3>1. PICK r : r = [ClosedTab EXCEPT !.page = "cart", !.kind = "CART", !.cart = x.cart]
      OBVIOUS
    <3>2. IsTab(r) /\ r.page = "cart" /\ r.kind = "CART"
      BY <3>1 DEF IsTab, TabFields, ClosedTab
    <3>3. Turn(t, r)
      BY <1>1, <2>1, <3>1 DEF OpenCart
    <3> QED BY <3>2, <3>3 DEF Holds
  <2>2. CASE FetchCart(t)
    <3>1. PICK items : items = FetchedCart(UserOf[t])
      OBVIOUS
    <3>2. PICK r : r = [x EXCEPT !.cart = items]
      OBVIOUS
    <3>3. /\ IsTab(r) /\ r.page = x.page /\ r.kind = x.kind /\ r.target = x.target
          /\ r.session = x.session /\ r.failure = x.failure
      BY <1>2, <3>2 DEF IsTab, TabFields, ClosedTab
    <3>4. Turn(t, r)
      BY <1>1, <2>2, <3>1, <3>2 DEF FetchCart
    <3> QED BY <1>2, <3>3, <3>4 DEF Holds
  <2>3. CASE Tick(t)
    <3>1. PICK ids : Turn(t, [tabs[t] EXCEPT !.unselected = ids])
      BY <2>3 DEF Tick
    <3>2. PICK r : r = [x EXCEPT !.unselected = ids]
      OBVIOUS
    <3>3. /\ IsTab(r) /\ r.page = x.page /\ r.kind = x.kind /\ r.target = x.target
          /\ r.session = x.session /\ r.failure = x.failure
      BY <1>2, <3>2 DEF IsTab, TabFields, ClosedTab
    <3>4. Turn(t, r)
      BY <1>1, <3>1, <3>2
    <3> QED BY <1>2, <3>3, <3>4 DEF Holds
  <2>4. CASE Proceed(t)
    <3>1. PICK picked : picked = checkoutHref(t)
      OBVIOUS
    <3>2. PICK r : r = [x EXCEPT !.page = "checkout", !.picked = picked]
      OBVIOUS
    <3>3. IsTab(r) /\ r.page = "checkout" /\ r.kind = x.kind /\ r.target = x.target
      BY <1>2, <3>2 DEF IsTab, TabFields, ClosedTab
    <3>4. Turn(t, r) /\ x.page = "cart"
      BY <1>1, <2>4, <3>1, <3>2 DEF Proceed
    <3> QED BY <1>2, <3>3, <3>4 DEF Holds
  <2>5. CASE OpenLot(t)
    <3>1. PICK l \in Lots :
            Turn(t, [ClosedTab EXCEPT !.page = "checkout", !.kind = "AUCTION", !.target = l])
      BY <2>5 DEF OpenLot
    <3>2. PICK r : r = [ClosedTab EXCEPT !.page = "checkout", !.kind = "AUCTION", !.target = l]
      OBVIOUS
    <3>3. IsTab(r) /\ r.page = "checkout" /\ r.kind = "AUCTION" /\ r.target = l
      BY <3>2 DEF IsTab, TabFields, ClosedTab
    <3> QED BY <3>1, <3>2, <3>3 DEF Holds
  <2>6. CASE OpenOffer(t)
    <3>1. PICK n \in DOMAIN offers :
            Turn(t, [ClosedTab EXCEPT !.page = "checkout", !.kind = "OFFER", !.target = n])
      BY <2>6 DEF OpenOffer
    <3>2. PICK r : r = [ClosedTab EXCEPT !.page = "checkout", !.kind = "OFFER", !.target = n]
      OBVIOUS
    <3>3. IsTab(r) /\ r.page = "checkout" /\ r.kind = "OFFER" /\ r.target = n
      BY <3>2 DEF IsTab, TabFields, ClosedTab
    <3> QED BY <3>1, <3>2, <3>3 DEF Holds
  <2>7. CASE Retry(t)
    <3>1. PICK r : r = [x EXCEPT !.page = "checkout", !.failure = Null]
      OBVIOUS
    <3>2. IsTab(r) /\ r.page = "checkout" /\ r.kind = x.kind /\ r.target = x.target
      BY <1>2, <3>1 DEF IsTab, TabFields, ClosedTab
    <3>3. Turn(t, r) /\ x.page = "failed"
      BY <1>1, <2>7, <3>1 DEF Retry
    <3> QED BY <1>2, <3>2, <3>3 DEF Holds
  <2> QED BY <2>1, <2>2, <2>3, <2>4, <2>5, <2>6, <2>7
<1> QED BY <1>3, <1>4, TabAlone

\* Sending the form.
LEMMA PayKeeps ==
  ASSUME FrontInv, NEW t \in Tabs, Pay(t)
  PROVE  FrontInv'
<1>1. PICK x : x = tabs[t]
  OBVIOUS
<1>2. Holds(t, x) /\ IsTab(x) /\ x.page = "checkout" /\ UNCHANGED shopVars
  BY <1>1 DEF FrontInv, TabsOK, Holds, Pay, frontElsewhere
<1>3. PICK k, shown, lines :
        /\ k \in Sessions
        /\ Turn(t, [tabs[t] EXCEPT !.page = "sent", !.session = k, !.shown = shown,
                                   !.lines = lines])
  <2> DEFINE j == CHOOSE j \in cast \cap Sessions : Unused(j)
  <2>1. \E i \in cast \cap Sessions : Unused(i)
    BY DEF Pay
  <2>2. j \in cast \cap Sessions
    BY <2>1
  <2>3. Turn(t, [tabs[t] EXCEPT !.page = "sent", !.session = j, !.shown = Shown(t),
                   !.lines = IF tabs[t].kind = "CART" THEN RequestedIds(t) ELSE {}])
    BY DEF Pay
  <2> HIDE DEF j
  <2> QED BY <2>2, <2>3
<1>4. PICK r : r = [x EXCEPT !.page = "sent", !.session = k, !.shown = shown, !.lines = lines]
  OBVIOUS
<1>5. IsTab(r) /\ r.page = "sent" /\ r.session = k /\ r.kind = x.kind /\ r.target = x.target
  BY <1>2, <1>4 DEF IsTab, TabFields, ClosedTab
<1>6. Turn(t, r) /\ Holds(t, r)
  BY <1>1, <1>2, <1>3, <1>4, <1>5 DEF Holds
<1> QED BY <1>2, <1>6, TabAlone

\* The request reaches the server.
LEMMA ArriveKeeps ==
  ASSUME FrontInv, NEW t \in Tabs, Arrive(t)
  PROVE  FrontInv'
<1>1. PICK x, k, b : x = tabs[t] /\ k = x.session /\ b = UserOf[t]
  OBVIOUS
<1>2. Holds(t, x) /\ IsTab(x) /\ x.page = "sent" /\ k \in Sessions /\ b \in Buyers
  BY <1>1, FrontAssumption DEF FrontInv, TabsOK, Holds, Arrive
<1>3. UNCHANGED <<shelf, cartCalls, parcelCalls>> /\ ShopInv /\ Answers /\ TabsOK
  BY DEF Arrive, FrontInv
<1>4. /\ ShopInv' /\ Answers' /\ Onward
      /\ checkouts'[k].pc # "idle" /\ checkouts'[k].buyerId = b
  <2>1. ASSUME NEW ids, PriceCart(k, b, ids)
        PROVE  /\ ShopInv' /\ Answers' /\ Onward
               /\ checkouts'[k].pc # "idle" /\ checkouts'[k].buyerId = b
    BY <1>2, <1>3, <2>1, PricingKeeps, CartAnswers
  <2>2. ASSUME NEW l \in Lots, PriceAuction(k, b, l)
        PROVE  /\ ShopInv' /\ Answers' /\ Onward
               /\ checkouts'[k].pc # "idle" /\ checkouts'[k].buyerId = b
    BY <1>2, <1>3, <2>2, PricingKeeps, LotAnswers
  <2>3. ASSUME NEW n \in DOMAIN offers, SpendOffer(k, b, n)
        PROVE  /\ ShopInv' /\ Answers' /\ Onward
               /\ checkouts'[k].pc # "idle" /\ checkouts'[k].buyerId = b
    BY <1>2, <1>3, <2>3, SpendingKeeps, SpendAnswers
  <2>4. \/ PriceCart(k, b, x.lines)
        \/ x.kind = "AUCTION" /\ PriceAuction(k, b, x.target)
        \/ x.kind = "OFFER" /\ SpendOffer(k, b, x.target)
    BY <1>1 DEF Arrive
  <2>5. /\ x.kind = "AUCTION" => x.target \in Lots
        /\ x.kind = "OFFER" => x.target \in DOMAIN offers
    BY <1>2 DEF Holds
  <2> QED BY <2>1, <2>2, <2>3, <2>4, <2>5
<1>5. PICK r : r = [x EXCEPT !.page = "paying"]
  OBVIOUS
<1>6. IsTab(r) /\ r.page = "paying" /\ r.session = k /\ r.kind = x.kind /\ r.target = x.target
  BY <1>1, <1>2, <1>5 DEF IsTab, TabFields, ClosedTab
<1>7. Holds(t, r)'
  BY <1>1, <1>2, <1>4, <1>6 DEF Holds, Onward
<1>8. Turn(t, r)
  BY <1>1, <1>5 DEF Arrive
<1>9. TabsOK'
  BY <1>3, <1>4, <1>7, <1>8, TabTurns
<1> QED BY <1>4, <1>9 DEF FrontInv

\* The answer is shown, or missed.
LEMMA AnsweredKeeps ==
  ASSUME FrontInv, NEW t \in Tabs, Answered(t) \/ NoAnswer(t)
  PROVE  FrontInv'
<1>1. PICK x, c : x = tabs[t] /\ c = checkouts[x.session]
  OBVIOUS
<1>2. /\ Holds(t, x) /\ IsTab(x) /\ x.page = "paying" /\ UNCHANGED shopVars
      /\ x.session \in Sessions /\ c.pc # "idle" /\ c.buyerId = UserOf[t]
      /\ x.kind = "AUCTION" => x.target \in Lots
      /\ x.kind = "OFFER" => x.target \in DOMAIN offers
  BY <1>1 DEF FrontInv, TabsOK, Holds, Answered, NoAnswer, frontElsewhere
<1>3. \E r : Turn(t, r) /\ Holds(t, r)
  <2>1. CASE Answered(t) /\ c.code = "OK"
    <3>1. PICK r : r = [x EXCEPT !.page = "receipt"]
      OBVIOUS
    <3>2. IsTab(r) /\ r.page = "receipt" /\ r.session = x.session /\ r.kind = x.kind
          /\ r.target = x.target
      BY <1>2, <3>1 DEF IsTab, TabFields, ClosedTab
    <3>3. Turn(t, r) /\ c.pc = "done"
      BY <1>1, <2>1, <3>1 DEF Answered
    <3> QED BY <1>1, <1>2, <2>1, <3>2, <3>3 DEF Holds
  <2>2. CASE Answered(t) /\ c.code # "OK"
    <3>1. PICK items, failure :
            /\ failure = checkoutFailure(c.code)
            /\ items = IF checkoutFailure(c.code).kind = "UNAVAILABLE" /\ x.kind = "CART"
                       THEN FetchedCart(UserOf[t]) ELSE x.cart
      OBVIOUS
    <3>2. PICK r : r = [x EXCEPT !.page = "failed", !.failure = failure, !.cart = items]
      OBVIOUS
    <3>3. IsTab(r) /\ r.page = "failed" /\ r.session = x.session /\ r.kind = x.kind
          /\ r.target = x.target /\ r.failure = failure
      BY <1>2, <3>2 DEF IsTab, TabFields, ClosedTab
    <3>4. Turn(t, r) /\ c.pc = "done"
      BY <1>1, <2>2, <3>1, <3>2 DEF Answered
    <3> QED BY <1>1, <1>2, <3>1, <3>3, <3>4 DEF Holds
  <2>3. CASE NoAnswer(t)
    <3>1. PICK failure : failure = checkoutFailure(Null)
      OBVIOUS
    <3>2. PICK r : r = [x EXCEPT !.page = "failed", !.failure = failure]
      OBVIOUS
    <3>3. IsTab(r) /\ r.page = "failed" /\ r.session = x.session /\ r.kind = x.kind
          /\ r.target = x.target /\ r.failure = failure
      BY <1>2, <3>2 DEF IsTab, TabFields, ClosedTab
    <3>4. Turn(t, r)
      BY <1>1, <2>3, <3>1, <3>2 DEF NoAnswer
    <3> QED BY <1>1, <1>2, <3>1, <3>3, <3>4 DEF Holds
  <2> QED BY <2>1, <2>2, <2>3
<1> QED BY <1>2, <1>3, TabAlone

-----------------------------------------------------------------------------
(***************************************************************************)
(* What follows                                                            *)
(***************************************************************************)

\* Nothing has been asked for at first.
LEMMA FrontStarts == FrontInit => FrontInv
<1> SUFFICES ASSUME FrontInit PROVE FrontInv
  OBVIOUS
<1>1. ShopInv
  BY ShopStarts DEF FrontInit
<1>2. Answers
  <2>1. \A k \in Sessions : checkouts[k].pc = "idle" /\ payments[k] = Null
    BY DEF FrontInit, ShopInit, CheckoutInit, ShopStoreInit, IdleCheckout
  <2> QED BY <2>1 DEF Answers, Answer
<1>3. TabsOK
  <2>1. IsTab(ClosedTab) /\ ClosedTab.page = "closed"
    BY DEF IsTab, TabFields, ClosedTab
  <2>2. \A t \in Tabs : tabs[t] = ClosedTab
    BY DEF FrontInit
  <2> QED BY <2>1, <2>2 DEF FrontInit, TabsOK, Holds
<1> QED BY <1>1, <1>2, <1>3 DEF FrontInv

\* FrontInv holds of every state of the shop and the tabs in front of it: what
\* a session that answered says of its charge and its orders, and what a tab
\* may hold of its session (checkout-view.tsx over CheckoutService).
THEOREM FrontInvariance == FrontSpec => []FrontInv
<1>1. FrontInv /\ [FrontNext]_<<shopVars, frontVars>> => FrontInv'
  <2> SUFFICES ASSUME FrontInv, [FrontNext]_<<shopVars, frontVars>> PROVE FrontInv'
    OBVIOUS
  <2>1. ASSUME ShopInv', Answers', Onward, UNCHANGED frontVars PROVE FrontInv'
    BY <2>1, TabsStand DEF FrontInv, frontVars
  <2>2. ASSUME NEW t \in Tabs, TabSteps(t) PROVE FrontInv'
    BY <2>2, BrowsingKeeps, PayKeeps, ArriveKeeps, AnsweredKeeps DEF TabSteps
  <2>3. CASE Serving
    BY <2>1, <2>3, ServingAnswers DEF Serving, FrontInv
  <2>4. CASE (Selling \/ Filling \/ Offering \/ Shipping) /\ UNCHANGED frontVars
    BY <2>1, <2>4, OthersAnswer DEF FrontInv
  <2>5. CASE UNCHANGED <<shopVars, frontVars>>
    BY <2>1, <2>5, RestAnswers DEF FrontInv
  <2>6. CASE ShopAtRest /\ UNCHANGED frontVars
    BY <2>5, <2>6 DEF ShopAtRest
  <2> QED BY <2>2, <2>3, <2>4, <2>5, <2>6 DEF FrontNext
<1> QED BY <1>1, FrontStarts, PTL DEF FrontSpec

\* A receipt on screen is of orders that exist, are this buyer's and add up to
\* what was charged, and no later change of the cart takes it down (CartGate
\* and Receipt of checkout-view.tsx).
THEOREM ReceiptsAreKept == FrontSpec => []ReceiptsStand
<1>1. FrontInv => ReceiptsStand
  <2> SUFFICES ASSUME FrontInv, NEW t \in Tabs, tabs[t].page = "receipt"
               PROVE  /\ CartGate(t) = "receipt"
                      /\ Bought(tabs[t].session) # {}
                      /\ \A o \in Bought(tabs[t].session) : orders[o].buyerId = UserOf[t]
                      /\ payments[tabs[t].session].amount =
                           SumFunction([o \in Bought(tabs[t].session) |-> orders[o].subtotal])
    BY DEF ReceiptsStand
  <2>1. PICK k : k = tabs[t].session
    OBVIOUS
  <2>2. /\ k \in Sessions /\ checkouts[k].pc = "done" /\ checkouts[k].code = "OK"
        /\ checkouts[k].buyerId = UserOf[t]
    BY <2>1 DEF FrontInv, TabsOK, Holds
  <2>3. Bought(k) # {}
    BY <2>2 DEF FrontInv, Answers, Answer
  <2>4. \A o \in Bought(k) : orders[o].buyerId = UserOf[t]
    BY <2>2 DEF Bought, FrontInv, ShopInv, Ledger, Grounded
  <2>5. payments[k].amount = SumFunction([o \in Bought(k) |-> orders[o].subtotal])
    BY <2>2, <2>3, OrdersAddUp DEF FrontInv, OrdersMatchCharge, Bought
  <2>6. CartGate(t) = "receipt"
    BY DEF CartGate
  <2> QED BY <2>1, <2>3, <2>4, <2>5, <2>6
<1> QED BY <1>1, FrontInvariance, PTL

\* A failure screen that names the reason is right about the money, a lot paid
\* for meanwhile excepted (checkoutFailure of lib/checkout, FailureOverlay).
THEOREM RefusalsAreTrue == FrontSpec => []RefusalsTellTheTruth
<1>1. FrontInv => RefusalsTellTheTruth
  <2> SUFFICES ASSUME FrontInv, NEW t \in Tabs, tabs[t].page = "failed",
                      tabs[t].failure.kind \in {"UNAVAILABLE", "DECLINED", "RACE_LOST"}
               PROVE  (Taken(tabs[t].session) /\ Bought(tabs[t].session) = {})
                        = tabs[t].failure.charged
    BY DEF RefusalsTellTheTruth
  <2>1. PICK k, code, failure :
          k = tabs[t].session /\ code = checkouts[k].code /\ failure = tabs[t].failure
    OBVIOUS
  <2>2. checkoutFailure(Null).kind = "UNKNOWN"
    BY FrontAssumption DEF checkoutFailure, Codes, CheckoutErrorCode
  <2>3. k \in Sessions /\ checkouts[k].pc = "done" /\ failure = checkoutFailure(code)
    BY <2>1, <2>2 DEF FrontInv, TabsOK, Holds
  <2>4. \/ code \in Unsold \cup {"PAYMENT_DECLINED"} /\ failure.charged = FALSE
        \/ code = "STOCK_LOST_AFTER_CHARGE" /\ failure.charged = TRUE
    <3>1. CASE code \in Unsold
      BY <2>3, <3>1 DEF checkoutFailure, Unsold
    <3>2. CASE code = "STOCK_LOST_AFTER_CHARGE"
      BY <2>3, <3>2 DEF checkoutFailure
    <3>3. CASE code = "PAYMENT_DECLINED"
      BY <2>3, <3>3 DEF checkoutFailure
    <3>4. CASE code = "AUCTION_ALREADY_PAID"
      BY <2>1, <2>3, <3>4 DEF checkoutFailure
    <3>5. CASE code \notin Unsold \cup {"STOCK_LOST_AFTER_CHARGE", "PAYMENT_DECLINED",
                                        "AUCTION_ALREADY_PAID"}
      <4>1. failure.kind = "UNKNOWN"
        BY <2>3, <3>5 DEF checkoutFailure, Unsold
      <4> QED BY <2>1, <4>1
    <3> QED BY <3>1, <3>2, <3>3, <3>4, <3>5
  <2>5. /\ code \in Unsold \cup {"PAYMENT_DECLINED"} => ~Taken(k)
        /\ code = "STOCK_LOST_AFTER_CHARGE" => Taken(k) /\ Bought(k) = {}
    BY <2>1, <2>3 DEF FrontInv, Answers, Answer
  <2> QED BY <2>1, <2>4, <2>5
<1> QED BY <1>1, FrontInvariance, PTL
=============================================================================
