------------------------------ MODULE Auction ------------------------------
(***************************************************************************)
(* One auction of the ad server: the bids that passed the budget, currency *)
(* and relevance filters compete at each query point of the request, the   *)
(* best result over the points takes the impression, and the winner is     *)
(* priced against the runner-up at that point.                             *)
(*                                                                         *)
(* A score is log_B(price) - distance^2 / sigma^2.  Prices, scores, the    *)
(* floor and the payment are kept as logarithms to base LogBase, where the *)
(* scoring is a difference and the payment B^(termW - termR) * price a     *)
(* sum: the order of prices and of scores is that of the code, and         *)
(* rounding is left out.  A price of zero or less never gets a logarithm:  *)
(* RunAuction rejects it, so bids holds positive prices only.  A floor of  *)
(* zero is a floor below every bid.  Distances are in units of sigma^2.    *)
(***************************************************************************)
EXTENDS Integers

CONSTANTS
  Positions,   \* positions in the registry
  Owner,       \* Owner[i]: Position.BudgetKey, the bidder behind position i
  Points,      \* number of query points of a request
  Prices,      \* logarithms of the prices bid
  Distances,   \* distance terms of a position from a query point
  Floors,      \* logarithms of the floors a publisher sets
  None         \* no position

Unmatched == -1   \* the dimensions of the two vectors differ
Queries == 1..Points

ASSUME Inputs ==
  /\ Points \in Nat \ {0}
  /\ Prices \subseteq Int /\ Floors \subseteq Int
  /\ Distances \subseteq Nat \cup {Unmatched}
ASSUME NoneIsNoPosition == None \notin Positions

VARIABLES
  bids,       \* positions that bid: in budget and in an allowed currency
  price,      \* price[i] of a position
  dist,       \* dist[i][x]: distance term of position i at query point x
  keyword,    \* positions with sigma = 0
  floor,      \* the publisher's bid floor
  next,       \* the query point the loop is at
  winner, runnerUp, at,   \* result and winningPoint so far
  payment,
  pc          \* "rank" (the loop), "priced" or "nobid"

request == <<bids, price, dist, keyword, floor>>
result == <<winner, runnerUp, at>>
vars == <<bids, price, dist, keyword, floor, next, winner, runnerUp, at,
          payment, pc>>

-----------------------------------------------------------------------------
(***************************************************************************)
(* Scoring.  A sigma = 0 position scores at its exact point only.  The     *)
(* prices are a parameter, so that properties can ask what another bid     *)
(* would have led to.                                                      *)
(***************************************************************************)
Reaches(i, x) == /\ dist[i][x] # Unmatched
                 /\ i \in keyword => dist[i][x] = 0
Term(i, x) == IF i \in keyword THEN 0 ELSE dist[i][x]
Score(p, i, x) == p[i] - Term(i, x)

(* i scores strictly higher than j: a position out of reach has -Inf.      *)
Above(p, i, j, x) ==
  /\ Reaches(i, x)
  /\ Reaches(j, x) => Score(p, i, x) > Score(p, j, x)
Best(p, S, x) == {i \in S : \A j \in S : ~Above(p, j, i, x)}

Eligible(p) == {i \in bids : p[i] >= floor}

(***************************************************************************)
(* Each bidder's best bid.  A keyword group is one bidder; among equal     *)
(* best bids the order of the registry's map decides, so any may stand.    *)
(***************************************************************************)
Uncollapsed(p, x) == {Eligible(p)}   \* mutant
Collapsed(p, x) ==
  {R \in SUBSET Eligible(p) :
     /\ \A i \in Eligible(p) : \E j \in R : Owner[j] = Owner[i]
     /\ \A i, j \in R : Owner[i] = Owner[j] => i = j
     /\ \A i \in R :
          i \in Best(p, {j \in Eligible(p) : Owner[j] = Owner[i]}, x)}

(***************************************************************************)
(* ComputeVCGPayment: what the winner must bid to equal the runner-up,     *)
(* raised to the floor and capped at its own bid.                          *)
(***************************************************************************)
Larger(a, b) == IF a >= b THEN a ELSE b
Smaller(a, b) == IF a <= b THEN a ELSE b
FloorlessPayment ==   \* mutant
  IF runnerUp = None THEN floor
  ELSE Smaller(price[winner],
               price[runnerUp] + Term(winner, at) - Term(runnerUp, at))
SwappedPayment ==   \* mutant
  Smaller(price[winner],
    IF runnerUp = None THEN floor
    ELSE Larger(price[runnerUp] + Term(runnerUp, at) - Term(winner, at), floor))
Payment ==
  Smaller(price[winner],
    IF runnerUp = None THEN floor
    ELSE Larger(price[runnerUp] + Term(winner, at) - Term(runnerUp, at), floor))

-----------------------------------------------------------------------------
Init ==
  /\ bids \in SUBSET Positions
  /\ price \in [Positions -> Prices]
  /\ dist \in [Positions -> [Queries -> Distances]]
  /\ keyword \in SUBSET Positions
  /\ floor \in Floors
  /\ next = 1
  /\ winner = None /\ runnerUp = None /\ at = 1
  /\ payment = 0
  /\ pc = "rank"

LatestPoint(w, x) == TRUE   \* mutant
Improves(w, x) == winner = None \/ Score(price, w, x) > Score(price, winner, at)

Keep(w, r) == winner' = w /\ runnerUp' = r /\ at' = next

(***************************************************************************)
(* RunAuction at the next query point.  The ranking breaks ties by a coin  *)
(* flip, so any best bid may come first and any best of the others second; *)
(* one that is out of reach is neither winner nor runner-up.  The result   *)
(* is kept when its score is the best so far.                              *)
(***************************************************************************)
Ranked(R, w, r) ==
  LET rest == {i \in R \ {w} : Reaches(i, next)} IN
  /\ w \in Best(price, R, next) /\ Reaches(w, next)
  /\ \/ r = None /\ rest = {}
     \/ r \in rest /\ \A i \in rest : ~Above(price, i, r, next)

AuctionAt ==
  /\ pc = "rank" /\ next \in Queries
  /\ next' = next + 1
  /\ \E R \in Collapsed(price, next) :
       \/ /\ \A i \in R : ~Reaches(i, next)
          /\ UNCHANGED result
       \/ \E w \in R, r \in R \cup {None} :
            /\ Ranked(R, w, r)
            /\ IF Improves(w, next) THEN Keep(w, r) ELSE UNCHANGED result
  /\ UNCHANGED <<request, payment, pc>>

Price ==
  /\ pc = "rank" /\ next \notin Queries /\ winner # None
  /\ payment' = Payment
  /\ pc' = "priced"
  /\ UNCHANGED <<request, next, result>>

NoBid ==
  /\ pc = "rank" /\ next \notin Queries /\ winner = None
  /\ pc' = "nobid"
  /\ UNCHANGED <<request, next, result, payment>>

Next == AuctionAt \/ Price \/ NoBid
Spec == Init /\ [][Next]_vars

-----------------------------------------------------------------------------
TypeOK ==
  /\ bids \subseteq Positions /\ keyword \subseteq Positions
  /\ price \in [Positions -> Prices]
  /\ dist \in [Positions -> [Queries -> Distances]]
  /\ floor \in Floors
  /\ next \in 1 .. Points + 1 /\ at \in Queries
  /\ winner \in Positions \cup {None} /\ runnerUp \in Positions \cup {None}
  /\ payment \in Int
  /\ pc \in {"rank", "priced", "nobid"}

(***************************************************************************)
(* The impression goes to the highest score over every query point and     *)
(* every bid that meets the floor, and to nobody only when nothing bid     *)
(* reaches any of the points (RunORTBAuction, "the highest-scoring winner  *)
(* takes it").                                                             *)
(***************************************************************************)
HighestScoreWins ==
  pc # "rank" =>
    \A i \in Eligible(price), x \in Queries :
      Reaches(i, x) => /\ winner # None
                       /\ Score(price, i, x) <= Score(price, winner, at)

(***************************************************************************)
(* The payment lies between the floor and the winner's bid, and the winner *)
(* is a bid that reaches the point it won at.                              *)
(***************************************************************************)
WithinBidAndFloor ==
  pc = "priced" => /\ floor <= payment /\ payment <= price[winner]
                   /\ Reaches(winner, at)

(***************************************************************************)
(* The payment is the reserve or what matches the best bid of ANOTHER      *)
(* bidder at the winning point: a keyword group is priced against the      *)
(* competition, not against its own other keywords (auction.go).           *)
(***************************************************************************)
Rivals == {i \in Eligible(price) : Owner[i] # Owner[winner] /\ Reaches(i, at)}
PricedAgainstRivals ==
  pc = "priced" =>
    /\ \A i \in Rivals : Score(price, i, at) <= payment - Term(winner, at)
    /\ \/ payment = floor
       \/ \E i \in Rivals : Score(price, i, at) = payment - Term(winner, at)

(***************************************************************************)
(* The payment is the winner's critical value at the point it won: with    *)
(* any bid above it that auction still goes to the winner's bidder,        *)
(* whatever the coin flips, and with any bid below it not to this          *)
(* position.  The prices p are those after the winner changes its bid.     *)
(***************************************************************************)
Rebid(b) == [price EXCEPT ![winner] = b]
WinsAt(p, v, x) ==
  \E R \in Collapsed(p, x) : v \in Best(p, R, x) /\ Reaches(v, x)
CriticalAtPoint ==
  pc = "priced" =>
    \A b \in Prices :
      /\ b > payment => \A v \in bids :
           WinsAt(Rebid(b), v, at) => Owner[v] = Owner[winner]
      /\ b < payment => ~WinsAt(Rebid(b), winner, at)

(***************************************************************************)
(* The same of the request: "the payment is the winner's critical value"   *)
(* (vcg.go).  Position v takes the impression, for some outcome of the     *)
(* coin flips, when it wins at a point x and no other point has a better   *)
(* winner (an earlier point keeps the impression on a tie).  It holds of a *)
(* request with one query point, and fails with two.                       *)
(***************************************************************************)
TakesImpression(p, v) ==
  \E x \in Queries :
    /\ WinsAt(p, v, x)
    /\ \A y \in Queries, u \in bids : WinsAt(p, u, y) =>
         /\ y < x => Score(p, v, x) > Score(p, u, y)
         /\ y > x => Score(p, v, x) >= Score(p, u, y)
CriticalValue ==
  pc = "priced" =>
    \A b \in Prices :
      /\ b > payment => \A v \in bids :
           TakesImpression(Rebid(b), v) => Owner[v] = Owner[winner]
      /\ b < payment => ~TakesImpression(Rebid(b), winner)
=============================================================================
