--------------------------- MODULE Auction_proofs ---------------------------
(***************************************************************************)
(* Proofs about Auction, for every set of positions and bidders, every     *)
(* price, distance and floor, and every number of query points unless a    *)
(* theorem says otherwise.                                                 *)
(***************************************************************************)
EXTENDS Auction, TLAPS

LEMMA TermsAreNumbers ==
  ASSUME TypeOK, NEW i \in Positions, NEW x \in Queries, Reaches(i, x)
  PROVE  Term(i, x) \in Nat
  BY Inputs DEF TypeOK, Reaches, Term, Unmatched

LEMMA ScoresAreNumbers ==
  ASSUME TypeOK, NEW i \in Positions, NEW x \in Queries, Reaches(i, x)
  PROVE  Score(price, i, x) \in Int /\ price[i] \in Int
<1>1. Term(i, x) \in Nat
  BY TermsAreNumbers
<1>2. price[i] \in Int
  BY Inputs DEF TypeOK
<1>3. QED
  BY <1>1, <1>2 DEF Score

(***************************************************************************)
(* What a ranking decides at one point: the winner has the highest score   *)
(* of all bids, the runner-up the highest of the other bidders'.           *)
(***************************************************************************)
RivalsOf(w, x) == {i \in Eligible(price) : Owner[i] # Owner[w] /\ Reaches(i, x)}
Elected(w, r, x) ==
  /\ w \in Eligible(price) /\ Reaches(w, x)
  /\ \A i \in Eligible(price) :
       Reaches(i, x) => Score(price, i, x) <= Score(price, w, x)
  /\ r = None => RivalsOf(w, x) = {}
  /\ r # None => /\ r \in RivalsOf(w, x)
                 /\ \A i \in RivalsOf(w, x) :
                      Score(price, i, x) <= Score(price, r, x)

(* A bid that reaches the point is represented by one no worse.            *)
LEMMA Represented ==
  ASSUME NEW p, NEW x, NEW R \in Collapsed(p, x), NEW i \in Eligible(p),
         Reaches(i, x),
         \A j \in Eligible(p) : Reaches(j, x) => Score(p, j, x) \in Int
  PROVE  \E j \in R : /\ Owner[j] = Owner[i] /\ Reaches(j, x)
                      /\ Score(p, i, x) <= Score(p, j, x)
<1>1. R \subseteq Eligible(p)
  BY DEF Collapsed
<1>2. PICK j \in R : Owner[j] = Owner[i]
  BY DEF Collapsed
<1>3. j \in Best(p, {k \in Eligible(p) : Owner[k] = Owner[j]}, x)
  BY <1>2 DEF Collapsed
<1>4. ~Above(p, i, j, x)
  BY <1>2, <1>3 DEF Best
<1>5. QED
  BY <1>1, <1>2, <1>4 DEF Above

LEMMA RankingElects ==
  ASSUME TypeOK, next \in Queries, NEW R \in Collapsed(price, next),
         NEW w \in R, NEW r \in R \cup {None}, Ranked(R, w, r)
  PROVE  Elected(w, r, next)
<1>1. R \subseteq Eligible(price) /\ Eligible(price) \subseteq Positions
  BY DEF Collapsed, Eligible, TypeOK
<1>2. \A i \in Eligible(price) :
        Reaches(i, next) => Score(price, i, next) \in Int
  BY <1>1, ScoresAreNumbers
<1>3. w \in Eligible(price) /\ Reaches(w, next)
  BY <1>1 DEF Ranked
<1>4. \A i \in R :
        Reaches(i, next) => Score(price, i, next) <= Score(price, w, next)
  BY <1>1, <1>2, <1>3 DEF Ranked, Best, Above
<1>5. ASSUME NEW i \in Eligible(price), Reaches(i, next)
      PROVE  Score(price, i, next) <= Score(price, w, next)
  <2>1. PICK j \in R : /\ Owner[j] = Owner[i] /\ Reaches(j, next)
                       /\ Score(price, i, next) <= Score(price, j, next)
    BY <1>2, <1>5, Represented
  <2>2. Score(price, j, next) <= Score(price, w, next)
    BY <1>4, <2>1
  <2>3. QED
    BY <1>1, <1>2, <1>3, <1>5, <2>1, <2>2
<1>6. ASSUME NEW i \in RivalsOf(w, next)
      PROVE  \E j \in R \ {w} :
               Reaches(j, next) /\ Score(price, i, next) <= Score(price, j, next)
  BY <1>2, <1>6, Represented DEF RivalsOf
<1>7. CASE r = None
  <2>1. RivalsOf(w, next) = {}
    BY <1>1, <1>6, <1>7, NoneIsNoPosition DEF Ranked
  <2>2. QED
    BY <1>3, <1>5, <1>7, <2>1 DEF Elected
<1>8. CASE r # None
  <2>1. r \in R \ {w} /\ Reaches(r, next)
        /\ \A i \in R \ {w} : Reaches(i, next) => ~Above(price, i, r, next)
    BY <1>8 DEF Ranked
  <2>2. r \in RivalsOf(w, next)
    BY <1>1, <2>1 DEF RivalsOf, Collapsed
  <2>3. ASSUME NEW i \in RivalsOf(w, next)
        PROVE  Score(price, i, next) <= Score(price, r, next)
    <3>1. PICK j \in R \ {w} : /\ Reaches(j, next)
                               /\ Score(price, i, next) <= Score(price, j, next)
      BY <1>6
    <3>2. Score(price, j, next) <= Score(price, r, next)
      BY <1>1, <1>2, <2>1, <3>1 DEF Above
    <3>3. QED
      BY <1>1, <1>2, <2>1, <3>1, <3>2 DEF RivalsOf
  <2>4. QED
    BY <1>3, <1>5, <1>8, <2>2, <2>3 DEF Elected
<1>9. QED
  BY <1>7, <1>8

-----------------------------------------------------------------------------
(***************************************************************************)
(* The inductive invariant: the result so far was elected at its point,    *)
(* and no bid scored higher at a point that has been tried.                *)
(***************************************************************************)
IInv ==
  /\ TypeOK
  /\ winner # None => at < next /\ Elected(winner, runnerUp, at)
  /\ \A i \in Eligible(price), x \in Queries :
       x < next /\ Reaches(i, x) =>
         winner # None /\ Score(price, i, x) <= Score(price, winner, at)
  /\ pc # "rank" => next = Points + 1
  /\ pc = "priced" => winner # None /\ payment = Payment

LEMMA Init_IInv == Init => IInv
  BY Inputs DEF Init, IInv, TypeOK, Queries

LEMMA AuctionAt_IInv ==
  ASSUME IInv, AuctionAt
  PROVE  IInv'
<1> USE Inputs
<1> DEFINE S(i, x) == Score(price, i, x)
<1>1. TypeOK /\ next \in Queries /\ next' = next + 1 /\ next \in Nat
      /\ UNCHANGED <<bids, price, dist, keyword, floor, payment, pc>>
      /\ pc = "rank" /\ next' \in 1 .. Points + 1
  BY DEF AuctionAt, IInv, TypeOK, request, Queries
<1>2. Eligible(price) \subseteq Positions
  BY <1>1 DEF Eligible, TypeOK
<1>3. \A i \in Eligible(price), x \in Queries :
        Reaches(i, x) => Score(price, i, x) \in Int
  BY <1>1, <1>2, ScoresAreNumbers
<1>4. PICK R \in Collapsed(price, next) :
        \/ (\A i \in R : ~Reaches(i, next)) /\ UNCHANGED result
        \/ \E w \in R, r \in R \cup {None} :
             /\ Ranked(R, w, r)
             /\ IF Improves(w, next) THEN Keep(w, r) ELSE UNCHANGED result
  BY DEF AuctionAt
<1>5. Eligible(price)' = Eligible(price')
      /\ \A i, x : Reaches(i, x)' = Reaches(i, x) /\ S(i, x)' = S(i, x)
  BY <1>1 DEF Eligible, Reaches, Score, Term
<1>6. \A w, r, x : Elected(w, r, x)' = Elected(w, r, x)
  BY <1>1, <1>5 DEF Elected, RivalsOf, Eligible, Reaches, Score, Term
<1>7. CASE (\A i \in R : ~Reaches(i, next)) /\ UNCHANGED result
  <2>1. \A i \in Eligible(price) : ~Reaches(i, next)
    BY <1>1, <1>3, <1>7, Represented
  <2>2. QED
    BY <1>1, <1>2, <1>5, <1>6, <1>7, <2>1
       DEF IInv, TypeOK, result, Queries, Eligible
<1>8. ASSUME NEW w \in R, NEW r \in R \cup {None}, Ranked(R, w, r),
             IF Improves(w, next) THEN Keep(w, r) ELSE UNCHANGED result
      PROVE  IInv'
  <2>1. Elected(w, r, next)
    BY <1>1, <1>8, RankingElects
  <2>2. w \in Eligible(price) /\ Reaches(w, next) /\ S(w, next) \in Int
        /\ w # None
    BY <1>1, <1>2, <1>3, <2>1, NoneIsNoPosition DEF Elected
  <2>3. winner # None => /\ winner \in Eligible(price) /\ Reaches(winner, at)
                         /\ at \in Queries /\ S(winner, at) \in Int
    BY <1>1, <1>3 DEF IInv, Elected, TypeOK
  <2>4. CASE Improves(w, next)
    <3>1. winner' = w /\ runnerUp' = r /\ at' = next
      BY <1>8, <2>4 DEF Keep
    <3>2. TypeOK'
      BY <1>1, <1>2, <2>1, <2>2, <3>1 DEF TypeOK, Elected, RivalsOf
    <3>3. ASSUME NEW i \in Eligible(price), NEW x \in Queries,
                 x < next', Reaches(i, x)
          PROVE  S(i, x) <= S(w, next)
      <4>1. CASE x < next
        BY <1>3, <2>2, <2>3, <2>4, <3>3, <4>1 DEF IInv, Improves
      <4>2. CASE x = next
        BY <2>1, <3>3, <4>2 DEF Elected
      <4>3. QED
        BY <1>1, <3>3, <4>1, <4>2 DEF Queries
    <3>4. Elected(winner, runnerUp, at)' /\ at' < next' /\ winner' # None
      BY <1>1, <1>6, <2>1, <2>2, <3>1
    <3>5. \A i \in Eligible(price)', x \in Queries :
            x < next' /\ Reaches(i, x)' => S(i, x)' <= S(winner, at)'
      BY <1>1, <1>5, <3>1, <3>3 DEF Eligible
    <3>6. QED
      BY <1>1, <3>2, <3>4, <3>5 DEF IInv
  <2>5. CASE ~Improves(w, next)
    <3>1. UNCHANGED result /\ winner # None /\ S(w, next) <= S(winner, at)
      BY <1>8, <2>2, <2>3, <2>5 DEF Improves
    <3>2. TypeOK'
      BY <1>1, <3>1 DEF TypeOK, result
    <3>3. ASSUME NEW i \in Eligible(price), NEW x \in Queries,
                 x < next', Reaches(i, x)
          PROVE  S(i, x) <= S(winner, at)
      <4>1. CASE x < next
        BY <3>3, <4>1 DEF IInv
      <4>2. CASE x = next
        BY <1>3, <2>1, <2>2, <2>3, <3>1, <3>3, <4>2 DEF Elected
      <4>3. QED
        BY <1>1, <3>3, <4>1, <4>2 DEF Queries
    <3>4. winner' = winner /\ runnerUp' = runnerUp /\ at' = at
      BY <3>1 DEF result
    <3>5. at < next'
      BY <1>1, <2>3, <3>1 DEF IInv, Queries
    <3>6. QED
      BY <1>1, <1>5, <1>6, <3>1, <3>2, <3>3, <3>4, <3>5 DEF IInv, Eligible
  <2>6. QED
    BY <2>4, <2>5
<1>9. QED
  BY <1>4, <1>7, <1>8

LEMMA PaymentIsNumber ==
  ASSUME IInv, winner # None
  PROVE  /\ Payment \in Int /\ floor \in Int /\ price[winner] \in Int
         /\ Term(winner, at) \in Nat
         /\ runnerUp # None => /\ Term(runnerUp, at) \in Nat
                               /\ price[runnerUp] \in Int
<1>1. TypeOK /\ at \in Queries /\ floor \in Int
  BY Inputs DEF IInv, TypeOK
<1>2. winner \in Positions /\ Reaches(winner, at)
  BY <1>1 DEF IInv, Elected, Eligible, TypeOK
<1>3. price[winner] \in Int /\ Term(winner, at) \in Nat
  BY <1>1, <1>2, ScoresAreNumbers, TermsAreNumbers
<1>4. ASSUME runnerUp # None
      PROVE  Term(runnerUp, at) \in Nat /\ price[runnerUp] \in Int
  <2>1. runnerUp \in Positions /\ Reaches(runnerUp, at)
    BY <1>1, <1>4 DEF IInv, Elected, RivalsOf, Eligible, TypeOK
  <2>2. QED
    BY <1>1, <2>1, ScoresAreNumbers, TermsAreNumbers
<1>5. QED
  BY <1>1, <1>3, <1>4 DEF Payment, Larger, Smaller

LEMMA Next_IInv == IInv /\ [Next]_vars => IInv'
<1> SUFFICES ASSUME IInv, [Next]_vars PROVE IInv'
  OBVIOUS
<1> USE Inputs
<1>1. CASE AuctionAt
  BY <1>1, AuctionAt_IInv
<1>2. CASE Price
  <2>1. Payment \in Int
    BY <1>2, PaymentIsNumber DEF Price
  <2>2. UNCHANGED <<bids, price, dist, keyword, floor, next, winner, runnerUp,
                    at>>
    BY <1>2 DEF Price, request, result
  <2>3. next = Points + 1
    BY <1>2 DEF Price, IInv, TypeOK, Queries
  <2>4. QED
    BY <1>2, <2>1, <2>2, <2>3
       DEF Price, IInv, TypeOK, Elected, RivalsOf, Eligible, Reaches, Score,
           Term, Payment
<1>3. CASE NoBid
  <2>1. UNCHANGED <<bids, price, dist, keyword, floor, next, winner, runnerUp,
                    at, payment>>
    BY <1>3 DEF NoBid, request, result
  <2>2. next = Points + 1 /\ pc' = "nobid"
    BY <1>3 DEF NoBid, IInv, TypeOK, Queries
  <2>3. QED
    BY <2>1, <2>2 DEF IInv, TypeOK, Elected, RivalsOf, Eligible, Reaches,
       Score, Term
<1>4. CASE UNCHANGED vars
  BY <1>4 DEF vars, IInv, TypeOK, Elected, RivalsOf, Eligible, Reaches, Score,
     Term, Payment
<1>5. QED
  BY <1>1, <1>2, <1>3, <1>4 DEF Next

LEMMA Invariance == Spec => []IInv
  BY Init_IInv, Next_IInv, PTL DEF Spec

-----------------------------------------------------------------------------
(* ComputeVCGPayment never sees an infinite distance term: a winner, and a *)
(* runner-up, reaches the query point it is priced at, so that the terms   *)
(* in the exponent are finite and the payment is a number.                 *)
TermsAreFinite ==
  pc = "priced" =>
    /\ Reaches(winner, at) /\ Term(winner, at) \in Nat
    /\ runnerUp # None => Reaches(runnerUp, at) /\ Term(runnerUp, at) \in Nat
    /\ payment \in Int

THEOREM FiniteTermsTheorem == Spec => []TermsAreFinite
<1>1. ASSUME IInv, pc = "priced" PROVE TermsAreFinite
  <2>1. Elected(winner, runnerUp, at) /\ TypeOK /\ at \in Queries
    BY <1>1 DEF IInv, TypeOK
  <2>2. /\ winner \in Positions /\ Reaches(winner, at)
        /\ runnerUp # None => runnerUp \in Positions /\ Reaches(runnerUp, at)
    BY <2>1 DEF Elected, RivalsOf, Eligible, TypeOK
  <2>3. QED
    BY <2>1, <2>2, TermsAreNumbers DEF TermsAreFinite, TypeOK
<1>2. IInv => TermsAreFinite
  BY <1>1 DEF TermsAreFinite
<1>3. QED
  BY <1>2, Invariance, PTL

(* RunORTBAuction gives the impression to the highest score over all query *)
(* points, for any number of them, however the ties fall.                  *)
THEOREM HighestScoreTheorem == Spec => []HighestScoreWins
<1>1. IInv => HighestScoreWins
  BY Inputs DEF IInv, TypeOK, HighestScoreWins, Queries
<1>2. QED
  BY <1>1, Invariance, PTL

(* The payment is between the publisher's floor and the winner's own bid.  *)
THEOREM BidAndFloorTheorem == Spec => []WithinBidAndFloor
<1>1. ASSUME IInv, pc = "priced" PROVE WithinBidAndFloor
  <2>1. winner # None /\ payment = Payment
    BY <1>1 DEF IInv
  <2>2. floor <= price[winner] /\ Reaches(winner, at)
    BY <1>1, <2>1, PaymentIsNumber DEF IInv, Elected, Eligible
  <2>3. QED
    BY <1>1, <2>1, <2>2, PaymentIsNumber
       DEF WithinBidAndFloor, Payment, Larger, Smaller
<1>2. IInv => WithinBidAndFloor
  BY <1>1 DEF WithinBidAndFloor
<1>3. QED
  BY <1>2, Invariance, PTL

-----------------------------------------------------------------------------
(* The cap at the winner's own bid never binds: nobody who would have to   *)
(* be paid more than the bid scored below it.                              *)
LEMMA UncappedPayment ==
  ASSUME IInv, pc = "priced"
  PROVE  /\ payment \in Int /\ floor \in Int /\ Rivals = RivalsOf(winner, at)
         /\ runnerUp = None => payment = floor /\ Rivals = {}
         /\ runnerUp # None =>
              /\ runnerUp \in Rivals
              /\ Score(price, runnerUp, at) \in Int
              /\ payment = Larger(Score(price, runnerUp, at) + Term(winner, at),
                                  floor)
<1>1. winner # None /\ payment = Payment /\ Elected(winner, runnerUp, at)
  BY DEF IInv
<1>2. floor <= price[winner]
  BY <1>1 DEF Elected, Eligible
<1>3. Rivals = RivalsOf(winner, at)
  BY DEF Rivals, RivalsOf
<1>4. CASE runnerUp = None
  BY <1>1, <1>2, <1>3, <1>4, PaymentIsNumber DEF Payment, Smaller, Elected
<1>5. CASE runnerUp # None
  <2>1. runnerUp \in Rivals
    BY <1>1, <1>3, <1>5 DEF Elected
  <2>2. Score(price, runnerUp, at) <= Score(price, winner, at)
    BY <1>1, <2>1 DEF Rivals, Elected
  <2>3. QED
    BY <1>1, <1>2, <1>3, <1>5, <2>1, <2>2, PaymentIsNumber
       DEF Payment, Smaller, Larger, Score
<1>6. QED
  BY <1>4, <1>5

LEMMA PricedAgainstRivalsLemma ==
  ASSUME IInv, pc = "priced"
  PROVE  /\ \A i \in Rivals :
              /\ Score(price, i, at) \in Int
              /\ Score(price, i, at) <= payment - Term(winner, at)
         /\ \/ payment = floor
            \/ \E i \in Rivals :
                 Score(price, i, at) = payment - Term(winner, at)
<1>1. TypeOK /\ at \in Queries /\ winner # None /\ Elected(winner, runnerUp, at)
  BY DEF IInv, TypeOK
<1>2. Term(winner, at) \in Nat
  BY <1>1, PaymentIsNumber
<1>3. \A i \in Rivals : i \in Positions /\ Score(price, i, at) \in Int
  BY <1>1, ScoresAreNumbers DEF Rivals, Eligible, TypeOK
<1>4. CASE runnerUp = None
  BY <1>4, UncappedPayment
<1>5. CASE runnerUp # None
  <2>1. \A i \in Rivals : Score(price, i, at) <= Score(price, runnerUp, at)
    BY <1>1, <1>5, UncappedPayment DEF Elected
  <2>2. QED
    BY <1>2, <1>3, <1>5, <2>1, UncappedPayment DEF Larger
<1>6. QED
  BY <1>4, <1>5

(* A bidder pays the reserve or what matches the best bid of another       *)
(* bidder at the point it won, never what its own other keywords bid.      *)
THEOREM PricedAgainstRivalsTheorem == Spec => []PricedAgainstRivals
<1>1. IInv => PricedAgainstRivals
  BY PricedAgainstRivalsLemma DEF PricedAgainstRivals
<1>2. QED
  BY <1>1, Invariance, PTL

-----------------------------------------------------------------------------
(***************************************************************************)
(* The critical value at the winning point.  Rebid(b) are the prices after  *)
(* the winner changes its bid to b: its rivals and their scores stay.      *)
(***************************************************************************)
RebidFacts(b) ==
  /\ Rebid(b)[winner] = b
  /\ Eligible(Rebid(b)) \subseteq Positions
  /\ \A i \in Eligible(Rebid(b)) :
       Reaches(i, at) => Score(Rebid(b), i, at) \in Int
  /\ Score(Rebid(b), winner, at) = b - Term(winner, at)
  /\ \A i \in Rivals : /\ i \in Eligible(Rebid(b))
                       /\ Score(Rebid(b), i, at) = Score(price, i, at)
  /\ \A i \in Eligible(Rebid(b)) :
       Owner[i] # Owner[winner] /\ Reaches(i, at) => i \in Rivals

LEMMA OtherBid ==
  ASSUME IInv, pc = "priced", NEW b \in Int
  PROVE  RebidFacts(b)
<1>1. TypeOK /\ at \in Queries /\ winner \in Positions
  BY DEF IInv, TypeOK, Elected, Eligible
<1>2. /\ Rebid(b)[winner] = b
      /\ \A i \in Positions \ {winner} : Rebid(b)[i] = price[i]
      /\ Eligible(Rebid(b)) \subseteq Positions
  BY <1>1 DEF TypeOK, Eligible, Rebid
<1>3. \A i \in Eligible(Rebid(b)) :
        Reaches(i, at) => Score(Rebid(b), i, at) \in Int
  <2>1. ASSUME NEW i \in Eligible(Rebid(b)), Reaches(i, at)
        PROVE  Term(i, at) \in Nat /\ Rebid(b)[i] \in Int
    BY <1>1, <1>2, <2>1, TermsAreNumbers, ScoresAreNumbers
  <2>2. QED
    BY <2>1 DEF Score
<1>4. Score(Rebid(b), winner, at) = b - Term(winner, at)
  BY <1>2 DEF Score
<1>5. \A i \in Rivals : /\ i \in Eligible(Rebid(b))
                        /\ Score(Rebid(b), i, at) = Score(price, i, at)
  BY <1>1, <1>2 DEF Rivals, Eligible, TypeOK, Score
<1>6. \A i \in Eligible(Rebid(b)) :
        Owner[i] # Owner[winner] /\ Reaches(i, at) => i \in Rivals
  BY <1>1, <1>2 DEF Rivals, Eligible, TypeOK
<1>7. QED
  BY <1>2, <1>3, <1>4, <1>5, <1>6 DEF RebidFacts

LEMMA BidAbove ==
  ASSUME IInv, pc = "priced", NEW b \in Int, b > payment,
         NEW v, WinsAt(Rebid(b), v, at)
  PROVE  Owner[v] = Owner[winner]
<1> SUFFICES ASSUME Owner[v] # Owner[winner] PROVE FALSE
  OBVIOUS
<1>0. RebidFacts(b)
  BY OtherBid
<1> USE DEF RebidFacts
<1>1. PICK R \in Collapsed(Rebid(b), at) :
        v \in Best(Rebid(b), R, at) /\ Reaches(v, at)
  BY DEF WinsAt
<1>2. /\ winner \in Eligible(Rebid(b)) /\ Reaches(winner, at)
      /\ Term(winner, at) \in Nat /\ payment \in Int
  <2>1. winner \in Eligible(price) /\ Reaches(winner, at) /\ winner # None
    BY DEF IInv, Elected
  <2>2. floor <= payment /\ floor \in Int /\ payment \in Int
    BY UncappedPayment, PaymentIsNumber DEF Larger
  <2>3. Rebid(b)[winner] >= floor
    BY <2>2, <1>0
  <2>4. QED
    BY <2>1, <2>2, <2>3, PaymentIsNumber DEF Eligible
<1>3. PICK j \in R : /\ Reaches(j, at)
                     /\ Score(Rebid(b), winner, at) <= Score(Rebid(b), j, at)
  BY <1>2, <1>0, Represented
<1>4. v \in R /\ R \subseteq Eligible(Rebid(b)) /\ ~Above(Rebid(b), j, v, at)
  BY <1>1, <1>3 DEF Best, Collapsed
<1>5. Score(Rebid(b), winner, at) <= Score(Rebid(b), v, at)
  BY <1>1, <1>2, <1>3, <1>4, <1>0 DEF Above
<1>6. v \in Rivals /\ Score(Rebid(b), v, at) = Score(price, v, at)
  BY <1>1, <1>4, <1>0
<1>7. QED
  BY <1>2, <1>5, <1>6, <1>0, PricedAgainstRivalsLemma

LEMMA BidBelow ==
  ASSUME IInv, pc = "priced", NEW b \in Int, b < payment
  PROVE  ~WinsAt(Rebid(b), winner, at)
<1> SUFFICES ASSUME WinsAt(Rebid(b), winner, at) PROVE FALSE
  OBVIOUS
<1>0. RebidFacts(b)
  BY OtherBid
<1> USE DEF RebidFacts
<1>1. PICK R \in Collapsed(Rebid(b), at) :
        winner \in Best(Rebid(b), R, at) /\ Reaches(winner, at)
  BY DEF WinsAt
<1>2. winner \in R /\ R \subseteq Eligible(Rebid(b)) /\ b >= floor
  BY <1>1, <1>0 DEF Best, Collapsed, Eligible
<1>3. /\ winner # None /\ Term(winner, at) \in Nat
      /\ payment \in Int /\ floor \in Int
  BY UncappedPayment, PaymentIsNumber DEF IInv
<1>4. PICK i \in Rivals : Score(price, i, at) = payment - Term(winner, at)
  BY <1>2, <1>3, PricedAgainstRivalsLemma
<1>5. /\ i \in Eligible(Rebid(b)) /\ Reaches(i, at)
      /\ Score(Rebid(b), i, at) > Score(Rebid(b), winner, at)
  BY <1>3, <1>4, <1>0 DEF Rivals
<1>6. PICK j \in R : /\ Reaches(j, at)
                     /\ Score(Rebid(b), i, at) <= Score(Rebid(b), j, at)
  BY <1>5, <1>0, Represented
<1>7. Score(Rebid(b), j, at) > Score(Rebid(b), winner, at)
  BY <1>2, <1>1, <1>5, <1>6, <1>0
<1>8. Above(Rebid(b), j, winner, at)
  BY <1>6, <1>7 DEF Above
<1>9. QED
  BY <1>1, <1>6, <1>8 DEF Best

(* The payment is the winner's critical value at the point it won, for any *)
(* number of query points: any higher bid keeps that auction with its      *)
(* bidder, any lower bid loses it for this position, whatever the ties,    *)
(* keyword groups and floor.                                               *)
THEOREM CriticalAtPointTheorem == Spec => []CriticalAtPoint
<1>1. IInv => CriticalAtPoint
  BY BidAbove, BidBelow, Inputs DEF CriticalAtPoint
<1>2. QED
  BY <1>1, Invariance, PTL

(* With one query point the same is true of the impression.                *)
THEOREM CriticalValueTheorem ==
  ASSUME Points = 1
  PROVE  Spec => []CriticalValue
<1>1. ASSUME IInv, pc = "priced", NEW b \in Prices
      PROVE  /\ b > payment => \A v \in bids :
                  TakesImpression(Rebid(b), v) => Owner[v] = Owner[winner]
             /\ b < payment => ~TakesImpression(Rebid(b), winner)
  <2>1. at = 1 /\ Queries = {1} /\ b \in Int
    BY <1>1, Inputs DEF IInv, TypeOK, Queries
  <2>2. \A v : TakesImpression(Rebid(b), v) => WinsAt(Rebid(b), v, at)
    BY <2>1 DEF TakesImpression
  <2>3. ASSUME b > payment, NEW v \in bids, TakesImpression(Rebid(b), v)
        PROVE  Owner[v] = Owner[winner]
    BY <1>1, <2>1, <2>2, <2>3, BidAbove
  <2>4. b < payment => ~TakesImpression(Rebid(b), winner)
    BY <1>1, <2>1, <2>2, BidBelow
  <2>5. QED
    BY <2>3, <2>4
<1>2. IInv => CriticalValue
  BY <1>1 DEF CriticalValue
<1>3. QED
  BY <1>2, Invariance, PTL
=============================================================================
