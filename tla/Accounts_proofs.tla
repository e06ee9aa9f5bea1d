--------------------------- MODULE Accounts_proofs ---------------------------
(***************************************************************************)
(* Proofs about the money of an account: what the order of the credits is  *)
(* worth, the types, that overflow is charged once and that two requests   *)
(* do not pass the same count, for any number of requests, jobs, credits,  *)
(* plans and prices.  The month does not turn while a request is under     *)
(* way: TurnsMidway = FALSE.                                               *)
(***************************************************************************)
EXTENDS Accounts, Data_proofs

-----------------------------------------------------------------------------
(* The credits pay in the order in which they expire.                      *)

\* The less of two amounts, and what is left of one above the other.
LEMMA MinOfTwo ==
  ASSUME NEW a \in Nat, NEW b \in Nat
  PROVE  Min({a, b}) = IF a <= b THEN a ELSE b
<1> DEFINE least == IF a <= b THEN a ELSE b
<1>1. least \in {a, b} /\ \A y \in {a, b} : least <= y
  OBVIOUS
<1>2. \A x \in {a, b} : (\A y \in {a, b} : x <= y) => x = least
  OBVIOUS
<1> DEFINE m == CHOOSE x \in {a, b} : \A y \in {a, b} : x <= y
<1>3. m \in {a, b} /\ \A y \in {a, b} : m <= y
  BY <1>1
<1>4. Min({a, b}) = m
  BY DEF Min
<1> HIDE DEF least, m
<1>5. m = least
  BY <1>2, <1>3
<1>. QED BY <1>4, <1>5 DEF least

\* Of some credits one expires last.
LEMMA LatestCredit ==
  ASSUME NEW T \in SUBSET Grants, T # {}
  PROVE  \E g \in T : \A h \in T : ExpiryOf[h] <= ExpiryOf[g]
<1> DEFINE HasLatest(D) == \E g \in D : \A h \in D : ExpiryOf[h] <= ExpiryOf[g]
           C == {D \in SUBSET Grants : D # {} => HasLatest(D)}
<1>1. ASSUME NEW D \in SUBSET Grants, \A U \in SUBSET D : U # D => U \in C
      PROVE  D \in C
  <2>1. SUFFICES ASSUME D # {} PROVE HasLatest(D)
    OBVIOUS
  <2>2. PICK x \in D : TRUE
    BY <2>1
  <2>3. \A g \in Grants : ExpiryOf[g] \in Nat
    BY AccountAssumption
  <2>4. CASE D \ {x} = {}
    <3>1. D = {x}
      BY <2>4
    <3>. QED BY <3>1, <2>3
  <2>5. CASE D \ {x} # {}
    <3>1. D \ {x} \in C
      BY <1>1
    <3>2. PICK g \in D \ {x} : \A h \in D \ {x} : ExpiryOf[h] <= ExpiryOf[g]
      BY <3>1, <2>5
    <3>3. CASE ExpiryOf[x] <= ExpiryOf[g]
      BY <3>2, <3>3
    <3>4. CASE ~(ExpiryOf[x] <= ExpiryOf[g])
      <4>1. \A h \in D : ExpiryOf[h] <= ExpiryOf[x]
        BY <3>2, <3>4, <2>3
      <4>. QED BY <4>1
    <3>. QED BY <3>3, <3>4
  <2>. QED BY <2>4, <2>5
<1> HIDE DEF C
<1>2. IsFiniteSet(Grants)
  BY AccountAssumption
<1>3. T \in C
  BY <1>1, <1>2, SubsetInduction
<1>. QED BY <1>3 DEF C

\* Any credits with a value, and any amount to pay.
Wallets == [Grants -> Nat]

\* The rest of the amount when those that expire sooner have paid.
Unpaid(w, a, g) == Excess(a, SumFunctionOnSet(w, Sooner(g)))

\* Credits are finitely many, and worth a natural number together.
LEMMA WalletSums ==
  ASSUME NEW w \in Wallets, NEW D \in SUBSET Grants
  PROVE  IsFiniteSet(D) /\ SumFunctionOnSet(w, D) \in Nat /\ \A g \in D : w[g] \in Nat
<1>1. IsFiniteSet(D)
  BY AccountAssumption, FS_Subset
<1>2. \A g \in D : w[g] \in Nat
  BY DEF Wallets
<1>. QED BY <1>1, <1>2, SumNat

\* What a credit pays: as much as it can of what is unpaid.
LEMMA TakeOfOne ==
  ASSUME NEW w \in Wallets, NEW a \in Nat, NEW g \in Grants
  PROVE  /\ Unpaid(w, a, g) \in Nat
         /\ Take(w, a)[g] = IF w[g] <= Unpaid(w, a, g) THEN w[g] ELSE Unpaid(w, a, g)
         /\ Take(w, a)[g] \in 0..w[g]
<1>1. Sooner(g) \in SUBSET Grants
  BY DEF Sooner
<1>2. SumFunctionOnSet(w, Sooner(g)) \in Nat
  BY <1>1, WalletSums
<1>3. Unpaid(w, a, g) \in Nat
  BY <1>2 DEF Unpaid, Excess
<1>4. w[g] \in Nat
  BY DEF Wallets
<1>5. Take(w, a)[g] = Min({w[g], Unpaid(w, a, g)})
  BY DEF Take, Unpaid
<1>6. Take(w, a)[g] = IF w[g] <= Unpaid(w, a, g) THEN w[g] ELSE Unpaid(w, a, g)
  BY <1>3, <1>4, <1>5, MinOfTwo
<1>. QED BY <1>3, <1>4, <1>6

\* A credit pays when those that expire sooner have paid all they have.
LEMMA TakeInOrder ==
  ASSUME NEW w \in Wallets, NEW a \in Nat, NEW g \in Grants, NEW h \in Grants,
         ExpiryOf[g] < ExpiryOf[h], Take(w, a)[h] > 0
  PROVE  Take(w, a)[g] = w[g]
<1> DEFINE Sum(D) == SumFunctionOnSet(w, D)
<1>1. \A x \in Grants : ExpiryOf[x] \in Nat
  BY AccountAssumption
<1>2. Sooner(h) \in SUBSET Grants /\ g \in Sooner(h) /\ Sooner(g) \in SUBSET (Sooner(h) \ {g})
  BY <1>1 DEF Sooner
<1>3. Sum(Sooner(h)) = w[g] + Sum(Sooner(h) \ {g})
  BY <1>2, WalletSums, SumTakeOut
<1>4. Sooner(h) \ {g} \in SUBSET Grants
  BY <1>2
<1>5. Sum(Sooner(g)) <= Sum(Sooner(h) \ {g})
  BY <1>2, <1>4, WalletSums, SumPart
<1>6. Sum(Sooner(g)) \in Nat /\ Sum(Sooner(h)) \in Nat /\ Sum(Sooner(h) \ {g}) \in Nat
  BY <1>2, <1>4, WalletSums
<1>7. w[g] \in Nat /\ w[h] \in Nat
  BY DEF Wallets
<1>8. Unpaid(w, a, h) > 0
  BY <1>7, TakeOfOne
<1>9. a > Sum(Sooner(h))
  BY <1>6, <1>8 DEF Unpaid, Excess
<1>10. Unpaid(w, a, g) >= w[g]
  <2>1. Unpaid(w, a, g) = IF a > Sum(Sooner(g)) THEN a - Sum(Sooner(g)) ELSE 0
    BY DEF Unpaid, Excess
  <2> HIDE DEF Sum
  <2>. QED BY <2>1, <1>3, <1>5, <1>6, <1>7, <1>9
<1>. QED BY <1>7, <1>10, TakeOfOne

\* All credits together pay the amount, or all they have where that is less.
LEMMA TakeTotal ==
  ASSUME NEW w \in Wallets, NEW a \in Nat
  PROVE  SumFunctionOnSet(Take(w, a), Grants) =
           IF a <= SumFunctionOnSet(w, Grants) THEN a ELSE SumFunctionOnSet(w, Grants)
<1> DEFINE Sum(D) == SumFunctionOnSet(w, D)
           Paid(D) == SumFunctionOnSet(Take(w, a), D)
           Closed(D) == \A g \in D : Sooner(g) \subseteq D
           C == {D \in SUBSET Grants : Closed(D) => Paid(D) = IF a <= Sum(D) THEN a ELSE Sum(D)}
<1>0. \A g \in Grants : ExpiryOf[g] \in Nat
  BY AccountAssumption
<1>1. ASSUME NEW D \in SUBSET Grants, \A U \in SUBSET D : U # D => U \in C
      PROVE  D \in C
  <2>1. SUFFICES ASSUME Closed(D) PROVE Paid(D) = IF a <= Sum(D) THEN a ELSE Sum(D)
    OBVIOUS
  <2>2. CASE D = {}
    BY <2>2, SumEmpty
  <2>3. CASE D # {}
    <3>1. PICK g \in D : \A h \in D : ExpiryOf[h] <= ExpiryOf[g]
      BY <2>3, LatestCredit
    <3>2. D \ {g} = Sooner(g)
      <4>1. \A h \in D \ {g} : ExpiryOf[h] < ExpiryOf[g]
        BY <3>1, <1>0, AccountAssumption
      <4>2. \A h \in Sooner(g) : h \in D /\ h # g
        BY <2>1, <1>0 DEF Sooner
      <4>. QED BY <4>1, <4>2 DEF Sooner
    <3>3. Closed(Sooner(g))
      BY <1>0 DEF Sooner
    <3>4. Sooner(g) \in C
      <4>1. D \ {g} \in SUBSET D /\ D \ {g} # D
        OBVIOUS
      <4>. QED BY <4>1, <3>2, <1>1
    <3>5. Paid(Sooner(g)) = IF a <= Sum(Sooner(g)) THEN a ELSE Sum(Sooner(g))
      BY <3>3, <3>4
    <3>6. Sum(D) = w[g] + Sum(Sooner(g))
      BY <3>2, WalletSums, SumTakeOut
    <3>7. Paid(D) = Take(w, a)[g] + Paid(Sooner(g))
      <4>1. IsFiniteSet(D)
        BY WalletSums
      <4>2. \A x \in D : Take(w, a)[x] \in Nat
        <5>1. SUFFICES ASSUME NEW x \in D PROVE Take(w, a)[x] \in Nat
          OBVIOUS
        <5>2. Take(w, a)[x] \in 0..w[x] /\ w[x] \in Nat
          BY TakeOfOne, WalletSums
        <5>. QED BY <5>2
      <4>. QED BY <4>1, <4>2, <3>2, SumTakeOut
    <3>8. w[g] \in Nat /\ Sum(Sooner(g)) \in Nat
      <4>1. Sooner(g) \in SUBSET Grants
        BY DEF Sooner
      <4>. QED BY <4>1, WalletSums
    <3>9. Take(w, a)[g] = IF w[g] <= Unpaid(w, a, g) THEN w[g] ELSE Unpaid(w, a, g)
      BY TakeOfOne
    <3>10. Unpaid(w, a, g) = IF a > Sum(Sooner(g)) THEN a - Sum(Sooner(g)) ELSE 0
      BY DEF Unpaid, Excess
    <3> HIDE DEF Sum, Paid
    <3>. QED BY <3>5, <3>6, <3>7, <3>8, <3>9, <3>10
  <2>. QED BY <2>2, <2>3
<1>2. Closed(Grants)
  BY DEF Sooner
<1> HIDE DEF C, Closed
<1>3. IsFiniteSet(Grants)
  BY AccountAssumption
<1>4. Grants \in C
  BY <1>1, <1>3, SubsetInduction
<1>. QED BY <1>2, <1>4 DEF C

-----------------------------------------------------------------------------
(* The invariant, in parts.  No month turns while a request is under way.  *)

Zero == [g \in Grants |-> 0]
Past(r) == request[r].pc \in {"charge", "quota", "commit"}
Live(g) == grant[g].status = "live"

\* The most r can take of a credit: of the one it sells its value, of one that
\* has not been sold nothing.
Bound(r, g) == IF g = request[r].grant THEN Value
               ELSE IF grant[g].status = "unsold" THEN 0 ELSE grant[g].left

\* What r takes from the credits together.
TakenBy(r) == SumFunctionOnSet(request[r].taken, Grants)

\* A request works in the month it began in, with the plan it has loaded.
Dated(r) ==
  /\ request[r].pc # "idle" => request[r].began = month
  /\ Past(r) => request[r].period = month
  /\ request[r].pc = "spend" \/ request[r].kind \in {"job", "plan"}
       => request[r].plan \in Plans
  /\ request[r].pc = "idle" => request[r].kind = "usage"

\* It sells a credit nobody else sells.
Selling(r) ==
  request[r].grant # NoGrant =>
    /\ request[r].pc # "idle"
    /\ grant[request[r].grant].status = "unsold"
    /\ \A q \in Requests : request[q].grant = request[r].grant => q = r

\* What it has read is no more than what is in the tables by now.
Informed(r) ==
  /\ request[r].pc \in {"settlement", "charge"} =>
       request[r].spent <= spent[month] /\ request[r].ceiling \in Ceilings
  /\ request[r].owed <= Excess(spent[request[r].period], Min(Ceilings))

\* Without the lock it takes nothing; one request at most has it.
Exclusive(r) ==
  /\ ~request[r].locked => request[r].owed = 0 /\ request[r].taken = Zero
  /\ request[r].locked => Past(r) /\ \A q \in Requests : request[q].locked => q = r
  /\ request[r].pc = "charge" => request[r].taken = Zero
  /\ request[r].pc = "charge" /\ request[r].locked =>
       month \in DOMAIN settled /\ request[r].owed = settled[month]

\* What it takes is there, in the order of expiry, and is owed; if more is
\* owed nothing is left.
Paying(r) ==
  request[r].locked =>
    /\ \A g \in Grants : request[r].taken[g] <= Bound(r, g)
    /\ \A g, h \in Grants :
         /\ ExpiryOf[g] < ExpiryOf[h] /\ request[r].taken[h] > 0
         /\ Live(g)
         => request[r].taken[g] = grant[g].left
    /\ TakenBy(r) + Settled(month) <= request[r].owed
    /\ TakenBy(r) + Settled(month) < request[r].owed =>
         \A g \in Grants : Live(g) => request[r].taken[g] = grant[g].left

\* A job that is counted in and can still be committed fits into the plan.
Admitted(r) ==
  /\ request[r].pc = "commit" /\ request[r].kind = "job"
  /\ request[r].locked \/ month \notin DOMAIN settled
  => /\ Cardinality(Active) < MaxConcurrent[request[r].plan]
     /\ accepted[month] < MonthlyQuota[request[r].plan]

RequestInv(r) ==
  /\ Dated(r) /\ Selling(r) /\ Informed(r)
  /\ Exclusive(r) /\ Paying(r) /\ Admitted(r)

\* Each active job was counted in its month, and a credit that has not been
\* sold has no value.
Counted ==
  /\ \A p \in Months : Cardinality({j \in Jobs : job[j].active /\ job[j].month = p}) <= accepted[p]
  /\ \A g \in Grants : grant[g].status = "unsold" => grant[g].left = 0

IInv == TypeOK /\ Counted /\ ChargedOnce /\ \A r \in Requests : RequestInv(r)

-----------------------------------------------------------------------------
(* What a step of a request leaves alone.                                  *)

\* The lowest price that may be set is one of them.
LEMMA LowestCeiling ==
  /\ Min(Ceilings) \in Ceilings
  /\ \A usd \in Ceilings : Min(Ceilings) <= usd
  /\ \A usd \in Ceilings : usd \in Nat
  /\ Min(Ceilings) \in Nat
<1>1. Ceilings \in SUBSET Nat /\ Ceilings # {}
  BY AccountAssumption
<1>2. PICK least \in Ceilings : \A usd \in Ceilings : ~(<<usd, least>> \in OpToRel(<, Nat))
  BY <1>1, WFMin, NatLessThanWellFounded
<1>3. ASSUME NEW usd \in Ceilings PROVE least <= usd
  <2>1. usd \in Nat /\ least \in Nat
    BY <1>1
  <2>2. ~(usd < least)
    BY <2>1, <1>2 DEF OpToRel
  <2>. QED BY <2>1, <2>2
<1>4. Min(Ceilings) \in Ceilings /\ \A usd \in Ceilings : Min(Ceilings) <= usd
  BY <1>3 DEF Min
<1>. QED BY <1>1, <1>4

\* The columns of a request.
LEMMA RequestFacts ==
  ASSUME TypeOK, NEW r \in Requests
  PROVE  /\ request[r] \in Request
         /\ request[r].pc \in PC /\ request[r].kind \in Kinds
         /\ request[r].plan \in Plans \cup {NoPlan}
         /\ request[r].grant \in Grants \cup {NoGrant}
         /\ request[r].began \in Months /\ request[r].period \in Months
         /\ request[r].ceiling \in Ceilings \cup {0} /\ request[r].ceiling \in Nat
         /\ request[r].spent \in Nat /\ request[r].owed \in Nat
         /\ request[r].locked \in BOOLEAN
         /\ request[r].taken \in [Grants -> 0..Value]
<1>1. request[r] \in Request
  BY DEF TypeOK
<1>2. \A usd \in Ceilings : usd \in Nat
  BY LowestCeiling
<1>. QED BY <1>1, <1>2 DEF Request

\* A step that changes the columns of one request only keeps the invariant if
\* the request keeps its own part.
LEMMA RequestStep ==
  ASSUME IInv, NEW r \in Requests, NEW new \in Request,
         request' = [request EXCEPT ![r] = new], UNCHANGED <<month, tables>>,
         RequestInv(r)'
  PROVE  IInv'
<1>0. /\ month' = month /\ plan' = plan /\ ceiling' = ceiling /\ spent' = spent
      /\ job' = job /\ accepted' = accepted /\ grant' = grant /\ settled' = settled
  BY DEF tables
<1>1. request'[r] = new /\ \A q \in Requests : q # r => request'[q] = request[q]
  BY DEF IInv, TypeOK
<1>2. TypeOK'
  <2>1. TypeOK
    BY DEF IInv
  <2>2. request' \in [Requests -> Request]
    BY <2>1 DEF TypeOK
  <2>. QED BY <2>1, <2>2, <1>0 DEF TypeOK
<1>3. Counted'
  BY <1>0 DEF IInv, Counted
<1>4. ChargedOnce'
  BY <1>0 DEF IInv, ChargedOnce, Drawn, Sold, Settled
<1>5. ASSUME NEW q \in Requests, q # r PROVE RequestInv(q)'
  <2>0. RequestInv(q) /\ request'[q] = request[q]
    BY <1>1, <1>5 DEF IInv
  <2>1. Dated(q)'
    BY <2>0, <1>0 DEF RequestInv, Dated, Past
  <2>2. Selling(q)'
    <3>1. Selling(q) /\ Selling(r)'
      BY <2>0 DEF RequestInv
    <3>2. request[q].grant # NoGrant => new.grant # request[q].grant
      BY <3>1, <2>0, <1>1, <1>5 DEF Selling
    <3>. QED BY <3>1, <3>2, <2>0, <1>0, <1>1 DEF Selling
  <2>3. Informed(q)'
    BY <2>0, <1>0 DEF RequestInv, Informed
  <2>4. Exclusive(q)'
    <3>1. Exclusive(q) /\ Exclusive(r)'
      BY <2>0 DEF RequestInv
    <3>2. request[q].locked => ~new.locked
      BY <3>1, <2>0, <1>1, <1>5 DEF Exclusive
    <3>. QED BY <3>1, <3>2, <2>0, <1>0, <1>1 DEF Exclusive, Past
  <2>5. Paying(q)'
    BY <2>0, <1>0 DEF RequestInv, Paying, Bound, TakenBy, Live, Settled
  <2>6. Admitted(q)'
    BY <2>0, <1>0 DEF RequestInv, Admitted, Active
  <2>. QED BY <2>1, <2>2, <2>3, <2>4, <2>5, <2>6 DEF RequestInv
<1>6. \A q \in Requests : RequestInv(q)'
  BY <1>5
<1>. QED BY <1>2, <1>3, <1>4, <1>6 DEF IInv

\* A request that has the rows of a fresh one is in no way of another.
LEMMA ClosedRequest ==
  /\ NoRequest \in Request
  /\ NoRequest.pc = "idle" /\ NoRequest.kind = "usage" /\ NoRequest.plan = NoPlan
  /\ NoRequest.grant = NoGrant /\ NoRequest.began = 1 /\ NoRequest.period = 1
  /\ NoRequest.ceiling = 0 /\ NoRequest.spent = 0 /\ NoRequest.owed = 0
  /\ NoRequest.locked = FALSE /\ NoRequest.taken = Zero
<1>1. Zero \in [Grants -> 0..Value] /\ 1 \in Months
  BY AccountAssumption DEF Zero, Months
<1>. QED BY <1>1 DEF NoRequest, Request, PC, Kinds, Zero

\* Closing a request loses what it had not committed and nothing else.
LEMMA CloseStep ==
  ASSUME IInv, NEW r \in Requests, Close(r), UNCHANGED <<month, tables>>
  PROVE  IInv'
<1>1. request' = [request EXCEPT ![r] = NoRequest]
  BY DEF Close
<1>2. request'[r] = NoRequest
  BY <1>1 DEF IInv, TypeOK
<1>3. RequestInv(r)'
  <2>1. Dated(r)' /\ Selling(r)' /\ Exclusive(r)' /\ Paying(r)' /\ Admitted(r)'
    BY <1>2, ClosedRequest DEF Dated, Selling, Exclusive, Paying, Admitted, Past
  <2>2. Informed(r)'
    <3>1. spent'[1] \in Nat
      BY AccountAssumption DEF IInv, TypeOK, Months, tables
    <3>2. Excess(spent'[1], Min(Ceilings)) >= 0
      BY <3>1, LowestCeiling DEF Excess
    <3>. QED BY <1>2, <3>2, ClosedRequest DEF Informed
  <2>. QED BY <2>1, <2>2 DEF RequestInv
<1>. QED BY <1>1, <1>3, ClosedRequest, RequestStep

-----------------------------------------------------------------------------
(* The statements of a request, one by one.                                *)

\* A request that begins holds nothing, and sells what nobody else sells.
LEMMA BeginStep ==
  ASSUME IInv, NEW r \in Requests, Begin(r)
  PROVE  IInv'
<1> DEFINE fresh == [NoRequest EXCEPT !.pc = "spend", !.plan = plan, !.began = month]
           Starts(new) ==
             /\ new \in Request /\ new.pc = "spend" /\ new.began = month
             /\ new.plan \in Plans /\ ~new.locked /\ new.owed = 0
             /\ new.taken = Zero /\ new.period = 1
             /\ new.grant # NoGrant =>
                  /\ grant[new.grant].status = "unsold"
                  /\ \A q \in Requests : request[q].grant # new.grant
<1>0. /\ month \in Months /\ plan \in Plans /\ NoGrant \notin Grants
      /\ month' = month /\ grant' = grant /\ spent' = spent
      /\ settled' = settled /\ job' = job /\ accepted' = accepted
  BY AccountAssumption DEF IInv, TypeOK, Begin, tables
<1>1. fresh \in Request /\ fresh.grant = NoGrant /\ Starts(fresh)
  BY <1>0, ClosedRequest DEF Request, PC
<1> HIDE DEF fresh
<1>2. \A kind \in Kinds : Starts([fresh EXCEPT !.kind = kind])
  BY <1>1 DEF Request, Kinds
<1>3. \A p \in Plans : Starts([fresh EXCEPT !.kind = "plan", !.plan = p])
  BY <1>1 DEF Request, Kinds
<1>4. ASSUME NEW g \in Grants, grant[g].status = "unsold",
             \A q \in Requests : request[q].grant # g
      PROVE  Starts([fresh EXCEPT !.kind = "credit", !.grant = g])
  BY <1>1, <1>4 DEF Request, Kinds
<1>5. \E new : Starts(new) /\ Read(r, new)
  <2>1. CASE Read(r, [fresh EXCEPT !.kind = "job"])
    BY <2>1, <1>2 DEF Kinds
  <2>2. CASE Read(r, fresh)
    BY <2>2, <1>1
  <2>3. CASE \E p \in Plans \ {plan} : Read(r, [fresh EXCEPT !.kind = "plan", !.plan = p])
    BY <2>3, <1>3
  <2>4. CASE \E g \in Grants :
               /\ grant[g].status = "unsold"
               /\ \A q \in Requests : request[q].grant # g
               /\ Read(r, [fresh EXCEPT !.kind = "credit", !.grant = g])
    BY <2>4, <1>4
  <2> HIDE DEF Starts
  <2>. QED BY <2>1, <2>2, <2>3, <2>4 DEF Begin, fresh
<1>6. PICK new : Starts(new) /\ Read(r, new)
  BY <1>5
<1>7. request' = [request EXCEPT ![r] = new]
  BY <1>6 DEF Read
<1>8. request'[r] = new /\ \A q \in Requests : q # r => request'[q] = request[q]
  BY <1>7 DEF IInv, TypeOK
<1>9. RequestInv(r)'
  <2>1. Dated(r)' /\ Exclusive(r)' /\ Paying(r)' /\ Admitted(r)'
    BY <1>0, <1>6, <1>8 DEF Dated, Exclusive, Paying, Admitted, Past
  <2>2. Selling(r)'
    BY <1>0, <1>6, <1>8 DEF Selling
  <2>3. Informed(r)'
    <3>1. spent[1] \in Nat
      BY AccountAssumption DEF IInv, TypeOK, Months
    <3>2. Excess(spent[1], Min(Ceilings)) >= 0
      BY <3>1, LowestCeiling DEF Excess
    <3>. QED BY <1>0, <1>6, <1>8, <3>2 DEF Informed
  <2>. QED BY <2>1, <2>2, <2>3 DEF RequestInv
<1>. QED BY <1>6, <1>7, <1>9, RequestStep DEF Begin

\* The spending it reads is that of the month, at a price of the plan.
LEMMA ReadSpendStep ==
  ASSUME IInv, NEW r \in Requests, ReadSpend(r)
  PROVE  IInv'
<1> DEFINE own == request[r]
           new == [own EXCEPT !.pc = "settlement", !.spent = spent[month],
                              !.ceiling = ceiling[own.plan],
                              !.plan = IF own.kind \in {"job", "plan"} THEN @ ELSE NoPlan]
<1>0. /\ TypeOK /\ RequestInv(r) /\ own.pc = "spend"
      /\ month' = month /\ grant' = grant /\ spent' = spent
      /\ settled' = settled /\ job' = job /\ accepted' = accepted
  BY DEF IInv, ReadSpend, tables
<1>1. own \in Request /\ own.plan \in Plans
  BY <1>0, RequestFacts DEF RequestInv, Dated
<1>2. spent[month] \in Nat /\ ceiling[own.plan] \in Ceilings
  BY <1>0, <1>1 DEF TypeOK
<1> HIDE DEF own
<1>3. /\ new \in Request /\ new.pc = "settlement" /\ new.spent = spent[month]
      /\ new.ceiling \in Ceilings /\ new.kind = own.kind /\ new.grant = own.grant
      /\ new.kind \in {"job", "plan"} => new.plan = own.plan
      /\ new.began = own.began /\ new.period = own.period /\ new.locked = own.locked
      /\ new.owed = own.owed /\ new.taken = own.taken
  BY <1>1, <1>2 DEF Request, PC
<1>4. request' = [request EXCEPT ![r] = new]
  BY DEF ReadSpend, Read, own
<1> HIDE DEF new
<1>5. request'[r] = new /\ \A q \in Requests : q # r => request'[q] = request[q]
  BY <1>0, <1>4 DEF TypeOK
<1>6. ~own.locked
  BY <1>0 DEF RequestInv, Exclusive, Past, own
<1>7. RequestInv(r)'
  <2>1. Dated(r)'
    BY <1>0, <1>1, <1>3, <1>5 DEF RequestInv, Dated, Past, own
  <2>2. Selling(r)'
    BY <1>0, <1>3, <1>5 DEF RequestInv, Selling, own
  <2>3. Informed(r)'
    BY <1>0, <1>2, <1>3, <1>5 DEF RequestInv, Informed, own
  <2>4. Exclusive(r)'
    BY <1>0, <1>3, <1>5, <1>6 DEF RequestInv, Exclusive, own
  <2>5. Paying(r)' /\ Admitted(r)'
    BY <1>3, <1>5, <1>6 DEF Paying, Admitted
  <2>. QED BY <2>1, <2>2, <2>3, <2>4, <2>5 DEF RequestInv
<1>. QED BY <1>3, <1>4, <1>7, RequestStep DEF ReadSpend

\* The settlement is locked where it has a row, and what it holds is read.
LEMMA SelectSettlementStep ==
  ASSUME IInv, NEW r \in Requests, SelectSettlement(r)
  PROVE  IInv'
<1> DEFINE own == request[r]
           new == [own EXCEPT
                     !.pc = "charge", !.period = month, !.locked = month \in DOMAIN settled,
                     !.owed = IF month \in DOMAIN settled THEN settled[month] ELSE 0]
<1>0. /\ TypeOK /\ RequestInv(r) /\ own.pc = "settlement" /\ ChargedOnce
      /\ month' = month /\ grant' = grant /\ spent' = spent
      /\ settled' = settled /\ job' = job /\ accepted' = accepted
  BY DEF IInv, SelectSettlement, tables
<1>1. own \in Request
  BY <1>0, RequestFacts
<1>2. month \in Months /\ (month \in DOMAIN settled => settled[month] \in Nat)
  BY <1>0 DEF TypeOK
<1> HIDE DEF own
<1>3. /\ new \in Request /\ new.pc = "charge" /\ new.spent = own.spent
      /\ new.ceiling = own.ceiling /\ new.kind = own.kind /\ new.grant = own.grant
      /\ new.plan = own.plan /\ new.began = own.began /\ new.period = month
      /\ new.locked <=> month \in DOMAIN settled
      /\ new.owed = IF month \in DOMAIN settled THEN settled[month] ELSE 0
      /\ new.taken = own.taken
  <2>2. CASE month \in DOMAIN settled
    <3>0. (month \in DOMAIN settled) = TRUE
      BY <2>2
    <3>1. new = [own EXCEPT !.pc = "charge", !.period = month,
                            !.locked = TRUE, !.owed = settled[month]]
      BY <3>0, Zenon
    <3> HIDE DEF new
    <3>. QED BY <3>1, <2>2, <1>1, <1>2 DEF Request, PC
  <2>3. CASE month \notin DOMAIN settled
    <3>0. (month \in DOMAIN settled) = FALSE
      BY <2>3
    <3>1. new = [own EXCEPT !.pc = "charge", !.period = month, !.locked = FALSE, !.owed = 0]
      BY <3>0, Zenon
    <3> HIDE DEF new
    <3>. QED BY <3>1, <2>3, <1>1, <1>2 DEF Request, PC
  <2>. QED BY <2>2, <2>3
<1>4. request' = [request EXCEPT ![r] = new]
  BY DEF SelectSettlement, Read, own
<1> HIDE DEF new
<1>5. request'[r] = new /\ \A q \in Requests : q # r => request'[q] = request[q]
  BY <1>0, <1>4 DEF TypeOK
<1>6. own.taken = Zero
  BY <1>0 DEF RequestInv, Exclusive, Past, own
<1>7. TakenBy(r)' = 0
  <2>1. \A g \in Grants : new.taken[g] = 0
    BY <1>3, <1>6 DEF Zero
  <2>. QED BY <2>1, <1>5, AccountAssumption, SumZero DEF TakenBy
<1>8. RequestInv(r)'
  <2>1. Dated(r)'
    BY <1>0, <1>3, <1>5 DEF RequestInv, Dated, Past, own
  <2>2. Selling(r)'
    BY <1>0, <1>3, <1>5 DEF RequestInv, Selling, own
  <2>3. Informed(r)'
    <3>1. new.owed <= Excess(spent[month], Min(Ceilings))
      <4>1. spent[month] \in Nat
        BY <1>0, <1>2 DEF TypeOK
      <4>2. Excess(spent[month], Min(Ceilings)) >= 0
        BY <4>1, LowestCeiling DEF Excess
      <4>. QED BY <4>2, <1>0, <1>3 DEF ChargedOnce
    <3>. QED BY <3>1, <1>0, <1>3, <1>5 DEF RequestInv, Informed, own
  <2>4. Exclusive(r)'
    <3>1. new.locked => \A q \in Requests : ~request[q].locked
      <4>1. SUFFICES ASSUME new.locked, NEW q \in Requests, request[q].locked PROVE FALSE
        OBVIOUS
      <4>2. request[q].period = month
        BY <4>1 DEF IInv, RequestInv, Exclusive, Dated
      <4>. QED BY <4>1, <4>2, <1>3 DEF SelectSettlement, Locked
    <3>. QED BY <3>1, <1>0, <1>3, <1>5, <1>6 DEF Exclusive, Past
  <2>5. Paying(r)'
    <3>1. SUFFICES ASSUME new.locked PROVE Paying(r)'
      BY <1>5 DEF Paying
    <3>2. \A g \in Grants : new.taken[g] = 0
      BY <1>3, <1>6 DEF Zero
    <3>3. Settled(month)' = new.owed /\ new.owed \in Nat
      BY <3>1, <1>0, <1>2, <1>3 DEF Settled
    <3>4. \A g \in Grants : 0 <= Bound(r, g)'
      BY <1>0, AccountAssumption DEF Bound, TypeOK
    <3>. QED BY <3>2, <3>3, <3>4, <1>0, <1>5, <1>7 DEF Paying
  <2>6. Admitted(r)'
    BY <1>3, <1>5 DEF Admitted
  <2>. QED BY <2>1, <2>2, <2>3, <2>4, <2>5, <2>6 DEF RequestInv
<1>. QED BY <1>3, <1>4, <1>8, RequestStep DEF SelectSettlement

\* Where the credits have less than the amount, each pays all it has.
LEMMA TakeEverything ==
  ASSUME NEW w \in Wallets, NEW a \in Nat,
         SumFunctionOnSet(Take(w, a), Grants) < a, NEW g \in Grants
  PROVE  Take(w, a)[g] = w[g]
<1> DEFINE Sum(D) == SumFunctionOnSet(w, D)
<1>1. \A x \in Grants : ExpiryOf[x] \in Nat
  BY AccountAssumption
<1>2. Sooner(g) \in SUBSET (Grants \ {g})
  BY <1>1 DEF Sooner
<1>3. Sum(Grants) = w[g] + Sum(Grants \ {g})
  BY WalletSums, SumTakeOut
<1>4. Grants \ {g} \in SUBSET Grants
  OBVIOUS
<1>5. Sum(Sooner(g)) <= Sum(Grants \ {g})
  BY <1>2, <1>4, WalletSums, SumPart
<1>6. Sum(Sooner(g)) \in Nat /\ Sum(Grants) \in Nat /\ Sum(Grants \ {g}) \in Nat
  BY <1>2, <1>4, WalletSums
<1>7. w[g] \in Nat
  BY DEF Wallets
<1>8. a > Sum(Grants)
  BY <1>6, TakeTotal
<1>9. Unpaid(w, a, g) >= w[g]
  <2>1. Unpaid(w, a, g) = IF a > Sum(Sooner(g)) THEN a - Sum(Sooner(g)) ELSE 0
    BY DEF Unpaid, Excess
  <2> HIDE DEF Sum
  <2>. QED BY <2>1, <1>3, <1>5, <1>6, <1>7, <1>8
<1>. QED BY <1>7, <1>9, TakeOfOne

\* What a request may take the credits from.
LEMMA WalletOf ==
  ASSUME TypeOK, NEW r \in Requests
  PROVE  /\ Wallet(r) \in Wallets
         /\ \A g \in Grants : Wallet(r)[g] \in 0..Value /\ Wallet(r)[g] <= Bound(r, g)
<1>1. Value \in Nat
  BY AccountAssumption
<1>2. \A g \in Grants : grant[g].left \in 0..Value
  BY DEF TypeOK
<1>3. \A g \in Grants : Wallet(r)[g] \in 0..Value /\ Wallet(r)[g] <= Bound(r, g)
  BY <1>1, <1>2 DEF Wallet, Bound
<1>. QED BY <1>1, <1>3 DEF Wallets, Wallet

\* The overflow is paid by the one request that holds the row.
LEMMA ChargeStep ==
  ASSUME IInv, NEW r \in Requests, Charge(r)
  PROVE  IInv'
<1> DEFINE own == request[r]
           next == [own EXCEPT
                      !.spent = 0, !.ceiling = IF own.kind = "job" THEN @ ELSE 0,
                      !.pc = IF own.kind = "job" THEN "quota" ELSE "commit"]
           overflow == Excess(own.spent, own.ceiling)
           pending == Excess(overflow, own.owed)
           paid == [next EXCEPT !.locked = TRUE, !.owed = overflow,
                                !.taken = Take(Wallet(r), pending)]
<1>0. /\ TypeOK /\ RequestInv(r) /\ own.pc = "charge" /\ own \in Request
      /\ own.spent \in Nat /\ own.ceiling \in Nat /\ own.owed \in Nat
      /\ month' = month /\ grant' = grant /\ spent' = spent /\ month \in Months
      /\ settled' = settled /\ job' = job /\ accepted' = accepted
      /\ UNCHANGED <<month, tables>>
  BY RequestFacts DEF IInv, TypeOK, Charge, tables
<1>1. overflow \in Nat /\ pending \in Nat
  BY <1>0 DEF Excess
<1>2. \/ pending = 0 /\ Read(r, next)
      \/ Close(r)
      \/ pending > 0 /\ (own.locked \/ CanInsert(r)) /\ Read(r, paid)
  BY DEF Charge
<1>3. /\ own.taken = Zero /\ own.period = month /\ own.began = month
      /\ own.locked => own.owed = Settled(month) /\ \A q \in Requests : request[q].locked => q = r
      /\ ~own.locked => own.owed = 0
  BY <1>0 DEF RequestInv, Exclusive, Dated, Past, Settled
<1>4. /\ own.spent <= spent[month] /\ own.ceiling \in Ceilings
      /\ own.owed <= Excess(spent[month], Min(Ceilings))
  BY <1>0, <1>3 DEF RequestInv, Informed
<1>5. overflow <= Excess(spent[month], Min(Ceilings))
  <2>1. spent[month] \in Nat
    BY <1>0 DEF TypeOK
  <2>2. Min(Ceilings) \in Nat /\ Min(Ceilings) <= own.ceiling
    BY <1>4, LowestCeiling
  <2>. QED BY <2>1, <2>2, <1>0, <1>4 DEF Excess
<1>6. /\ next \in Request /\ next.pc = IF own.kind = "job" THEN "quota" ELSE "commit"
      /\ next.kind = own.kind /\ next.plan = own.plan /\ next.grant = own.grant
      /\ next.began = own.began /\ next.period = own.period /\ next.locked = own.locked
      /\ next.owed = own.owed /\ next.taken = own.taken
  <2>1. own.ceiling \in Ceilings \cup {0}
    BY <1>4
  <2> HIDE DEF own
  <2>. QED BY <2>1, <1>0 DEF Request, PC
<1> HIDE DEF next, pending, overflow
<1>7. CASE pending = 0 /\ Read(r, next)
  <2>1. request' = [request EXCEPT ![r] = next]
    BY <1>7 DEF Read
  <2>2. request'[r] = next /\ \A q \in Requests : q # r => request'[q] = request[q]
    BY <1>0, <2>1 DEF TypeOK
  <2>3. Dated(r)'
    BY <1>0, <1>3, <1>6, <2>2 DEF RequestInv, Dated, Past
  <2>4. Selling(r)'
    BY <1>0, <1>6, <2>2 DEF RequestInv, Selling
  <2>5. Informed(r)'
    BY <1>0, <1>3, <1>4, <1>6, <2>2 DEF Informed
  <2>6. Exclusive(r)'
    BY <1>3, <1>6, <2>2 DEF Exclusive, Past
  <2>7. Paying(r)'
    <3>1. SUFFICES ASSUME own.locked PROVE Paying(r)'
      BY <1>6, <2>2 DEF Paying
    <3>2. next.taken = Zero /\ \A g \in Grants : Zero[g] = 0
      BY <1>3, <1>6 DEF Zero
    <3>3. TakenBy(r)' = 0
      BY <2>2, <3>2, AccountAssumption, SumZero DEF TakenBy
    <3>4. Settled(month)' = own.owed
      BY <3>1, <1>0, <1>3 DEF Settled
    <3>5. \A g \in Grants : 0 <= Bound(r, g)'
      BY <1>0, AccountAssumption DEF Bound, TypeOK
    <3>. QED BY <3>2, <3>3, <3>4, <3>5, <1>0, <1>6, <2>2 DEF Paying
  <2>8. Admitted(r)'
    BY <1>6, <2>2 DEF Admitted
  <2>9. RequestInv(r)'
    BY <2>3, <2>4, <2>5, <2>6, <2>7, <2>8 DEF RequestInv
  <2>. QED BY <2>1, <2>9, <1>0, <1>6, RequestStep
<1>8. CASE Close(r)
  BY <1>0, <1>8, CloseStep
<1>9. CASE pending > 0 /\ (own.locked \/ CanInsert(r)) /\ Read(r, paid)
  <2> DEFINE w == Wallet(r)
             taken == Take(w, pending)
  <2>1. w \in Wallets /\ \A g \in Grants : w[g] \in 0..Value /\ w[g] <= Bound(r, g)
    BY <1>0, WalletOf
  <2>2. \A g \in Grants : taken[g] \in 0..w[g]
    BY <2>1, <1>1, TakeOfOne
  <2>3. taken \in [Grants -> 0..Value]
    <3>1. \A g \in Grants : taken[g] \in 0..Value
      BY <2>1, <2>2, AccountAssumption
    <3>. QED BY <3>1 DEF Take
  <2> HIDE DEF w, taken
  <2>4. /\ paid \in Request /\ paid.pc = next.pc /\ paid.kind = own.kind
        /\ paid.plan = own.plan /\ paid.grant = own.grant /\ paid.began = own.began
        /\ paid.period = own.period /\ paid.locked = TRUE /\ paid.owed = overflow
        /\ paid.taken = taken
    BY <1>1, <1>6, <2>3 DEF Request, w, taken
  <2> HIDE DEF paid
  <2>5. request' = [request EXCEPT ![r] = paid]
    BY <1>9 DEF Read
  <2>6. request'[r] = paid /\ \A q \in Requests : q # r => request'[q] = request[q]
    BY <1>0, <2>5 DEF TypeOK
  <2>7. own.owed = Settled(month) /\ \A q \in Requests : request[q].locked => q = r
    <3>1. CASE own.locked
      BY <3>1, <1>3
    <3>2. CASE ~own.locked /\ CanInsert(r)
      <4>1. month \notin DOMAIN settled /\ ~Locked(month)
        BY <3>2, <1>3 DEF CanInsert
      <4>2. \A q \in Requests : request[q].locked => request[q].period = month
        BY DEF IInv, RequestInv, Exclusive, Dated
      <4>. QED BY <4>1, <4>2, <3>2, <1>3 DEF Settled, Locked
    <3>. QED BY <3>1, <3>2, <1>9
  <2>8. Dated(r)'
    BY <1>0, <1>3, <1>6, <2>4, <2>6 DEF RequestInv, Dated, Past
  <2>9. Selling(r)'
    BY <1>0, <1>6, <2>4, <2>6 DEF RequestInv, Selling
  <2>10. Informed(r)'
    BY <1>0, <1>3, <1>5, <1>6, <2>4, <2>6 DEF Informed
  <2>11. Exclusive(r)'
    BY <1>6, <2>4, <2>6, <2>7 DEF Exclusive, Past
  <2>12. Paying(r)'
    <3>1. \A g \in Grants : taken[g] <= Bound(r, g)'
      <4>1. \A g \in Grants : Bound(r, g)' = Bound(r, g)
        BY <1>0, <2>4, <2>6 DEF Bound
      <4>2. \A g \in Grants : Bound(r, g) \in Nat
        BY <1>0, AccountAssumption DEF Bound, TypeOK
      <4>. QED BY <4>1, <4>2, <2>1, <2>2
    <3>2. \A g \in Grants : Live(g) => w[g] = grant[g].left
      <4>1. own.grant \in Grants => ~Live(own.grant)
        BY <1>0, AccountAssumption DEF RequestInv, Selling, Live
      <4>. QED BY <4>1 DEF w, Wallet, Live
    <3>3. \A g, h \in Grants :
             ExpiryOf[g] < ExpiryOf[h] /\ taken[h] > 0 => taken[g] = w[g]
      BY <2>1, <1>1, TakeInOrder DEF taken
    <3>4. overflow = pending + Settled(month)
      BY <1>0, <1>1, <1>9, <2>7 DEF pending, Excess
    <3>5. TakenBy(r)' = SumFunctionOnSet(taken, Grants)
      BY <2>4, <2>6 DEF TakenBy
    <3>6. SumFunctionOnSet(w, Grants) \in Nat
      BY <2>1, WalletSums
    <3>7. TakenBy(r)' \in Nat /\ TakenBy(r)' <= pending
      BY <3>5, <3>6, <2>1, <1>1, TakeTotal DEF taken
    <3>8. TakenBy(r)' < pending => \A g \in Grants : taken[g] = w[g]
      BY <3>5, <2>1, <1>1, TakeEverything DEF taken
    <3>9. Settled(month)' = Settled(month) /\ Settled(month) \in Nat
      BY <1>0, <2>7 DEF Settled
    <3>10. \A g \in Grants : Live(g)' <=> Live(g)
      BY <1>0 DEF Live
    <3> DEFINE total == TakenBy(r)'
    <3>11. total + Settled(month) <= overflow
      <4> HIDE DEF total
      <4>. QED BY <3>4, <3>7, <3>9, <1>1 DEF total
    <3>12. total + Settled(month) < overflow => total < pending
      <4> HIDE DEF total
      <4>. QED BY <3>4, <3>7, <3>9, <1>1 DEF total
    <3>. QED BY <3>1, <3>2, <3>3, <3>8, <3>9, <3>10, <3>11, <3>12, <1>0, <2>4, <2>6 DEF Paying
  <2>13. Admitted(r)'
    BY <1>6, <2>4, <2>6 DEF Admitted
  <2>14. RequestInv(r)'
    BY <2>8, <2>9, <2>10, <2>11, <2>12, <2>13 DEF RequestInv
  <2>. QED BY <1>0, <2>4, <2>5, <2>14, RequestStep
<1>. QED BY <1>2, <1>7, <1>8, <1>9

\* A job that is let in fits into what is committed.
LEMMA QuotaStep ==
  ASSUME IInv, NEW r \in Requests, Quota(r)
  PROVE  IInv'
<1> DEFINE own == request[r]
           new == [own EXCEPT !.pc = "commit", !.ceiling = 0]
<1>0. /\ TypeOK /\ RequestInv(r) /\ own.pc = "quota" /\ own \in Request
      /\ month' = month /\ grant' = grant /\ spent' = spent
      /\ settled' = settled /\ job' = job /\ accepted' = accepted
  BY RequestFacts DEF IInv, Quota, tables
<1>1. CASE Close(r)
  BY <1>1, CloseStep DEF Quota
<1>2. CASE /\ accepted[month] < MonthlyQuota[own.plan]
           /\ Cardinality(Active) < MaxConcurrent[own.plan]
           /\ Read(r, new)
  <2>1. request' = [request EXCEPT ![r] = new]
    BY <1>2 DEF Read
  <2> HIDE DEF own
  <2>2. /\ new \in Request /\ new.pc = "commit" /\ new.kind = own.kind
        /\ new.plan = own.plan /\ new.grant = own.grant /\ new.began = own.began
        /\ new.period = own.period /\ new.locked = own.locked
        /\ new.owed = own.owed /\ new.taken = own.taken
    BY <1>0 DEF Request, PC
  <2> HIDE DEF new
  <2>3. request'[r] = new /\ \A q \in Requests : q # r => request'[q] = request[q]
    BY <1>0, <2>1 DEF TypeOK
  <2>4. Dated(r)'
    BY <1>0, <2>2, <2>3 DEF RequestInv, Dated, Past, own
  <2>5. Selling(r)'
    BY <1>0, <2>2, <2>3 DEF RequestInv, Selling, own
  <2>6. Informed(r)'
    BY <1>0, <2>2, <2>3 DEF RequestInv, Informed, own
  <2>7. Exclusive(r)'
    BY <1>0, <2>2, <2>3 DEF RequestInv, Exclusive, Past, own
  <2>8. Paying(r)'
    BY <1>0, <2>2, <2>3 DEF RequestInv, Paying, Bound, TakenBy, Live, Settled, own
  <2>9. Admitted(r)'
    BY <1>0, <1>2, <2>2, <2>3 DEF Admitted, Active, own
  <2>10. RequestInv(r)'
    BY <2>4, <2>5, <2>6, <2>7, <2>8, <2>9 DEF RequestInv
  <2>. QED BY <2>1, <2>2, <2>10, RequestStep DEF Quota
<1>. QED BY <1>1, <1>2 DEF Quota

-----------------------------------------------------------------------------
(* The commit.                                                             *)

\* What a request that can commit knows: nobody else holds the lock, and what
\* it takes is there and is owed.
LEMMA CommitFacts ==
  ASSUME IInv, NEW r \in Requests, request[r].pc = "commit",
         request[r].locked \/ CanInsert(r)
  PROVE  /\ request[r].began = month /\ request[r].period = month /\ month \in Months
         /\ \A q \in Requests : request[q].locked => q = r
         /\ Settled(month) \in Nat /\ TakenBy(r) \in Nat
         /\ \A g \in Grants : request[r].taken[g] \in Nat /\ request[r].taken[g] <= Bound(r, g)
         /\ \A g, h \in Grants :
              ExpiryOf[g] < ExpiryOf[h] /\ request[r].taken[h] > 0 /\ Live(g)
              => request[r].taken[g] = grant[g].left
         /\ TakenBy(r) + Settled(month) <= request[r].owed
         /\ TakenBy(r) + Settled(month) < request[r].owed =>
              \A g \in Grants : Live(g) => request[r].taken[g] = grant[g].left
         /\ request[r].owed <= Excess(spent[month], Min(Ceilings))
         /\ request[r].kind = "job" =>
              /\ request[r].plan \in Plans
              /\ Cardinality(Active) < MaxConcurrent[request[r].plan]
              /\ accepted[month] < MonthlyQuota[request[r].plan]
<1>0. TypeOK /\ RequestInv(r)
  BY DEF IInv
<1>1. request[r].began = month /\ request[r].period = month /\ month \in Months
  BY <1>0 DEF RequestInv, Dated, Past, TypeOK
<1>2. request[r].taken \in [Grants -> 0..Value] /\ IsFiniteSet(Grants) /\ Value \in Nat
  BY <1>0, RequestFacts, AccountAssumption
<1>3. \A g \in Grants : request[r].taken[g] \in Nat
  BY <1>2
<1>4. TakenBy(r) \in Nat
  BY <1>2, <1>3, SumNat DEF TakenBy
<1>5. Settled(month) \in Nat
  BY <1>0 DEF Settled, TypeOK
<1>6. request[r].owed <= Excess(spent[month], Min(Ceilings))
  BY <1>0, <1>1 DEF RequestInv, Informed
<1>7. request[r].kind = "job" => request[r].plan \in Plans
  BY <1>0 DEF RequestInv, Dated
<1>8. CASE request[r].locked
  BY <1>0, <1>1, <1>3, <1>4, <1>5, <1>6, <1>7, <1>8
     DEF RequestInv, Exclusive, Paying, Admitted
<1>9. CASE ~request[r].locked /\ CanInsert(r)
  <2>1. month \notin DOMAIN settled /\ Settled(month) = 0
    BY <1>1, <1>9 DEF CanInsert, Settled
  <2>2. request[r].owed = 0 /\ request[r].taken = Zero
    BY <1>0, <1>9 DEF RequestInv, Exclusive
  <2>3. \A g \in Grants : request[r].taken[g] = 0
    BY <2>2 DEF Zero
  <2>4. TakenBy(r) = 0
    BY <2>3, <1>2, SumZero DEF TakenBy
  <2>5. \A q \in Requests : ~request[q].locked
    <3>1. \A q \in Requests : request[q].locked => request[q].period = month
      BY DEF IInv, RequestInv, Exclusive, Dated
    <3>. QED BY <3>1, <1>1, <1>9 DEF CanInsert, Locked
  <2>6. \A g \in Grants : 0 <= Bound(r, g)
    BY <1>0, <1>2 DEF Bound, TypeOK
  <2>7. request[r].kind = "job" =>
          /\ Cardinality(Active) < MaxConcurrent[request[r].plan]
          /\ accepted[month] < MonthlyQuota[request[r].plan]
    BY <1>0, <2>1 DEF RequestInv, Admitted
  <2>. QED BY <2>1, <2>2, <2>3, <2>4, <2>5, <2>6, <2>7, <1>1, <1>3, <1>6, <1>7
<1>. QED BY <1>8, <1>9

\* What has been drawn on each credit.
DrawnOn == [g \in Grants |-> IF g \in Sold THEN Value - grant[g].left ELSE 0]

\* What has been drawn is a sum of naturals over the credits.
LEMMA DrawnFacts ==
  ASSUME TypeOK
  PROVE  /\ \A g \in Grants : DrawnOn[g] \in Nat
         /\ Drawn = SumFunctionOnSet(DrawnOn, Grants) /\ Drawn \in Nat
<1>1. \A g \in Grants : grant[g].left \in 0..Value /\ Value \in Nat
  BY AccountAssumption DEF TypeOK
<1>2. \A g \in Grants : DrawnOn[g] \in Nat
  BY <1>1 DEF DrawnOn
<1>3. Drawn = SumFunctionOnSet(DrawnOn, Grants)
  <2>1. DOMAIN DrawnOn = Grants
    BY DEF DrawnOn
  <2>2. Drawn = SumFunction(DrawnOn)
    BY DEF Drawn, DrawnOn
  <2>3. SumFunction(DrawnOn) = SumFunctionOnSet(DrawnOn, DOMAIN DrawnOn)
    BY DEF SumFunction
  <2>. QED BY <2>1, <2>2, <2>3
<1>4. IsFiniteSet(Grants)
  BY AccountAssumption
<1>. QED BY <1>2, <1>3, <1>4, SumNat

\* What is settled, month by month.
SettledIn == [p \in Months |-> Settled(p)]

\* What is settled is a sum of naturals over the months.
LEMMA SettledFacts ==
  ASSUME TypeOK
  PROVE  /\ IsFiniteSet(Months) /\ \A p \in Months : SettledIn[p] \in Nat
         /\ SumFunction([p \in Months |-> Settled(p)]) = SumFunctionOnSet(SettledIn, Months)
         /\ SumFunctionOnSet(SettledIn, Months) \in Nat
<1>1. \A p \in Months : SettledIn[p] \in Nat
  BY DEF SettledIn, Settled, TypeOK
<1>2. IsFiniteSet(Months)
  <2>1. 1 \in Int /\ LastMonth \in Int
    BY AccountAssumption
  <2>2. IsFiniteSet(1..LastMonth)
    BY <2>1, FS_Interval
  <2>. QED BY <2>2 DEF Months
<1>3. SumFunction([p \in Months |-> Settled(p)]) = SumFunctionOnSet(SettledIn, Months)
  <2>1. DOMAIN SettledIn = Months
    BY DEF SettledIn
  <2>2. SumFunction(SettledIn) = SumFunctionOnSet(SettledIn, DOMAIN SettledIn)
    BY DEF SumFunction
  <2>. QED BY <2>1, <2>2 DEF SettledIn
<1>. QED BY <1>1, <1>2, <1>3, SumNat

\* A commit draws on the credits what the request has taken from them.
LEMMA CommitDraws ==
  ASSUME IInv, NEW r \in Requests, request[r].pc = "commit",
         request[r].locked \/ CanInsert(r), Apply(r), TypeOK'
  PROVE  Drawn' = Drawn + TakenBy(r)
<1> DEFINE own == request[r]
<1>0. TypeOK /\ RequestInv(r) /\ own.taken \in [Grants -> 0..Value] /\ Value \in Nat
  BY RequestFacts, AccountAssumption DEF IInv
<1>1. grant' = [g \in Grants |->
                  IF g = own.grant
                  THEN [status |-> "live", left |-> Value - own.taken[g]]
                  ELSE [grant[g] EXCEPT !.left = @ - own.taken[g]]]
  BY DEF Apply
<1>2. ASSUME NEW g \in Grants PROVE DrawnOn'[g] = DrawnOn[g] + own.taken[g]
  <2>0. /\ own.taken[g] \in 0..Value /\ grant[g].left \in 0..Value
        /\ grant[g] \in [status : {"unsold", "live", "expired"}, left : 0..Value]
        /\ own.taken[g] <= Bound(r, g)
    BY <1>0, CommitFacts DEF TypeOK
  <2>1. /\ DrawnOn[g] = IF grant[g].status # "unsold" THEN Value - grant[g].left ELSE 0
        /\ DrawnOn'[g] = IF grant'[g].status # "unsold" THEN Value - grant'[g].left ELSE 0
    BY DEF DrawnOn, Sold
  <2>2. CASE g = own.grant
    <3>1. grant'[g] = [status |-> "live", left |-> Value - own.taken[g]]
      BY <1>1, <2>2
    <3>2. grant'[g].status = "live" /\ grant'[g].left = Value - own.taken[g]
      BY <3>1
    <3>3. grant[g].status = "unsold"
      BY <1>0, <2>2, AccountAssumption DEF RequestInv, Selling
    <3>. QED BY <1>0, <2>0, <2>1, <3>2, <3>3
  <2>3. CASE g # own.grant
    <3>1. grant'[g] = [grant[g] EXCEPT !.left = @ - own.taken[g]]
      BY <1>1, <2>3
    <3>2. grant'[g].status = grant[g].status /\ grant'[g].left = grant[g].left - own.taken[g]
      BY <2>0, <3>1
    <3>3. grant[g].status = "unsold" => own.taken[g] = 0
      BY <2>0, <2>3 DEF Bound
    <3>. QED BY <1>0, <2>0, <2>1, <3>2, <3>3
  <2>. QED BY <2>2, <2>3
<1>3. \A g \in Grants : DrawnOn[g] \in Nat /\ own.taken[g] \in Nat
  BY <1>0, DrawnFacts
<1>4. IsFiniteSet(Grants)
  BY AccountAssumption
<1>5. SumFunctionOnSet(DrawnOn', Grants) = SumFunctionOnSet(DrawnOn, Grants) + TakenBy(r)
  BY <1>2, <1>3, <1>4, SumPlus DEF TakenBy
<1>6. Drawn = SumFunctionOnSet(DrawnOn, Grants)
  BY <1>0, DrawnFacts
<1>7. Drawn' = SumFunctionOnSet(DrawnOn', Grants)
  <2>1. DOMAIN DrawnOn' = Grants
    BY DEF DrawnOn
  <2>2. Drawn' = SumFunction(DrawnOn')
    BY DEF Drawn, DrawnOn
  <2>3. SumFunction(DrawnOn') = SumFunctionOnSet(DrawnOn', DOMAIN DrawnOn')
    BY DEF SumFunction
  <2>. QED BY <2>1, <2>2, <2>3
<1>. QED BY <1>5, <1>6, <1>7

\* The row of the month takes what is owed, and the rows of other months stay.
LEMMA CommitSettles ==
  ASSUME IInv, NEW r \in Requests, request[r].pc = "commit",
         request[r].locked \/ CanInsert(r),
         month' = month,
         settled' = [p \in DOMAIN settled \cup {request[r].period} |->
                       IF p = request[r].period THEN request[r].owed ELSE settled[p]]
  PROVE  /\ DOMAIN settled' = DOMAIN settled \cup {month}
         /\ settled'[month] = request[r].owed
         /\ \A p \in DOMAIN settled : p # month => settled'[p] = settled[p]
         /\ Settled(month)' = request[r].owed
         /\ \A p \in Months : p # month => Settled(p)' = Settled(p)
         /\ SumFunction([p \in Months |-> Settled(p)])' + Settled(month)
              = SumFunction([p \in Months |-> Settled(p)]) + request[r].owed
<1> DEFINE owed == request[r].owed
<1>0. TypeOK /\ month \in Months /\ request[r].period = month /\ owed \in Nat
  BY CommitFacts, RequestFacts DEF IInv
<1>1. /\ DOMAIN settled' = DOMAIN settled \cup {month}
      /\ settled'[month] = owed
      /\ \A p \in DOMAIN settled : p # month => settled'[p] = settled[p]
  BY <1>0
<1>2. Settled(month)' = owed /\ \A p \in Months : p # month => Settled(p)' = Settled(p)
  <2>1. month' = month
    OBVIOUS
  <2>. QED BY <1>1, <2>1 DEF Settled
<1> HIDE DEF owed
<1>3. DEFINE others == SumFunctionOnSet(SettledIn, Months \ {month})
<1>4. IsFiniteSet(Months) /\ \A p \in Months : SettledIn[p] \in Nat
  BY <1>0, SettledFacts
<1>5. SumFunctionOnSet(SettledIn, Months) = Settled(month) + others
  BY <1>0, <1>4, SumTakeOut DEF SettledIn
<1>6. IsFiniteSet(Months \ {month})
  BY <1>4, FS_RemoveElement
<1>7. \A p \in Months : SettledIn'[p] \in Nat /\ (p # month => SettledIn'[p] = SettledIn[p])
  <2>1. \A p \in Months : SettledIn'[p] = Settled(p)' /\ SettledIn[p] = Settled(p)
    BY DEF SettledIn
  <2>. QED BY <2>1, <1>0, <1>2, <1>4
<1>8. SumFunctionOnSet(SettledIn', Months \ {month}) = others
  BY <1>4, <1>6, <1>7, SumSame
<1>9. SumFunctionOnSet(SettledIn', Months) = SettledIn'[month]
         + SumFunctionOnSet(SettledIn', Months \ {month})
  BY <1>0, <1>4, <1>7, SumTakeOut
<1>10. SettledIn'[month] = owed
  BY <1>0, <1>2 DEF SettledIn
<1>11. SumFunction([p \in Months |-> Settled(p)])' = SumFunctionOnSet(SettledIn', Months)
  <2>1. DOMAIN SettledIn' = Months
    BY DEF SettledIn
  <2>2. SumFunction(SettledIn') = SumFunctionOnSet(SettledIn', DOMAIN SettledIn')
    BY DEF SumFunction
  <2>. QED BY <2>1, <2>2 DEF SettledIn
<1>12. SumFunction([p \in Months |-> Settled(p)]) = SumFunctionOnSet(SettledIn, Months)
  BY <1>0, SettledFacts
<1>13. others \in Nat /\ Settled(month) \in Nat
  BY <1>0, <1>4, <1>6, SumNat DEF Settled, TypeOK
<1> DEFINE before == SumFunction([p \in Months |-> Settled(p)])
           after == SumFunction([p \in Months |-> Settled(p)])'
<1>14. before = Settled(month) + others /\ after = owed + others
  BY <1>5, <1>8, <1>9, <1>10, <1>11, <1>12
<1>15. after + Settled(month) = before + owed
  <2> HIDE DEF before, after, others
  <2>. QED BY <1>0, <1>13, <1>14
<1>. QED BY <1>1, <1>2, <1>15 DEF owed

\* The jobs that were accepted in a month and are not over.
Underway(p) == {j \in Jobs : job[j].active /\ job[j].month = p}

\* What is counted of the jobs is finite.
LEMMA JobSets ==
  ASSUME NEW S \in SUBSET Jobs
  PROVE  IsFiniteSet(S) /\ Cardinality(S) \in Nat
  BY AccountAssumption, FS_Subset, FS_CardinalityType

\* The job that is enqueued is one more of its month.
LEMMA CommitCounts ==
  ASSUME IInv, NEW r \in Requests, request[r].pc = "commit",
         request[r].locked \/ CanInsert(r), Apply(r)
  PROVE  /\ job' \in [Jobs -> [active : BOOLEAN, month : Months, files : 0..MaxFiles]]
         /\ accepted' \in [Months -> Nat]
         /\ \A p \in Months : Cardinality(Underway(p)') <= accepted'[p]
         /\ request[r].kind = "job" => /\ Cardinality(Active') = Cardinality(Active) + 1
                                       /\ accepted'[month] = accepted[month] + 1
         /\ request[r].kind # "job" => UNCHANGED <<job, accepted>>
<1>0. /\ TypeOK /\ request[r].began = month /\ month \in Months
      /\ \A p \in Months : Cardinality(Underway(p)) <= accepted[p]
      /\ MaxFiles \in Nat
  BY CommitFacts, AccountAssumption DEF IInv, Counted, Underway
<1>1. CASE request[r].kind # "job"
  BY <1>0, <1>1 DEF Apply, TypeOK, Underway
<1>2. CASE request[r].kind = "job"
  <2>1. PICK j \in Jobs \ Active :
           job' = [job EXCEPT ![j] = [active |-> TRUE, month |-> month, files |-> 0]]
    BY <1>0, <1>2 DEF Apply
  <2>2. accepted' = [accepted EXCEPT ![month] = @ + 1]
    BY <1>0, <1>2 DEF Apply
  <2> DEFINE queued == [active |-> TRUE, month |-> month, files |-> 0]
  <2>3. /\ queued \in [active : BOOLEAN, month : Months, files : 0..MaxFiles]
        /\ queued.active = TRUE /\ queued.month = month
    BY <1>0
  <2> HIDE DEF queued
  <2>4. job' = [job EXCEPT ![j] = queued]
    BY <2>1 DEF queued
  <2>5. job' \in [Jobs -> [active : BOOLEAN, month : Months, files : 0..MaxFiles]]
    BY <1>0, <2>3, <2>4 DEF TypeOK
  <2>6. accepted' \in [Months -> Nat] /\ accepted'[month] = accepted[month] + 1
        /\ \A p \in Months : accepted[p] \in Nat /\ (p # month => accepted'[p] = accepted[p])
    BY <1>0, <2>2 DEF TypeOK
  <2>7. job'[j] = queued /\ \A i \in Jobs : i # j => job'[i] = job[i]
    BY <1>0, <2>4 DEF TypeOK
  <2>8. j \in Jobs /\ j \notin Active /\ Active' = Active \cup {j}
    BY <2>3, <2>7 DEF Active
  <2>9. Cardinality(Active') = Cardinality(Active) + 1
    <3>1. IsFiniteSet(Active)
      BY JobSets DEF Active
    <3>. QED BY <2>8, <3>1, FS_AddElement
  <2>10. ASSUME NEW p \in Months PROVE Cardinality(Underway(p)') <= accepted'[p]
    <3>1. IsFiniteSet(Underway(p)) /\ Cardinality(Underway(p)) \in Nat
      BY JobSets DEF Underway
    <3>2. j \notin Underway(p)
      BY <2>8 DEF Underway, Active
    <3>3. CASE p = month
      <4>1. Underway(p)' = Underway(p) \cup {j}
        BY <2>3, <2>7, <3>2, <3>3 DEF Underway
      <4>2. Cardinality(Underway(p)') = Cardinality(Underway(p)) + 1
        BY <3>1, <3>2, <4>1, FS_AddElement
      <4>. QED BY <1>0, <2>6, <3>1, <3>3, <4>2
    <3>4. CASE p # month
      <4>1. Underway(p)' = Underway(p)
        BY <2>3, <2>7, <3>2, <3>4 DEF Underway
      <4>. QED BY <1>0, <2>6, <3>4, <4>1
    <3>. QED BY <3>3, <3>4
  <2>. QED BY <1>2, <2>5, <2>6, <2>9, <2>10
<1>. QED BY <1>1, <1>2

\* No credit falls below zero, and one is sold with a status of its own.
LEMMA CommitGrants ==
  ASSUME IInv, NEW r \in Requests, request[r].pc = "commit",
         request[r].locked \/ CanInsert(r), Apply(r)
  PROVE  /\ grant' \in [Grants -> [status : {"unsold", "live", "expired"}, left : 0..Value]]
         /\ \A g \in Grants : g # request[r].grant =>
              /\ grant'[g].status = grant[g].status
              /\ grant'[g].left = grant[g].left - request[r].taken[g]
              /\ grant[g].status = "unsold" => request[r].taken[g] = 0
         /\ \A g \in Grants : g = request[r].grant =>
              grant'[g].status = "live" /\ grant[g].status = "unsold"
<1> DEFINE own == request[r]
<1>0. /\ TypeOK /\ RequestInv(r) /\ own.taken \in [Grants -> 0..Value] /\ Value \in Nat
      /\ grant' = [g \in Grants |->
                     IF g = own.grant
                     THEN [status |-> "live", left |-> Value - own.taken[g]]
                     ELSE [grant[g] EXCEPT !.left = @ - own.taken[g]]]
  BY RequestFacts, AccountAssumption DEF IInv, Apply
<1>1. ASSUME NEW g \in Grants
      PROVE  /\ grant'[g] \in [status : {"unsold", "live", "expired"}, left : 0..Value]
             /\ g # own.grant => /\ grant'[g].status = grant[g].status
                                 /\ grant'[g].left = grant[g].left - own.taken[g]
                                 /\ grant[g].status = "unsold" => own.taken[g] = 0
             /\ g = own.grant => grant'[g].status = "live" /\ grant[g].status = "unsold"
  <2>1. /\ own.taken[g] \in 0..Value /\ grant[g].left \in 0..Value
        /\ grant[g] \in [status : {"unsold", "live", "expired"}, left : 0..Value]
        /\ own.taken[g] <= Bound(r, g)
    BY <1>0, CommitFacts DEF TypeOK
  <2>2. CASE g = own.grant
    <3>1. grant'[g] = [status |-> "live", left |-> Value - own.taken[g]]
      BY <1>0, <2>2
    <3>2. Value - own.taken[g] \in 0..Value
      BY <1>0, <2>1
    <3>3. grant[g].status = "unsold"
      BY <1>0, <2>2, AccountAssumption DEF RequestInv, Selling
    <3>. QED BY <2>2, <3>1, <3>2, <3>3
  <2>3. CASE g # own.grant
    <3>1. grant'[g] = [grant[g] EXCEPT !.left = @ - own.taken[g]]
      BY <1>0, <2>3
    <3>2. grant[g].left - own.taken[g] \in 0..Value /\ (grant[g].status = "unsold" => own.taken[g] = 0)
      BY <1>0, <2>1, <2>3 DEF Bound
    <3>. QED BY <2>1, <2>3, <3>1, <3>2
  <2>. QED BY <2>2, <2>3
<1>2. grant' \in [Grants -> [status : {"unsold", "live", "expired"}, left : 0..Value]]
  <2>1. \A g \in Grants :
           grant'[g] \in [status : {"unsold", "live", "expired"}, left : 0..Value]
    BY <1>1
  <2>. QED BY <1>0, <2>1
<1>. QED BY <1>1, <1>2

\* The commit charges what is owed once, and leaves everybody else's count
\* stale or unable to commit.
LEMMA CommitStep ==
  ASSUME IInv, NEW r \in Requests, Commit(r)
  PROVE  IInv'
<1> DEFINE own == request[r]
<1>0. TypeOK /\ ChargedOnce /\ month' = month /\ own.pc = "commit" /\ Close(r)
  BY DEF IInv, Commit
<1>1. CASE UNCHANGED tables
  BY <1>0, <1>1, CloseStep
<1>2. CASE /\ own.locked \/ CanInsert(r)
           /\ Apply(r) /\ ceiling' = ceiling /\ spent' = spent
           /\ settled' = [p \in DOMAIN settled \cup {own.period} |->
                            IF p = own.period THEN own.owed ELSE settled[p]]
  <2>1. request'[r] = NoRequest /\ \A q \in Requests : q # r => request'[q] = request[q]
    BY <1>0 DEF Close, TypeOK
  <2>2. request' \in [Requests -> Request]
    BY <1>0, ClosedRequest DEF Close, TypeOK
  <2>3. plan' \in Plans
    <3>1. own.kind = "plan" => own.plan \in Plans
      BY DEF IInv, RequestInv, Dated
    <3>. QED BY <1>0, <1>2, <3>1 DEF Apply, TypeOK
  <2>4. /\ DOMAIN settled' = DOMAIN settled \cup {month}
        /\ settled'[month] = own.owed
        /\ \A p \in DOMAIN settled : p # month => settled'[p] = settled[p]
    BY <1>0, <1>2, CommitSettles
  <2>5. /\ month \in Months /\ own.owed \in Nat
        /\ own.owed <= Excess(spent[month], Min(Ceilings))
        /\ TakenBy(r) + Settled(month) <= own.owed
        /\ TakenBy(r) \in Nat /\ Settled(month) \in Nat
    BY <1>0, <1>2, CommitFacts, RequestFacts
  <2>6. TypeOK'
    <3>1. /\ job' \in [Jobs -> [active : BOOLEAN, month : Months, files : 0..MaxFiles]]
          /\ accepted' \in [Months -> Nat]
      BY <1>0, <1>2, CommitCounts
    <3>2. grant' \in [Grants -> [status : {"unsold", "live", "expired"}, left : 0..Value]]
      BY <1>0, <1>2, CommitGrants
    <3>3. DOMAIN settled' \subseteq Months /\ \A p \in DOMAIN settled' : settled'[p] \in Nat
      BY <1>0, <2>4, <2>5 DEF TypeOK
    <3>. QED BY <1>0, <1>2, <2>2, <2>3, <3>1, <3>2, <3>3 DEF TypeOK
  <2>7. Counted'
    <3>1. \A p \in Months : Cardinality(Underway(p)') <= accepted'[p]
      BY <1>0, <1>2, CommitCounts
    <3>2. ASSUME NEW g \in Grants, grant'[g].status = "unsold" PROVE grant'[g].left = 0
      <4>1. /\ grant[g].status = "unsold"
            /\ grant'[g].left = grant[g].left - own.taken[g] /\ own.taken[g] = 0
        BY <1>0, <1>2, <3>2, CommitGrants
      <4>. QED BY <4>1 DEF IInv, Counted
    <3>. QED BY <3>1, <3>2 DEF Counted, Underway
  <2>8. ChargedOnce'
    <3>1. \A p \in DOMAIN settled' : settled'[p] <= Excess(spent'[p], Min(Ceilings))
      BY <1>0, <1>2, <2>4, <2>5 DEF ChargedOnce
    <3>2. Drawn' = Drawn + TakenBy(r)
      BY <1>0, <1>2, <2>6, CommitDraws
    <3> DEFINE before == SumFunction([p \in Months |-> Settled(p)])
               after == SumFunction([p \in Months |-> Settled(p)])'
    <3>3. after + Settled(month) = before + own.owed
      BY <1>0, <1>2, CommitSettles
    <3>4. Drawn <= before /\ Drawn \in Nat /\ before \in Nat
      BY <1>0, DrawnFacts, SettledFacts DEF ChargedOnce
    <3>5. after \in Nat
      <4>1. \A p \in Months : SettledIn'[p] \in Nat
        BY <2>6 DEF SettledIn, Settled, TypeOK
      <4>2. IsFiniteSet(Months)
        BY <1>0, SettledFacts
      <4>3. SumFunctionOnSet(SettledIn', Months) \in Nat
        BY <4>1, <4>2, SumNat
      <4>4. DOMAIN SettledIn' = Months
        BY DEF SettledIn
      <4>5. after = SumFunctionOnSet(SettledIn', DOMAIN SettledIn')
        BY DEF SumFunction, SettledIn
      <4>. QED BY <4>3, <4>4, <4>5
    <3>6. Drawn' <= after
      <4> HIDE DEF before, after
      <4>. QED BY <2>5, <3>2, <3>3, <3>4, <3>5
    <3>. QED BY <3>1, <3>6 DEF ChargedOnce
  <2>9. ASSUME NEW q \in Requests, q # r PROVE RequestInv(q)'
    <3>0. RequestInv(q) /\ request'[q] = request[q] /\ ~request[q].locked
      BY <1>0, <1>2, <2>1, <2>9, CommitFacts DEF IInv
    <3>1. Dated(q)'
      BY <1>0, <3>0 DEF RequestInv, Dated, Past
    <3>2. Selling(q)'
      <4>1. SUFFICES ASSUME request[q].grant # NoGrant PROVE Selling(q)'
        BY <3>0 DEF Selling
      <4>2. request[q].grant \in Grants
        BY <1>0, <4>1, RequestFacts
      <4>3. request[q].grant # own.grant
        BY <2>9, <3>0, <4>1 DEF RequestInv, Selling
      <4>4. grant'[request[q].grant].status = "unsold"
        BY <1>0, <1>2, <3>0, <4>1, <4>2, <4>3, CommitGrants DEF RequestInv, Selling
      <4>. QED BY <2>1, <3>0, <4>1, <4>4, ClosedRequest DEF RequestInv, Selling
    <3>3. Informed(q)'
      BY <1>0, <1>2, <3>0 DEF RequestInv, Informed
    <3>4. Exclusive(q)'
      BY <3>0 DEF RequestInv, Exclusive
    <3>5. Paying(q)' /\ Admitted(q)'
      BY <1>0, <2>4, <3>0 DEF Paying, Admitted
    <3>. QED BY <3>1, <3>2, <3>3, <3>4, <3>5 DEF RequestInv
  <2>10. RequestInv(r)'
    <3>1. Dated(r)' /\ Selling(r)' /\ Exclusive(r)' /\ Paying(r)' /\ Admitted(r)'
      BY <2>1, ClosedRequest DEF Dated, Selling, Exclusive, Paying, Admitted, Past
    <3>2. spent'[1] \in Nat
      BY <2>6, AccountAssumption DEF TypeOK, Months
    <3>3. Excess(spent'[1], Min(Ceilings)) >= 0
      BY <3>2, LowestCeiling DEF Excess
    <3>. QED BY <2>1, <3>1, <3>3, ClosedRequest DEF RequestInv, Informed
  <2>11. \A q \in Requests : RequestInv(q)'
    BY <2>9, <2>10
  <2>. QED BY <2>6, <2>7, <2>8, <2>11 DEF IInv
<1>. QED BY <1>1, <1>2 DEF Commit

-----------------------------------------------------------------------------
(* The worker, the administrator and the clock.                            *)

\* More is over the plan when more has been spent.
LEMMA ExcessGrows ==
  ASSUME NEW a \in Nat, NEW b \in Nat, NEW c \in Nat, a <= b
  PROVE  Excess(a, c) <= Excess(b, c)
  BY DEF Excess

\* A step beside the requests keeps the invariant if it takes back no spending,
\* adds no active job and changes no credit but that it may expire.
LEMMA TablesStep ==
  ASSUME IInv, UNCHANGED <<month, settled, request>>,
         TypeOK', Counted', Drawn' = Drawn,
         \A p \in Months : spent[p] <= spent'[p] /\ accepted'[p] <= accepted[p],
         Cardinality(Active') <= Cardinality(Active),
         \A g \in Grants : /\ grant'[g].left = grant[g].left
                           /\ grant'[g].status = "unsold" <=> grant[g].status = "unsold"
                           /\ Live(g)' => Live(g)
  PROVE  IInv'
<1>0. /\ TypeOK /\ month' = month /\ settled' = settled /\ request' = request
      /\ month \in Months
  BY DEF IInv, TypeOK
<1>1. ASSUME NEW p \in Months
      PROVE  /\ Excess(spent[p], Min(Ceilings)) \in Nat
             /\ Excess(spent'[p], Min(Ceilings)) \in Nat
             /\ Excess(spent[p], Min(Ceilings)) <= Excess(spent'[p], Min(Ceilings))
  <2>1. spent[p] \in Nat /\ spent'[p] \in Nat /\ Min(Ceilings) \in Nat
    BY LowestCeiling DEF IInv, TypeOK
  <2>. QED BY <2>1, ExcessGrows DEF Excess
<1>2. ChargedOnce'
  <2>1. ASSUME NEW p \in DOMAIN settled
        PROVE  settled[p] <= Excess(spent'[p], Min(Ceilings))
    <3>1. p \in Months /\ settled[p] \in Nat
      BY <1>0 DEF TypeOK
    <3>2. settled[p] <= Excess(spent[p], Min(Ceilings))
      BY DEF IInv, ChargedOnce
    <3>. QED BY <3>1, <3>2, <1>1
  <2>2. Drawn <= SumFunction([p \in Months |-> Settled(p)])
    BY DEF IInv, ChargedOnce
  <2>. QED BY <1>0, <2>1, <2>2 DEF ChargedOnce, Settled
<1>3. ASSUME NEW r \in Requests PROVE RequestInv(r)'
  <2>0. /\ RequestInv(r) /\ request[r].grant \in Grants \cup {NoGrant}
        /\ request[r].spent \in Nat /\ request[r].owed \in Nat
        /\ request[r].period \in Months /\ request[r].plan \in Plans \cup {NoPlan}
    BY <1>0, RequestFacts DEF IInv
  <2>1. Dated(r)'
    BY <1>0, <2>0 DEF RequestInv, Dated, Past
  <2>2. Selling(r)'
    BY <1>0, <2>0 DEF RequestInv, Selling
  <2>3. Informed(r)'
    <3>1. spent[month] <= spent'[month] /\ spent[month] \in Nat /\ spent'[month] \in Nat
      BY <1>0 DEF TypeOK
    <3>2. Informed(r)
      BY <2>0 DEF RequestInv
    <3>3. request[r].owed <= Excess(spent'[request[r].period], Min(Ceilings))
      BY <1>1, <2>0, <3>2 DEF Informed
    <3>4. request[r].pc \in {"settlement", "charge"} =>
            request[r].spent <= spent'[month] /\ request[r].ceiling \in Ceilings
      BY <2>0, <3>1, <3>2 DEF Informed
    <3>. QED BY <1>0, <3>3, <3>4 DEF Informed
  <2>4. Exclusive(r)'
    BY <1>0, <2>0 DEF RequestInv, Exclusive, Past
  <2>5. Paying(r)'
    <3>1. \A g \in Grants : Bound(r, g)' = Bound(r, g)
      BY <1>0 DEF Bound
    <3>. QED BY <1>0, <2>0, <3>1 DEF RequestInv, Paying, TakenBy, Settled
  <2>6. Admitted(r)'
    <3>1. SUFFICES ASSUME request[r].pc = "commit" /\ request[r].kind = "job",
                          request[r].locked \/ month \notin DOMAIN settled
                   PROVE  /\ Cardinality(Active') < MaxConcurrent[request[r].plan]
                          /\ accepted'[month] < MonthlyQuota[request[r].plan]
      BY <1>0 DEF Admitted
    <3>2. /\ Cardinality(Active) < MaxConcurrent[request[r].plan]
          /\ accepted[month] < MonthlyQuota[request[r].plan]
          /\ request[r].plan \in Plans
      BY <2>0, <3>1 DEF RequestInv, Admitted, Dated
    <3>3. Cardinality(Active) \in Nat /\ Cardinality(Active') \in Nat
      BY JobSets DEF Active
    <3>4. /\ accepted[month] \in Nat /\ accepted'[month] \in Nat
          /\ accepted'[month] <= accepted[month]
      BY <1>0 DEF TypeOK
    <3>5. MaxConcurrent[request[r].plan] \in Nat /\ MonthlyQuota[request[r].plan] \in Nat
      BY <3>2, AccountAssumption
    <3>. QED BY <3>2, <3>3, <3>4, <3>5
  <2>. QED BY <2>1, <2>2, <2>3, <2>4, <2>5, <2>6 DEF RequestInv
<1>. QED BY <1>2, <1>3 DEF IInv

\* A price is changed beside all that is charged by it.
LEMMA RepriceStep ==
  ASSUME IInv, NEW p \in Plans, Reprice(p)
  PROVE  IInv'
<1>1. /\ month' = month /\ plan' = plan /\ spent' = spent /\ job' = job
      /\ accepted' = accepted /\ grant' = grant /\ settled' = settled /\ request' = request
  BY DEF Reprice
<1>2. TypeOK'
  <2>1. ceiling' \in [Plans -> Ceilings]
    BY DEF Reprice, IInv, TypeOK
  <2>. QED BY <1>1, <2>1 DEF IInv, TypeOK
<1>3. Counted' /\ Drawn' = Drawn /\ Active' = Active
  BY <1>1 DEF IInv, Counted, Drawn, Sold, Active
<1>4. Cardinality(Active) \in Nat
  BY JobSets DEF Active
<1>5. \A p_1 \in Months : spent[p_1] \in Nat /\ accepted[p_1] \in Nat
  BY DEF IInv, TypeOK
<1>. QED BY <1>1, <1>2, <1>3, <1>4, <1>5, TablesStep DEF Live

\* An active job that is changed, and the counts of its month.
LEMMA JobStep ==
  ASSUME IInv, NEW j \in Jobs, job[j].active,
         NEW new \in [active : BOOLEAN, month : Months, files : 0..MaxFiles],
         job' = [job EXCEPT ![j] = new], new.active => new.month = job[j].month
  PROVE  /\ job' \in [Jobs -> [active : BOOLEAN, month : Months, files : 0..MaxFiles]]
         /\ Cardinality(Active') <= Cardinality(Active)
         /\ \A p \in Months : Cardinality(Underway(p)') <= Cardinality(Underway(p))
         /\ \A p \in Months : ~new.active /\ p = job[j].month =>
              Cardinality(Underway(p)') + 1 = Cardinality(Underway(p))
<1>0. /\ job'[j] = new /\ \A i \in Jobs : i # j => job'[i] = job[i]
      /\ job' \in [Jobs -> [active : BOOLEAN, month : Months, files : 0..MaxFiles]]
  BY DEF IInv, TypeOK
<1>1. Active' \subseteq Active /\ \A p \in Months : Underway(p)' \subseteq Underway(p)
  BY <1>0 DEF Active, Underway
<1>2. IsFiniteSet(Active) /\ \A p \in Months : IsFiniteSet(Underway(p))
  BY JobSets DEF Active, Underway
<1>3. /\ Cardinality(Active') <= Cardinality(Active)
      /\ \A p \in Months : Cardinality(Underway(p)') <= Cardinality(Underway(p))
  BY <1>1, <1>2, FS_Subset
<1>4. ASSUME NEW p \in Months, ~new.active, p = job[j].month
      PROVE  Cardinality(Underway(p)') + 1 = Cardinality(Underway(p))
  <2>1. j \in Underway(p) /\ Underway(p)' = Underway(p) \ {j}
    BY <1>0, <1>4 DEF Underway
  <2>2. Cardinality(Underway(p) \ {j}) = Cardinality(Underway(p)) - 1
        /\ Cardinality(Underway(p)) \in Nat
    BY <2>1, <1>2, FS_RemoveElement, FS_CardinalityType
  <2>. QED BY <2>1, <2>2
<1>. QED BY <1>0, <1>3, <1>4

\* Usage of a file is added to a month, the jobs that are active stay.
LEMMA SpendStep ==
  ASSUME IInv, NEW j \in Jobs, Spend(j)
  PROVE  IInv'
<1>0. /\ TypeOK /\ Counted /\ month \in Months /\ FileCost \in Nat /\ MaxFiles \in Nat
      /\ job[j] \in [active : BOOLEAN, month : Months, files : 0..MaxFiles]
      /\ month' = month /\ plan' = plan /\ ceiling' = ceiling /\ accepted' = accepted
      /\ grant' = grant /\ settled' = settled /\ request' = request
      /\ job[j].active /\ job[j].files < MaxFiles
  BY AccountAssumption DEF IInv, TypeOK, Spend
<1> DEFINE new == [job[j] EXCEPT !.files = @ + 1]
<1>1. /\ new \in [active : BOOLEAN, month : Months, files : 0..MaxFiles]
      /\ new.active = job[j].active /\ new.month = job[j].month
  <2>1. job[j].files + 1 \in 0..MaxFiles
    BY <1>0
  <2>. QED BY <1>0, <2>1
<1>2. job' = [job EXCEPT ![j] = new]
  BY DEF Spend
<1> HIDE DEF new
<1>3. /\ job' \in [Jobs -> [active : BOOLEAN, month : Months, files : 0..MaxFiles]]
      /\ Cardinality(Active') <= Cardinality(Active)
      /\ \A p \in Months : Cardinality(Underway(p)') <= Cardinality(Underway(p))
  BY <1>0, <1>1, <1>2, JobStep
<1>4. /\ spent' \in [Months -> Nat]
      /\ \A p \in Months : spent[p] <= spent'[p]
  <2>1. PICK p \in {month, job[j].month} : spent' = [spent EXCEPT ![p] = @ + FileCost]
    BY DEF Spend
  <2>2. p \in Months /\ spent \in [Months -> Nat]
    BY <1>0 DEF TypeOK
  <2>3. spent[p] + FileCost \in Nat /\ spent[p] + FileCost >= spent[p]
    BY <1>0, <2>2
  <2>. QED BY <2>1, <2>2, <2>3
<1>5. TypeOK'
  BY <1>0, <1>3, <1>4 DEF TypeOK
<1>6. Counted'
  <2>1. \A p \in Months : /\ Cardinality(Underway(p)) <= accepted[p] /\ accepted[p] \in Nat
                          /\ Cardinality(Underway(p)) \in Nat
                          /\ Cardinality(Underway(p)') \in Nat
    BY <1>0, JobSets DEF Counted, Underway, TypeOK
  <2>2. \A p \in Months : Cardinality(Underway(p)') <= accepted[p]
    BY <2>1, <1>3
  <2>. QED BY <1>0, <2>2 DEF Counted, Underway
<1>7. Drawn' = Drawn
  BY <1>0 DEF Drawn, Sold
<1>8. \A p \in Months : accepted[p] \in Nat
  BY <1>0 DEF TypeOK
<1>. QED BY <1>0, <1>3, <1>4, <1>5, <1>6, <1>7, <1>8, TablesStep DEF Live

\* The row of a job that is over is no longer counted as active.
LEMMA OverJob == NoJob \in [active : BOOLEAN, month : Months, files : 0..MaxFiles] /\ ~NoJob.active
  BY AccountAssumption DEF NoJob, Months

\* A job that ends leaves its place among the active ones.
LEMMA FinishStep ==
  ASSUME IInv, NEW j \in Jobs, Finish(j)
  PROVE  IInv'
<1>0. /\ TypeOK /\ Counted
      /\ month' = month /\ plan' = plan /\ ceiling' = ceiling /\ accepted' = accepted
      /\ spent' = spent /\ grant' = grant /\ settled' = settled /\ request' = request
      /\ job[j].active /\ job' = [job EXCEPT ![j] = NoJob]
  BY DEF IInv, Finish
<1>1. /\ job' \in [Jobs -> [active : BOOLEAN, month : Months, files : 0..MaxFiles]]
      /\ Cardinality(Active') <= Cardinality(Active)
      /\ \A p \in Months : Cardinality(Underway(p)') <= Cardinality(Underway(p))
  BY <1>0, OverJob, JobStep
<1>2. TypeOK'
  BY <1>0, <1>1 DEF TypeOK
<1>3. Counted'
  <2>1. \A p \in Months : /\ Cardinality(Underway(p)) <= accepted[p] /\ accepted[p] \in Nat
                          /\ Cardinality(Underway(p)) \in Nat
                          /\ Cardinality(Underway(p)') \in Nat
    BY <1>0, JobSets DEF Counted, Underway, TypeOK
  <2>2. \A p \in Months : Cardinality(Underway(p)') <= accepted[p]
    BY <2>1, <1>1
  <2>. QED BY <1>0, <2>2 DEF Counted, Underway
<1>4. Drawn' = Drawn
  BY <1>0 DEF Drawn, Sold
<1>5. \A p \in Months : accepted[p] \in Nat /\ spent[p] \in Nat
  BY <1>0 DEF TypeOK
<1>. QED BY <1>0, <1>1, <1>2, <1>3, <1>4, <1>5, TablesStep DEF Live

\* A cancelled job is taken out of the count of its month: it was in it.
LEMMA CancelStep ==
  ASSUME IInv, NEW j \in Jobs, CancelQueued(j)
  PROVE  IInv'
<1> DEFINE of == job[j].month
<1>0. /\ TypeOK /\ Counted /\ of \in Months
      /\ month' = month /\ plan' = plan /\ ceiling' = ceiling
      /\ spent' = spent /\ grant' = grant /\ settled' = settled /\ request' = request
      /\ job[j].active /\ job' = [job EXCEPT ![j] = NoJob]
      /\ accepted' = [accepted EXCEPT ![of] = @ - 1]
  BY DEF IInv, TypeOK, CancelQueued
<1>1. /\ job' \in [Jobs -> [active : BOOLEAN, month : Months, files : 0..MaxFiles]]
      /\ Cardinality(Active') <= Cardinality(Active)
      /\ \A p \in Months : Cardinality(Underway(p)') <= Cardinality(Underway(p))
      /\ \A p \in Months : p = of => Cardinality(Underway(p)') + 1 = Cardinality(Underway(p))
  BY <1>0, OverJob, JobStep
<1>2. \A p \in Months : /\ Cardinality(Underway(p)) <= accepted[p] /\ accepted[p] \in Nat
                        /\ Cardinality(Underway(p)) \in Nat
                        /\ Cardinality(Underway(p)') \in Nat
  BY <1>0, JobSets DEF Counted, Underway, TypeOK
<1>3. /\ accepted' \in [Months -> Nat]
      /\ \A p \in Months : /\ Cardinality(Underway(p)') <= accepted'[p]
                           /\ accepted'[p] <= accepted[p]
  <2>1. accepted[of] - 1 \in Nat
    BY <1>0, <1>1, <1>2
  <2>2. accepted'[of] = accepted[of] - 1 /\ \A p \in Months : p # of => accepted'[p] = accepted[p]
    BY <1>0 DEF TypeOK
  <2>3. accepted' \in [Months -> Nat]
    BY <1>0, <2>1 DEF TypeOK
  <2> HIDE DEF of
  <2>4. ASSUME NEW p \in Months
        PROVE  Cardinality(Underway(p)') <= accepted'[p] /\ accepted'[p] <= accepted[p]
    <3>1. CASE p = of
      BY <1>1, <1>2, <2>2, <3>1
    <3>2. CASE p # of
      BY <1>1, <1>2, <2>2, <3>2
    <3>. QED BY <3>1, <3>2
  <2>. QED BY <2>3, <2>4
<1>4. TypeOK'
  BY <1>0, <1>1, <1>3 DEF TypeOK
<1>5. Counted'
  BY <1>0, <1>3 DEF Counted, Underway
<1>6. Drawn' = Drawn
  BY <1>0 DEF Drawn, Sold
<1>7. \A p \in Months : spent[p] \in Nat
  BY <1>0 DEF TypeOK
<1>. QED BY <1>0, <1>1, <1>3, <1>4, <1>5, <1>6, <1>7, TablesStep DEF Live

\* A credit that expires keeps what was drawn on it.
LEMMA ExpireStep ==
  ASSUME IInv, NEW g \in Grants, Expire(g)
  PROVE  IInv'
<1>0. /\ TypeOK /\ Counted /\ grant[g].status = "live"
      /\ month' = month /\ plan' = plan /\ ceiling' = ceiling /\ accepted' = accepted
      /\ spent' = spent /\ job' = job /\ settled' = settled /\ request' = request
  BY DEF IInv, Expire, Spendable
<1> DEFINE new == [grant[g] EXCEPT !.status = "expired"]
<1>1. /\ new \in [status : {"unsold", "live", "expired"}, left : 0..Value]
      /\ new.status = "expired" /\ new.left = grant[g].left
  BY <1>0 DEF TypeOK
<1>2. grant' = [grant EXCEPT ![g] = new]
  BY DEF Expire
<1> HIDE DEF new
<1>3. grant' \in [Grants -> [status : {"unsold", "live", "expired"}, left : 0..Value]]
  BY <1>0, <1>1, <1>2 DEF TypeOK
<1>4. grant'[g] = new /\ \A h \in Grants : h # g => grant'[h] = grant[h]
  BY <1>0, <1>2 DEF TypeOK
<1>5. \A h \in Grants : /\ grant'[h].left = grant[h].left
                        /\ grant'[h].status = "unsold" <=> grant[h].status = "unsold"
                        /\ Live(h)' => Live(h)
  BY <1>0, <1>1, <1>4 DEF Live
<1>6. TypeOK'
  BY <1>0, <1>3 DEF TypeOK
<1>7. Counted'
  BY <1>0, <1>5 DEF Counted
<1>8. Drawn' = Drawn
  <2>1. Sold' = Sold
    BY <1>5 DEF Sold
  <2>2. \A h \in Grants : (IF h \in Sold' THEN Value - grant'[h].left ELSE 0)
                           = (IF h \in Sold THEN Value - grant[h].left ELSE 0)
    BY <1>5, <2>1
  <2>3. [h \in Grants |-> IF h \in Sold' THEN Value - grant'[h].left ELSE 0]
          = [h \in Grants |-> IF h \in Sold THEN Value - grant[h].left ELSE 0]
    BY <2>2
  <2>. QED BY <2>3 DEF Drawn
<1>9. \A p \in Months : accepted[p] \in Nat /\ spent[p] \in Nat
  BY <1>0 DEF TypeOK
<1>10. Active' = Active /\ Cardinality(Active) \in Nat
  BY <1>0, JobSets DEF Active
<1>. QED BY <1>0, <1>5, <1>6, <1>7, <1>8, <1>9, <1>10, TablesStep

\* Where no request is under way the month turns over nothing.
LEMMA TurnMonthStep ==
  ASSUME IInv, TurnsMidway = FALSE, TurnMonth
  PROVE  IInv'
<1>0. /\ TypeOK /\ month' = month + 1 /\ month < LastMonth
      /\ plan' = plan /\ ceiling' = ceiling /\ accepted' = accepted /\ grant' = grant
      /\ spent' = spent /\ job' = job /\ settled' = settled /\ request' = request
      /\ \A r \in Requests : request[r].pc = "idle"
  BY DEF IInv, TurnMonth
<1>1. month' \in Months
  BY <1>0, AccountAssumption DEF TypeOK, Months
<1>2. TypeOK' /\ Counted' /\ ChargedOnce'
  BY <1>0, <1>1 DEF IInv, TypeOK, Counted, ChargedOnce, Drawn, Sold, Settled
<1>3. ASSUME NEW r \in Requests PROVE RequestInv(r)'
  <2>1. RequestInv(r) /\ request[r].pc = "idle" /\ ~request[r].locked
    BY <1>0 DEF IInv, RequestInv, Exclusive, Past
  <2>2. Dated(r)' /\ Exclusive(r)' /\ Paying(r)' /\ Admitted(r)'
    BY <1>0, <2>1 DEF RequestInv, Dated, Exclusive, Paying, Admitted, Past
  <2>3. Selling(r)'
    BY <1>0, <2>1 DEF RequestInv, Selling
  <2>4. Informed(r)'
    BY <1>0, <2>1 DEF RequestInv, Informed
  <2>. QED BY <2>2, <2>3, <2>4 DEF RequestInv
<1>. QED BY <1>2, <1>3 DEF IInv

-----------------------------------------------------------------------------
(* The theorems.                                                           *)

\* At first nothing is spent, sold or accepted.
LEMMA InitIInv == Init => IInv
<1> SUFFICES ASSUME Init PROVE IInv
  OBVIOUS
<1>0. /\ Value \in Nat /\ 1 \in Months /\ LastMonth \in Nat
      /\ IsFiniteSet(Months) /\ IsFiniteSet(Grants)
  <2>1. 1 \in Months /\ LastMonth \in Nat
    BY AccountAssumption DEF Months
  <2>2. IsFiniteSet(Months)
    <3>1. \A a, b \in Int : IsFiniteSet(a..b)
      BY FS_Interval
    <3>. QED BY <2>1, <3>1 DEF Months
  <2>3. Value \in Nat /\ IsFiniteSet(Grants)
    BY AccountAssumption
  <2>. QED BY <2>1, <2>2, <2>3
<1>1. TypeOK
  <2>1. /\ job \in [Jobs -> [active : BOOLEAN, month : Months, files : 0..MaxFiles]]
        /\ grant \in [Grants -> [status : {"unsold", "live", "expired"}, left : 0..Value]]
    BY <1>0, OverJob DEF Init, Unsold
  <2>2. request \in [Requests -> Request]
    BY ClosedRequest DEF Init
  <2>. QED BY <1>0, <2>1, <2>2 DEF Init, TypeOK
<1>2. Counted
  <2>1. \A p \in Months : {j \in Jobs : job[j].active /\ job[j].month = p} = {}
    BY OverJob DEF Init
  <2>2. \A g \in Grants : grant[g].left = 0
    BY DEF Init, Unsold
  <2>3. \A p \in Months : Cardinality({j \in Jobs : job[j].active /\ job[j].month = p}) = 0
    BY <2>1, FS_EmptySet
  <2>4. \A p \in Months : accepted[p] = 0
    BY DEF Init
  <2>. QED BY <2>2, <2>3, <2>4 DEF Counted
<1>3. ChargedOnce
  <2>1. DOMAIN settled = {}
    BY DEF Init
  <2>2. \A g \in Grants : DrawnOn[g] = 0
    BY DEF Init, Unsold, DrawnOn, Sold
  <2>3. Drawn = 0
    BY <1>0, <1>1, <2>2, DrawnFacts, SumZero
  <2>4. SumFunction([p \in Months |-> Settled(p)]) \in Nat
    BY <1>1, SettledFacts
  <2> DEFINE all == SumFunction([p \in Months |-> Settled(p)])
  <2>5. Drawn <= all
    <3> HIDE DEF all
    <3>1. all \in Nat
      BY <2>4 DEF all
    <3>. QED BY <2>3, <3>1
  <2>. QED BY <2>1, <2>5 DEF ChargedOnce
<1>4. ASSUME NEW r \in Requests PROVE RequestInv(r)
  <2>1. request[r] = NoRequest
    BY DEF Init
  <2>2. Dated(r) /\ Selling(r) /\ Exclusive(r) /\ Paying(r) /\ Admitted(r)
    BY <2>1, ClosedRequest DEF Dated, Selling, Exclusive, Paying, Admitted, Past
  <2>3. Excess(spent[1], Min(Ceilings)) >= 0
    BY <1>0, LowestCeiling DEF Init, Excess
  <2>. QED BY <2>1, <2>2, <2>3, ClosedRequest DEF RequestInv, Informed
<1>. QED BY <1>1, <1>2, <1>3, <1>4 DEF IInv

\* Every step of an account keeps the invariant.
LEMMA StepIInv ==
  ASSUME TurnsMidway = FALSE
  PROVE  IInv /\ [Next]_vars => IInv'
<1> SUFFICES ASSUME IInv, [Next]_vars PROVE IInv'
  OBVIOUS
<1>1. ASSUME NEW r \in Requests, Step(r) PROVE IInv'
  BY <1>1, BeginStep, ReadSpendStep, SelectSettlementStep, ChargeStep, QuotaStep, CommitStep
     DEF Step
<1>2. ASSUME NEW p \in Plans, Reprice(p) PROVE IInv'
  BY <1>2, RepriceStep
<1>3. ASSUME NEW j \in Jobs, Spend(j) \/ Finish(j) \/ CancelQueued(j) PROVE IInv'
  BY <1>3, SpendStep, FinishStep, CancelStep
<1>4. ASSUME TurnMonth PROVE IInv'
  BY <1>4, TurnMonthStep
<1>5. ASSUME NEW g \in Grants, Expire(g) PROVE IInv'
  BY <1>5, ExpireStep
<1>6. CASE UNCHANGED vars
  <2>1. /\ month' = month /\ plan' = plan /\ ceiling' = ceiling /\ spent' = spent
        /\ job' = job /\ accepted' = accepted /\ grant' = grant /\ settled' = settled
        /\ request' = request
    BY <1>6 DEF vars, tables
  <2>2. TypeOK' /\ Counted' /\ ChargedOnce'
    BY <2>1 DEF IInv, TypeOK, Counted, ChargedOnce, Drawn, Sold, Settled
  <2>3. ASSUME NEW r \in Requests PROVE RequestInv(r)'
    <3>1. RequestInv(r)
      BY DEF IInv
    <3>2. Dated(r)' /\ Selling(r)' /\ Informed(r)' /\ Exclusive(r)'
      BY <2>1, <3>1 DEF RequestInv, Dated, Selling, Informed, Exclusive, Past
    <3>3. Paying(r)' /\ Admitted(r)'
      BY <2>1, <3>1 DEF RequestInv, Paying, Admitted, Bound, TakenBy, Live, Settled, Active
    <3>. QED BY <3>2, <3>3 DEF RequestInv
  <2>. QED BY <2>2, <2>3 DEF IInv
<1>. QED BY <1>1, <1>2, <1>3, <1>4, <1>5, <1>6 DEF Next

\* The invariant holds throughout, where the month does not turn while a
\* request is under way.
THEOREM AccountInvariant ==
  ASSUME TurnsMidway = FALSE
  PROVE  Spec => []IInv
<1>1. IInv /\ [Next]_vars => IInv'
  BY StepIInv
<1>. QED BY <1>1, InitIInv, PTL DEF Spec

\* No balance is negative or above what was sold, and the rest of the types.
THEOREM AccountTypes ==
  ASSUME TurnsMidway = FALSE
  PROVE  Spec => []TypeOK
<1>1. IInv => TypeOK
  BY DEF IInv
<1>. QED BY <1>1, AccountInvariant, PTL

\* What a month costs beyond the plan is charged once, however many requests
\* settle it at the same time and whatever the prices do meanwhile.
THEOREM OverflowChargedOnce ==
  ASSUME TurnsMidway = FALSE
  PROVE  Spec => []ChargedOnce
<1>1. IInv => ChargedOnce
  BY DEF IInv
<1>. QED BY <1>1, AccountInvariant, PTL

\* A commit that has stored what it owes.
Stored(r) ==
  /\ request[r].pc = "commit"
  /\ request[r].locked \/ CanInsert(r)
  /\ Apply(r)
  /\ settled' = [p \in DOMAIN settled \cup {request[r].period} |->
                   IF p = request[r].period THEN request[r].owed ELSE settled[p]]
  /\ month' = month

\* A commit stores what the request owes or changes no table.
LEMMA StoredOrNot ==
  ASSUME NEW r \in Requests, Commit(r)
  PROVE  Stored(r) \/ UNCHANGED tables
  BY DEF Commit, Stored

\* The steps that change a credit or a row of the settlements.
LEMMA WhoWrites ==
  ASSUME [Next]_vars
  PROVE  /\ settled' # settled => \E r \in Requests : Stored(r)
         /\ grant' # grant => \/ \E r \in Requests : Stored(r)
                              \/ \E g \in Grants : Expire(g)
<1>1. ASSUME NEW r \in Requests, Step(r)
      PROVE  Stored(r) \/ UNCHANGED tables
  <2>1. CASE Commit(r)
    BY <2>1, StoredOrNot
  <2>2. CASE Begin(r) \/ ReadSpend(r)
    BY <2>2 DEF Begin, ReadSpend
  <2>3. CASE SelectSettlement(r) \/ Charge(r)
    BY <2>3 DEF SelectSettlement, Charge
  <2>4. CASE Quota(r)
    BY <2>4 DEF Quota
  <2>. QED BY <1>1, <2>1, <2>2, <2>3, <2>4 DEF Step
<1>2. ASSUME NEW p \in Plans, Reprice(p) PROVE settled' = settled /\ grant' = grant
  BY <1>2 DEF Reprice
<1>3. ASSUME NEW j \in Jobs, Spend(j) \/ Finish(j) \/ CancelQueued(j)
      PROVE  settled' = settled /\ grant' = grant
  BY <1>3 DEF Spend, Finish, CancelQueued
<1>4. TurnMonth => settled' = settled /\ grant' = grant
  BY DEF TurnMonth
<1>5. \A g \in Grants : Expire(g) => settled' = settled
  BY DEF Expire
<1>6. UNCHANGED tables => settled' = settled /\ grant' = grant
  BY DEF tables
<1>7. UNCHANGED vars => UNCHANGED tables
  BY DEF vars
<1> HIDE DEF Stored, tables
<1>. QED BY <1>1, <1>2, <1>3, <1>4, <1>5, <1>6, <1>7 DEF Next

\* What a stored commit does to the credits that had been sold before.
LEMMA StoredGrants ==
  ASSUME IInv, NEW r \in Requests, Stored(r), NEW g \in Sold
  PROVE  /\ g \in Grants /\ grant'[g].left = grant[g].left - request[r].taken[g]
         /\ grant[g].left \in Nat /\ request[r].taken[g] \in Nat
<1>1. g \in Grants /\ grant[g].status # "unsold"
  BY DEF Sold
<1>2. g # request[r].grant
  BY <1>1, CommitGrants DEF Stored
<1>3. grant[g].left \in 0..Value /\ Value \in Nat
  BY <1>1, AccountAssumption DEF IInv, TypeOK
<1>. QED BY <1>1, <1>2, <1>3, CommitGrants, CommitFacts DEF Stored

\* A stored commit leaves a state of the right types.
LEMMA StoredTypes ==
  ASSUME IInv, NEW r \in Requests, Stored(r), IInv'
  PROVE  Drawn' = Drawn + TakenBy(r) /\ Drawn \in Nat /\ TakenBy(r) \in Nat
<1>1. TypeOK /\ TypeOK'
  BY DEF IInv
<1>. QED BY <1>1, CommitDraws, CommitFacts, DrawnFacts DEF Stored

\* Credits are used in the order in which they expire, whatever order they
\* were sold in and however many requests charge them.
THEOREM CreditsUsedSoonestFirst ==
  ASSUME TurnsMidway = FALSE
  PROVE  Spec => SoonestFirst
<1> DEFINE InOrderOfExpiry ==
      grant' # grant =>
        \A g, h \in Sold : /\ ExpiryOf[g] < ExpiryOf[h] /\ grant[g].status = "live"
                           /\ grant'[h].left < grant[h].left
                           => grant'[g].left = 0
<1>1. IInv /\ [Next]_vars => InOrderOfExpiry
  <2> SUFFICES ASSUME IInv, [Next]_vars, grant' # grant,
                      NEW g \in Sold, NEW h \in Sold,
                      ExpiryOf[g] < ExpiryOf[h], grant[g].status = "live",
                      grant'[h].left < grant[h].left
               PROVE  grant'[g].left = 0
    OBVIOUS
  <2>1. CASE \E r \in Requests : Stored(r)
    <3>1. PICK r \in Requests : Stored(r)
      BY <2>1
    <3>2. /\ grant'[h].left = grant[h].left - request[r].taken[h] /\ h \in Grants
          /\ grant[h].left \in Nat /\ request[r].taken[h] \in Nat
          /\ grant'[g].left = grant[g].left - request[r].taken[g] /\ g \in Grants
          /\ grant[g].left \in Nat /\ request[r].taken[g] \in Nat
      BY <3>1, StoredGrants
    <3>3. request[r].taken[h] > 0
      BY <3>2
    <3>4. request[r].taken[g] = grant[g].left
      BY <3>1, <3>2, <3>3, CommitFacts DEF Stored, Live
    <3>. QED BY <3>2, <3>4
  <2>2. CASE \E e \in Grants : Expire(e)
    <3>1. grant'[h].left = grant[h].left /\ grant[h].left \in 0..Value /\ Value \in Nat
      BY <2>2, AccountAssumption DEF Expire, IInv, TypeOK, Sold
    <3>. QED BY <3>1
  <2>. QED BY <2>1, <2>2, WhoWrites
<1>. QED BY <1>1, AccountInvariant, PTL DEF SoonestFirst, Spec

\* What is owed is forgiven only when no credit is left that could pay it.
THEOREM ForgivenOnlyWhenEmpty ==
  ASSUME TurnsMidway = FALSE
  PROVE  Spec => ForgivenOnlyWithoutCredit
<1> DEFINE Forgiven ==
      settled' # settled =>
        \A p \in Months : Settled(p)' - Settled(p) > Drawn' - Drawn =>
          \A g \in Sold : grant[g].status = "live" => grant'[g].left = 0
<1>1. IInv /\ IInv' /\ [Next]_vars => Forgiven
  <2> SUFFICES ASSUME IInv, IInv', [Next]_vars, settled' # settled,
                      NEW p \in Months, Settled(p)' - Settled(p) > Drawn' - Drawn,
                      NEW g \in Sold, grant[g].status = "live"
               PROVE  grant'[g].left = 0
    OBVIOUS
  <2>1. PICK r \in Requests : Stored(r)
    BY WhoWrites
  <2>2. Drawn' = Drawn + TakenBy(r) /\ Drawn \in Nat /\ TakenBy(r) \in Nat
    BY <2>1, StoredTypes
  <2>3. /\ Settled(month)' = request[r].owed
        /\ \A q \in Months : q # month => Settled(q)' = Settled(q)
    BY <2>1, CommitSettles DEF Stored
  <2>4. /\ Settled(month) \in Nat /\ month \in Months /\ request[r].owed \in Nat
        /\ TakenBy(r) + Settled(month) < request[r].owed =>
             \A e \in Grants : Live(e) => request[r].taken[e] = grant[e].left
    BY <2>1, CommitFacts, RequestFacts DEF Stored, IInv
  <2>5. p = month
    <3>1. Settled(p) \in Nat
      BY DEF Settled, IInv, TypeOK
    <3>. QED BY <2>2, <2>3, <3>1
  <2>6. Settled(p)' = request[r].owed /\ Settled(p) = Settled(month)
    <3>1. month' = month
      BY <2>1 DEF Stored
    <3>. QED BY <2>3, <2>5, <3>1
  <2>7. TakenBy(r) + Settled(month) < request[r].owed
    BY <2>2, <2>4, <2>6
  <2>8. /\ grant'[g].left = grant[g].left - request[r].taken[g] /\ g \in Grants
        /\ grant[g].left \in Nat
    BY <2>1, StoredGrants
  <2>. QED BY <2>4, <2>7, <2>8 DEF Live
<1>2. IInv /\ [Next]_vars => IInv'
  BY StepIInv
<1>. QED BY <1>1, <1>2, AccountInvariant, PTL DEF ForgivenOnlyWithoutCredit, Spec

\* A request is closed by a step of its own.
LEMMA WhoCloses ==
  ASSUME IInv, [Next]_vars, NEW r \in Requests,
         request[r].pc = "commit", request'[r].pc = "idle"
  PROVE  Commit(r)
<1>0. request \in [Requests -> Request]
  BY DEF IInv, TypeOK
<1>1. ASSUME NEW q \in Requests, Step(q) PROVE q = r
  <2>1. \E new : request' = [request EXCEPT ![q] = new]
    <3>1. Begin(q) => \E new : request' = [request EXCEPT ![q] = new]
      BY DEF Begin, Read
    <3>2. ReadSpend(q) \/ SelectSettlement(q) \/ Charge(q) \/ Quota(q)
            => \E new : request' = [request EXCEPT ![q] = new]
      BY DEF ReadSpend, SelectSettlement, Charge, Quota, Read, Close
    <3>3. Commit(q) => \E new : request' = [request EXCEPT ![q] = new]
      BY DEF Commit, Close
    <3>. QED BY <1>1, <3>1, <3>2, <3>3 DEF Step
  <2>2. q # r => request'[r] = request[r]
    BY <1>0, <2>1
  <2>. QED BY <2>2
<1>2. Step(r) => Commit(r)
  BY DEF Step, Begin, ReadSpend, SelectSettlement, Charge, Quota
<1>3. ~ UNCHANGED request
  OBVIOUS
<1>4. \A p \in Plans : ~ Reprice(p)
  BY <1>3 DEF Reprice
<1>5. \A j \in Jobs : ~ Spend(j) /\ ~ Finish(j) /\ ~ CancelQueued(j)
  BY <1>3 DEF Spend, Finish, CancelQueued
<1>6. ~ TurnMonth /\ \A g \in Grants : ~ Expire(g)
  BY <1>3 DEF TurnMonth, Expire
<1>7. ~ UNCHANGED vars
  BY <1>3 DEF vars
<1>. QED BY <1>1, <1>2, <1>4, <1>5, <1>6, <1>7 DEF Next

\* No two requests pass the same count: an account never has more jobs, at one
\* time and in a month, than the plan the request was admitted under.
THEOREM AdmissionsWithinPlan ==
  ASSUME TurnsMidway = FALSE
  PROVE  Spec => AdmittedWithinPlan
<1> DEFINE Within ==
      \A r \in Requests : Accepts(r) =>
        /\ Cardinality(Active') <= MaxConcurrent[request[r].plan]
        /\ accepted'[request[r].began] <= MonthlyQuota[request[r].plan]
<1>1. IInv /\ [Next]_vars => Within
  <2> SUFFICES ASSUME IInv, [Next]_vars, NEW r \in Requests, Accepts(r)
               PROVE  /\ Cardinality(Active') <= MaxConcurrent[request[r].plan]
                      /\ accepted'[request[r].began] <= MonthlyQuota[request[r].plan]
    OBVIOUS
  <2>1. /\ request[r].pc = "commit" /\ request[r].kind = "job"
        /\ request'[r].pc = "idle" /\ Active' # Active
    BY DEF Accepts
  <2>2. Commit(r)
    BY <2>1, WhoCloses
  <2>3. Stored(r)
    <3>1. UNCHANGED tables => Active' = Active
      BY DEF tables, Active
    <3>. QED BY <2>1, <2>2, <3>1, StoredOrNot
  <2>4. /\ Cardinality(Active') = Cardinality(Active) + 1
        /\ accepted'[month] = accepted[month] + 1
    BY <2>1, <2>3, CommitCounts DEF Stored
  <2>5. /\ Cardinality(Active) < MaxConcurrent[request[r].plan]
        /\ accepted[month] < MonthlyQuota[request[r].plan]
        /\ request[r].began = month /\ month \in Months /\ request[r].plan \in Plans
    BY <2>1, <2>3, CommitFacts DEF Stored
  <2>6. /\ Cardinality(Active) \in Nat /\ accepted[month] \in Nat
        /\ MaxConcurrent[request[r].plan] \in Nat /\ MonthlyQuota[request[r].plan] \in Nat
    BY <2>5, JobSets, AccountAssumption DEF Active, IInv, TypeOK
  <2>. QED BY <2>4, <2>5, <2>6
<1>. QED BY <1>1, AccountInvariant, PTL DEF AdmittedWithinPlan, Spec

=============================================================================
