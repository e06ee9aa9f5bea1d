------------------------------ MODULE Accounts ------------------------------
(***************************************************************************)
(* The money of one account: the requests that check its balance and its   *)
(* quota before they accept a job (apps/api/legacydoc_api/deps.py), the    *)
(* settlement of what it spends beyond its plan against the credits it has *)
(* bought (core/billing.py), and the administrator who changes its plan,   *)
(* the prices and its credits meanwhile (routers/admin.py).                *)
(*                                                                         *)
(* A request is one READ COMMITTED transaction of several statements: it   *)
(* reads what is committed, keeps what it writes to itself until Commit    *)
(* and locks the rows it writes or selects FOR UPDATE.  Amounts are        *)
(* integers: a unit is the least a call of an agent costs.                 *)
(***************************************************************************)
EXTENDS Naturals, FiniteSets, FiniteSetsExt

CONSTANTS
  Requests,       \* requests that can be under way at one time
  Jobs,           \* jobs that can be queued or running at one time
  Grants,         \* credits that may be sold
  ExpiryOf,       \* the month of each credit's expires_at
  Value,          \* ceiling_usd of a credit
  NoGrant,
  NoPlan,
  Plans,
  MaxConcurrent,  \* of each plan
  MonthlyQuota,   \* of each plan
  Ceilings,       \* the values a plan's ceiling_usd may be given
  GlobalBudget,
  FileCost,       \* what the agents spend on a file
  MaxFiles,       \* bound: the files of a job
  OthersSpend,    \* what all other accounts may have spent this month
  LastMonth,      \* bound: the last month of a behaviour
  TurnsMidway     \* may the month turn while a request is under way?

ASSUME AccountAssumption ==
  /\ IsFiniteSet(Grants) /\ IsFiniteSet(Jobs)
  /\ ExpiryOf \in [Grants -> Nat]
  /\ \A g, h \in Grants : ExpiryOf[g] = ExpiryOf[h] => g = h
  /\ Ceilings \subseteq Nat /\ Ceilings # {} /\ Plans # {}
  /\ MaxConcurrent \in [Plans -> Nat] /\ MonthlyQuota \in [Plans -> Nat]
  /\ {Value, GlobalBudget, FileCost, MaxFiles} \subseteq Nat /\ OthersSpend \subseteq Nat
  /\ LastMonth \in Nat \ {0} /\ TurnsMidway \in BOOLEAN
  /\ NoGrant \notin Grants /\ NoPlan \notin Plans

VARIABLES
  month,     \* the month the clock shows
  plan,      \* users.plan_tier
  ceiling,   \* plan_pricing and billing_settings: ceiling_usd of each plan
  spent,     \* usage_records of the account, summed by month of created_at
  job,       \* the jobs that are queued or running
  accepted,  \* jobs by month of created_at, the cancelled ones not counted
  grant,     \* credit_grants
  settled,   \* usage_settlements: defined on the months that have a row
  request    \* what each request has read and written so far

tables == <<plan, ceiling, spent, job, accepted, grant, settled>>
vars == <<month, tables, request>>

Months == 1..LastMonth
Excess(a, b) == IF a > b THEN a - b ELSE 0

NoJob == [active |-> FALSE, month |-> 1, files |-> 0]
Unsold == [status |-> "unsold", left |-> 0]

\* What a request does: create_job, get_usage (or the panel's view of the
\* account), change_plan, add_credits.
Kinds == {"job", "usage", "plan", "credit"}

\* plan: the account's, as the request loaded or changed it; grant: the credit
\* it sells; locked: it holds the settlement row of period; owed: what that row
\* will hold; taken: what the credits lose.
NoRequest == [pc |-> "idle", kind |-> "usage", plan |-> NoPlan,
              grant |-> NoGrant, began |-> 1, ceiling |-> 0, spent |-> 0,
              period |-> 1, locked |-> FALSE, owed |-> 0,
              taken |-> [g \in Grants |-> 0]]

PC == {"idle", "spend", "settlement", "charge", "quota", "commit"}

Active == {j \in Jobs : job[j].active}

\* The session is closed; what it has not committed is gone.
Close(r) == request' = [request EXCEPT ![r] = NoRequest]

Read(r, columns) == request' = [request EXCEPT ![r] = columns]

-----------------------------------------------------------------------------
\* The first statements of a handler.  A request for a job is turned away where
\* all accounts together have spent too much; two changes of plan wait for each
\* other on the row of the user.
Begin(r) ==
  /\ request[r].pc = "idle"
  /\ LET fresh == [NoRequest EXCEPT !.pc = "spend", !.plan = plan, !.began = month]
     IN  \/ /\ \E others \in OthersSpend : spent[month] + others < GlobalBudget
            /\ Read(r, [fresh EXCEPT !.kind = "job"])
         \/ Read(r, fresh)
         \/ /\ \A q \in Requests : request[q].kind # "plan"
            /\ \E p \in Plans \ {plan} : Read(r, [fresh EXCEPT !.kind = "plan", !.plan = p])
         \/ \E g \in Grants :
              /\ grant[g].status = "unsold"
              /\ \A q \in Requests : request[q].grant # g
              /\ month < ExpiryOf[g]
              /\ Read(r, [fresh EXCEPT !.kind = "credit", !.grant = g])
  /\ UNCHANGED <<month, tables>>

\* load_pricing, then spend_in_month.
ReadSpend(r) ==
  /\ request[r].pc = "spend"
  /\ Read(r, [request[r] EXCEPT !.pc = "settlement", !.spent = spent[month],
                                !.ceiling = ceiling[request[r].plan],
                                !.plan = IF request[r].kind \in {"job", "plan"}
                                         THEN @ ELSE NoPlan])
  /\ UNCHANGED <<month, tables>>

Locked(p) == \E r \in Requests : request[r].locked /\ request[r].period = p

\* Bug: the settlement is read without FOR UPDATE and locked when written.
SelectUnlocked(r) ==
  /\ request[r].pc = "settlement"
  /\ Read(r, [request[r] EXCEPT
                !.pc = "charge", !.period = month, !.locked = month \in DOMAIN settled,
                !.owed = IF month \in DOMAIN settled THEN settled[month] ELSE 0])
  /\ UNCHANGED <<month, tables>>

\* SELECT ... FOR UPDATE; where there is no row there is nothing to lock.
SelectSettlement(r) ==
  /\ request[r].pc = "settlement"
  /\ month \in DOMAIN settled => ~Locked(month)
  /\ Read(r, [request[r] EXCEPT
                !.pc = "charge", !.period = month, !.locked = month \in DOMAIN settled,
                !.owed = IF month \in DOMAIN settled THEN settled[month] ELSE 0])
  /\ UNCHANGED <<month, tables>>

Spendable(g) == grant[g].status = "live" /\ grant[g].left > 0

\* The credit r sees in g: its own new one, and what has not expired.
Wallet(r) ==
  [g \in Grants |-> IF request[r].grant = g THEN Value
                    ELSE IF grant[g].status = "live" THEN grant[g].left ELSE 0]

Sooner(g) == {h \in Grants : ExpiryOf[h] < ExpiryOf[g]}
Later(g) == {h \in Grants : ExpiryOf[h] > ExpiryOf[g]}

\* Bug: the loop does not look at what a credit has left.
TakeAll(wallet, amount) == [g \in Grants |-> IF wallet[g] > 0 THEN amount ELSE 0]

\* Bug: the loop ends after the first credit.
TakeFirst(wallet, amount) ==
  [g \in Grants |-> IF \A h \in Sooner(g) : wallet[h] = 0
                    THEN Min({wallet[g], amount}) ELSE 0]

\* Bug: ORDER BY expires_at DESC.
TakeLatest(wallet, amount) ==
  [g \in Grants |->
     LET before == SumFunctionOnSet(wallet, Later(g))
     IN  Min({wallet[g], Excess(amount, before)})]

\* Each credit pays, in the order of expires_at, what those before it left.
Take(wallet, amount) ==
  [g \in Grants |->
     LET before == SumFunctionOnSet(wallet, Sooner(g))
     IN  Min({wallet[g], Excess(amount, before)})]

\* An insert of the row somebody else has inserted waits for his transaction
\* and fails when it is committed.
CanInsert(r) == request[r].period \notin DOMAIN settled /\ ~Locked(request[r].period)
Duplicate(r) == ~request[r].locked /\ request[r].period \in DOMAIN settled

\* The rest of settle_overflow.
Charge(r) ==
  LET next == [request[r] EXCEPT
                 !.spent = 0, !.ceiling = IF request[r].kind = "job" THEN @ ELSE 0,
                 !.pc = IF request[r].kind = "job" THEN "quota" ELSE "commit"]
      overflow == Excess(request[r].spent, request[r].ceiling)
      pending == Excess(overflow, request[r].owed)
  IN  /\ request[r].pc = "charge"
      /\ \/ /\ pending = 0
            /\ Read(r, next)
         \/ pending > 0 /\ Duplicate(r) /\ Close(r)
         \/ /\ pending > 0
            /\ request[r].locked \/ CanInsert(r)
            /\ Read(r, [next EXCEPT !.locked = TRUE, !.owed = overflow,
                                    !.taken = Take(Wallet(r), pending)])
      /\ UNCHANGED <<month, tables>>

Credit(r) == SumFunction([g \in Grants |-> Excess(Wallet(r)[g], request[r].taken[g])])

\* available_usd > 0, from what balance_for reads after the settlement.
Solvent(r) == Excess(request[r].ceiling, spent[month]) + Credit(r) > 0

\* Bug: > instead of >= where the jobs in progress are counted.
QuotaOneMore(r) ==
  /\ request[r].pc = "quota"
  /\ IF /\ Solvent(r)
        /\ accepted[month] < MonthlyQuota[request[r].plan]
        /\ Cardinality(Active) <= MaxConcurrent[request[r].plan]
     THEN Read(r, [request[r] EXCEPT !.pc = "commit", !.ceiling = 0])
     ELSE Close(r)
  /\ UNCHANGED <<month, tables>>

\* The end of enforce_cost_budget, then enforce_job_quota.
Quota(r) ==
  /\ request[r].pc = "quota"
  /\ IF /\ Solvent(r)
        /\ accepted[month] < MonthlyQuota[request[r].plan]
        /\ Cardinality(Active) < MaxConcurrent[request[r].plan]
     THEN Read(r, [request[r] EXCEPT !.pc = "commit", !.ceiling = 0])
     ELSE Close(r)
  /\ UNCHANGED <<month, tables>>

\* What the request changed beside the settlement: it has enqueued a job, sold
\* a credit or changed the plan.
Apply(r) ==
  LET own == request[r]
  IN  /\ plan' = IF own.kind = "plan" THEN own.plan ELSE plan
      /\ grant' = [g \in Grants |->
                     IF g = own.grant
                     THEN [status |-> "live", left |-> Value - own.taken[g]]
                     ELSE [grant[g] EXCEPT !.left = @ - own.taken[g]]]
      /\ IF own.kind = "job"
         THEN /\ \E j \in Jobs \ Active :
                   job' = [job EXCEPT ![j] = [active |-> TRUE, month |-> own.began, files |-> 0]]
              /\ accepted' = [accepted EXCEPT ![own.began] = @ + 1]
         ELSE UNCHANGED <<job, accepted>>

\* The last flush and the commit.
Commit(r) ==
  /\ request[r].pc = "commit"
  /\ \/ /\ Duplicate(r)
        /\ UNCHANGED tables
     \/ /\ request[r].locked \/ CanInsert(r)
        /\ Apply(r)
        /\ settled' = [p \in DOMAIN settled \cup {request[r].period} |->
                         IF p = request[r].period THEN request[r].owed ELSE settled[p]]
        /\ UNCHANGED <<ceiling, spent>>
  /\ Close(r)
  /\ UNCHANGED month

Step(r) == \/ Begin(r) \/ ReadSpend(r) \/ SelectSettlement(r)
           \/ Charge(r) \/ Quota(r) \/ Commit(r)

-----------------------------------------------------------------------------
\* update_plan_pricing and update_billing_settings; nothing is settled there.
Reprice(p) ==
  /\ \E usd \in Ceilings \ {ceiling[p]} : ceiling' = [ceiling EXCEPT ![p] = usd]
  /\ UNCHANGED <<month, plan, spent, job, accepted, grant, settled, request>>

\* The worker commits the usage of a file.  created_at is the start of its
\* transaction, which may lie in the month the job was accepted in.
Spend(j) ==
  /\ job[j].active /\ job[j].files < MaxFiles
  /\ job' = [job EXCEPT ![j].files = @ + 1]
  /\ \E p \in {month, job[j].month} : spent' = [spent EXCEPT ![p] = @ + FileCost]
  /\ UNCHANGED <<month, plan, ceiling, accepted, grant, settled, request>>

Finish(j) ==
  /\ job[j].active
  /\ job' = [job EXCEPT ![j] = NoJob]
  /\ UNCHANGED <<month, plan, ceiling, spent, accepted, grant, settled, request>>

\* cancel_job.  Bound: a job that was requeued after its first file is not
\* cancelled here.
CancelQueued(j) ==
  /\ job[j].active /\ job[j].files = 0
  /\ job' = [job EXCEPT ![j] = NoJob]
  /\ accepted' = [accepted EXCEPT ![job[j].month] = @ - 1]
  /\ UNCHANGED <<month, plan, ceiling, spent, grant, settled, request>>

TurnMonth ==
  /\ month < LastMonth
  /\ TurnsMidway \/ \A r \in Requests : request[r].pc = "idle"
  /\ \A g \in Grants : Spendable(g) => month < ExpiryOf[g]
  /\ month' = month + 1
  /\ UNCHANGED <<plan, ceiling, spent, job, accepted, grant, settled, request>>

\* A credit is valid for a month at least; an empty one is not looked at any
\* more, expired or not.
Expire(g) ==
  /\ Spendable(g)
  /\ month = ExpiryOf[g]
  /\ grant' = [grant EXCEPT ![g].status = "expired"]
  /\ UNCHANGED <<month, plan, ceiling, spent, job, accepted, settled, request>>

Init ==
  /\ month = 1
  /\ plan \in Plans
  /\ ceiling \in [Plans -> Ceilings]
  /\ spent = [p \in Months |-> 0]
  /\ accepted = [p \in Months |-> 0]
  /\ job = [j \in Jobs |-> NoJob]
  /\ grant = [g \in Grants |-> Unsold]
  /\ settled = [p \in {} |-> 0]
  /\ request = [r \in Requests |-> NoRequest]

Next ==
  \/ \E r \in Requests : Step(r)
  \/ \E p \in Plans : Reprice(p)
  \/ \E j \in Jobs : Spend(j) \/ Finish(j) \/ CancelQueued(j)
  \/ TurnMonth
  \/ \E g \in Grants : Expire(g)

Spec == Init /\ [][Next]_vars

-----------------------------------------------------------------------------
Request ==
  [pc : PC, kind : Kinds, plan : Plans \cup {NoPlan}, grant : Grants \cup {NoGrant},
   began : Months, ceiling : Ceilings \cup {0}, spent : Nat, period : Months,
   locked : BOOLEAN, owed : Nat, taken : [Grants -> 0..Value]]

\* No credit is below zero or above what was sold, and the rest of the types.
TypeOK ==
  /\ month \in Months
  /\ plan \in Plans
  /\ ceiling \in [Plans -> Ceilings]
  /\ spent \in [Months -> Nat] /\ accepted \in [Months -> Nat]
  /\ job \in [Jobs -> [active : BOOLEAN, month : Months, files : 0..MaxFiles]]
  /\ grant \in [Grants -> [status : {"unsold", "live", "expired"}, left : 0..Value]]
  /\ DOMAIN settled \subseteq Months /\ \A p \in DOMAIN settled : settled[p] \in Nat
  /\ request \in [Requests -> Request]

Settled(p) == IF p \in DOMAIN settled THEN settled[p] ELSE 0
Sold == {g \in Grants : grant[g].status # "unsold"}
Drawn == SumFunction([g \in Grants |-> IF g \in Sold THEN Value - grant[g].left ELSE 0])

\* What a month costs beyond the plan is charged to the credits once, whoever
\* settles it when and under which plan, and what the plan pays for never is.
\* "uma unica vez (usage_settlements guarda quanto ja foi debitado no mes)",
\* docs/como-funciona.md, 3.5.
ChargedOnce ==
  /\ \A p \in DOMAIN settled : settled[p] <= Excess(spent[p], Min(Ceilings))
  /\ Drawn <= SumFunction([p \in Months |-> Settled(p)])

\* A credit is touched when those that expire sooner have nothing left
\* (docs/como-funciona.md, 3.5), in whatever order they were sold.
SoonestFirst ==
  [][grant' # grant =>
       \A g, h \in Sold : /\ ExpiryOf[g] < ExpiryOf[h] /\ grant[g].status = "live"
                          /\ grant'[h].left < grant[h].left
                          => grant'[g].left = 0]_vars

\* Overflow is forgiven only when no credit can cover it (settle_overflow).
ForgivenOnlyWithoutCredit ==
  [][settled' # settled =>
       \A p \in Months : Settled(p)' - Settled(p) > Drawn' - Drawn =>
         \A g \in Sold : grant[g].status = "live" => grant'[g].left = 0]_vars

Accepts(r) ==
  request[r].pc = "commit" /\ request[r].kind = "job" /\ request'[r].pc = "idle"
    /\ Active' # Active

\* Two requests of one account do not both pass the same count: the row of the
\* settlement, locked in front of the count, makes the second one wait for the
\* first, and where there is no row yet the second one's insert fails.
AdmittedWithinPlan ==
  [][\A r \in Requests : Accepts(r) =>
       /\ Cardinality(Active') <= MaxConcurrent[request[r].plan]
       /\ accepted'[request[r].began] <= MonthlyQuota[request[r].plan]]_vars

-----------------------------------------------------------------------------
\* A promise of settle_overflow's own comment that the code does not keep:
\* carrying overflow as debt "would swallow the next credit the account buys".
\* A credit has its whole value when it has just been bought.
TopupStartsFull ==
  [][\A g \in Grants : grant[g].status = "unsold" /\ grant'[g].status = "live"
       => grant'[g].left = Value]_vars
=============================================================================
