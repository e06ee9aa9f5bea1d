----------------------------- MODULE RateLimiter -----------------------------
(***************************************************************************)
(* The throttle in front of the API: the allowance a route falls under     *)
(* (apps/api/legacydoc_api/ratelimit.py) and the sliding window that       *)
(* counts the requests of a client against it, for a bounded number of     *)
(* keys (packages/core/legacydoc_core/ratelimit.py).                       *)
(*                                                                         *)
(* The clock is kept modulo Cycle and the index of the window of a key as  *)
(* the number of windows since.  Time is whole seconds, and an estimate is *)
(* multiplied by the length of its window, so that only Retry-After is     *)
(* rounded: the floats of the code compare as the integers do, but what    *)
(* should be a whole number of seconds may come out a little above.        *)
(***************************************************************************)
EXTENDS Integers, FiniteSetsExt, SequencesExt

CONSTANTS
  Clients,         \* addresses
  MaxRequests,     \* of each rule
  Window,          \* window_seconds of each rule
  Routes,          \* requests, by method and path
  ExemptRoutes,    \* EXEMPT_PATHS and the method OPTIONS
  AuthRoutes,      \* AUTH_PATHS
  JobRoutes,       \* POST on JOB_CREATION_PATHS
  MaxTrackedKeys,
  Cycle            \* a multiple of all windows

\* AUTH_RULE, JOB_RULE, READ_RULE
Rules == {"auth", "jobs", "read"}

ASSUME LimiterAssumption ==
  /\ IsFiniteSet(Clients)
  /\ MaxRequests \in [Rules -> Nat \ {0}] /\ Window \in [Rules -> Nat \ {0}]
  /\ ExemptRoutes \cup AuthRoutes \cup JobRoutes \subseteq Routes
  /\ MaxTrackedKeys \in Nat \ {0}
  /\ Cycle \in Nat \ {0} /\ \A r \in Rules : Cycle % Window[r] = 0

Keys == Rules \X Clients

VARIABLES
  clock,    \* seconds, modulo Cycle
  order,    \* the keys of _states, the one used last at the end
  state,    \* the _KeyState of each key in order
  burst,    \* for the properties: the requests of each key let through so many
            \* seconds ago, as far back as its window is long
  since     \* for the properties: the keys used after the last use of each key

vars == <<clock, order, state, burst, since>>

RuleOf(k) == k[1]
Ages(k) == 0..(Window[RuleOf(k)] - 1)
Silence(k) == [i \in Ages(k) |-> 0]
NoState == [age |-> 0, current |-> 0, previous |-> 0]

Elapsed(k) == clock % Window[RuleOf(k)]
Tracked == ToSet(order)

\* _roll_window
Rolled(s) ==
  IF s.age = 0 THEN s
  ELSE [age |-> 0, current |-> 0, previous |-> IF s.age = 1 THEN s.current ELSE 0]

\* The state _state_for finds for a key.
StateFor(k) == IF k \in Tracked THEN Rolled(state[k]) ELSE NoState

\* Bug: the previous window is forgotten at once.
FixedWindow(k, s) == s.current * Window[RuleOf(k)]

\* The requests of the last window, times its length.
Estimated(k, s) ==
  s.previous * (Window[RuleOf(k)] - Elapsed(k)) + s.current * Window[RuleOf(k)]

Over(k, s) == Estimated(k, s) >= MaxRequests[RuleOf(k)] * Window[RuleOf(k)]

\* The least integer that is not below a / b.
Ceil(a, b) == -((-a) \div b)
AtLeastOneSecond(n) == IF n < 1 THEN 1 ELSE n

\* rule_for, of a route that is not exempt.
RuleFor(route) ==
  IF route \in AuthRoutes THEN "auth" ELSE IF route \in JobRoutes THEN "jobs" ELSE "read"

\* What math.ceil makes of a / b less the seconds elapsed: a float that should
\* be whole may lie just above, and then it is the next integer.
Rounded(a, b, elapsed) ==
  {AtLeastOneSecond(Ceil(a, b) - elapsed), AtLeastOneSecond((a \div b + 1) - elapsed)}

\* Bug: without the time that has passed in the window already.
RetryFromStart(k, s) ==
  LET w == Window[RuleOf(k)]
      headroom == MaxRequests[RuleOf(k)] - s.current
  IN  IF headroom > 0 /\ s.previous > 0
      THEN Rounded((s.previous - headroom) * w, s.previous, 0)
      ELSE Rounded(w, 1, 0)

\* _seconds_until_allowed, each of the answers it may give; current_count never
\* exceeds the limit, so that its decay_needed is zero.
SecondsUntilAllowed(k, s) ==
  LET w == Window[RuleOf(k)]
      headroom == MaxRequests[RuleOf(k)] - s.current
  IN  IF headroom > 0 /\ s.previous > 0
      THEN Rounded((s.previous - headroom) * w, s.previous, Elapsed(k))
      ELSE Rounded(w, 1, Elapsed(k))

\* Bug: a key keeps the place it was inserted at.
PlacedOnce(k) == IF k \in Tracked THEN order ELSE Append(order, k)

\* The key goes to the end.
MovedToEnd(k) == Append(RemoveFirst(order, k), k)

\* _evict_if_over_capacity
Capped(keys) == IF Len(keys) > MaxTrackedKeys THEN Tail(keys) ELSE keys

\* Bug: a request that is refused is counted too (up to a bound).
CountAll(k) ==
  LET s == StateFor(k)
  IN  IF s.current = 2 * MaxRequests[RuleOf(k)] THEN s ELSE [s EXCEPT !.current = @ + 1]

\* check counts what it lets through and nothing else.
Counted(k) == LET s == StateFor(k) IN IF Over(k, s) THEN s ELSE [s EXCEPT !.current = @ + 1]

-----------------------------------------------------------------------------
\* The middleware: no rule, no count; otherwise the key of rule and client.
Request(route, client) ==
  /\ route \notin ExemptRoutes
  /\ LET k == <<RuleFor(route), client>>
         kept == Capped(MovedToEnd(k))
     IN  /\ order' = kept
         /\ state' = [j \in ToSet(kept) |-> IF j = k THEN Counted(k) ELSE state[j]]
         /\ burst' = [j \in Keys |->
                        IF j \notin ToSet(kept) THEN Silence(j)
                        ELSE IF j = k /\ ~Over(k, StateFor(k)) THEN [burst[j] EXCEPT ![0] = @ + 1]
                        ELSE burst[j]]
         /\ since' = [j \in Keys |-> IF j = k THEN {} ELSE since[j] \cup {k}]
  /\ UNCHANGED clock

\* An exempt route passes, uncounted.
Pass(route) == route \in ExemptRoutes /\ UNCHANGED vars

\* A second passes.
Tick ==
  /\ clock' = (clock + 1) % Cycle
  /\ state' = [k \in Tracked |->
                 IF Elapsed(k) = Window[RuleOf(k)] - 1 /\ state[k].age < 2
                 THEN [state[k] EXCEPT !.age = @ + 1] ELSE state[k]]
  /\ burst' = [k \in Keys |-> [i \in Ages(k) |-> IF i = 0 THEN 0 ELSE burst[k][i - 1]]]
  /\ UNCHANGED <<order, since>>

Init ==
  /\ clock = 0
  /\ order = <<>> /\ state = [k \in {} |-> NoState]
  /\ burst = [k \in Keys |-> Silence(k)]
  /\ since = [k \in Keys |-> Keys]

Next == \/ Tick
        \/ \E route \in Routes : Pass(route) \/ \E client \in Clients : Request(route, client)

Spec == Init /\ [][Next]_vars /\ WF_vars(Tick)

-----------------------------------------------------------------------------
\* What goes through within the length of one window is the allowance and the
\* share of it that the seconds since the window began are worth, rounded up:
\* in front of a boundary and behind it the allowance is not spent twice ("A
\* plain fixed window would allow the whole allowance twice here",
\* tests/test_ratelimit.py, test_boundary_burst_is_not_double_counted).
NoDoubleBurst ==
  \A k \in Keys :
    LET w == Window[RuleOf(k)]
    IN  (SumFunction(burst[k]) - 1) * w < MaxRequests[RuleOf(k)] * (w + Elapsed(k))

\* "Eviction drops the least recently seen" (test_the_active_key_survives_eviction):
\* the keys remembered are those followed by too few others since their last use.
Remembered ==
  Tracked = {k \in Keys : k \notin since[k] /\ Cardinality(since[k]) < MaxTrackedKeys}

\* The estimate of k when it has been left alone for so many seconds more.
EstimatedAfter(k, seconds) ==
  LET s == StateFor(k)
      w == Window[RuleOf(k)]
      at == Elapsed(k) + seconds
  IN  CASE at < w -> s.previous * (w - at) + s.current * w
        [] at \in w..(2 * w - 1) -> s.current * (2 * w - at)
        [] OTHER -> 0

Refused == {k \in Tracked : Over(k, StateFor(k))}

Allowed(k, seconds) == EstimatedAfter(k, seconds) < MaxRequests[RuleOf(k)] * Window[RuleOf(k)]

\* Retry-After is right to a second, however it was rounded: a client that comes
\* a second before is refused, and one that comes a second after it, and was
\* left alone meanwhile, is let through.  Of the second itself see
\* RetryAfterIsEnough.
RetryAfterIsTight ==
  \A k \in Refused : \A wait \in SecondsUntilAllowed(k, StateFor(k)) :
    /\ Allowed(k, wait + 1)
    /\ wait > 1 => ~Allowed(k, wait - 1)

\* However often a client asks while it is refused, it is let through again.
ComesBack == \A k \in Keys : []<>(k \notin Refused)

-----------------------------------------------------------------------------
(* Two promises the code does not keep.                                    *)

\* A client that waits as long as Retry-After says is let through ("A
\* Retry-After the client obeys and still gets refused is a broken header",
\* test_waiting_the_advertised_time_actually_works).
RetryAfterIsEnough ==
  \A k \in Refused : \A wait \in SecondsUntilAllowed(k, StateFor(k)) : Allowed(k, wait)

\* To ask again instead of waiting makes the wait longer ("insistir só prolonga
\* o bloqueio", docs/api-contract.md).
InsistingProlongs ==
  [][\A k \in Refused, route \in Routes, client \in Clients :
        Request(route, client) /\ k = <<RuleFor(route), client>> =>
            Min(SecondsUntilAllowed(k, StateFor(k))') > Min(SecondsUntilAllowed(k, StateFor(k)))]_vars
=============================================================================
