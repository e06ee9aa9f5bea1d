------------------------------- MODULE SignIn -------------------------------
(***************************************************************************)
(* One account and what opens it: the password, the sessions, the API keys *)
(* and the reset links (apps/api/legacydoc_api/routers/auth.py, deps.py,   *)
(* core/security.py), and the administrator who switches the account off   *)
(* and on (routers/admin.py).                                              *)
(*                                                                         *)
(* A request is one READ COMMITTED transaction: it reads what is           *)
(* committed, keeps what it writes to itself until its last step, and an   *)
(* UPDATE waits for whoever has updated the row before.  The ORM flushes   *)
(* when it commits (autoflush is off), and only the columns whose value    *)
(* differs from the one it LOADED.                                         *)
(* Time is kept as the age of things: a Tick is the shortest interval the  *)
(* code tells apart, the cooldown between two links.                       *)
(***************************************************************************)
EXTENDS Naturals, FiniteSets

CONSTANTS
  Requests,     \* requests that can be under way at one time
  Sessions,     \* sessions that are followed
  Keys,         \* API keys that are followed
  Links,        \* reset links that can exist at one time
  NoLink,
  MaxFailed,    \* MAX_FAILED_LOGINS
  AttemptsCap,  \* bound: failures beyond it are not counted apart
  LockUnit,     \* LOCKOUT_MINUTES, in ticks
  LockCap,      \* the longest lock, 24 h, in ticks
  LinkLife,     \* RESET_TOKEN_TTL_MINUTES, in ticks
  SessionLife   \* jwt_expire_minutes, in ticks

ASSUME SignInAssumption ==
  /\ IsFiniteSet(Requests) /\ NoLink \notin Links
  /\ {MaxFailed, AttemptsCap, LockUnit, LockCap, LinkLife, SessionLife} \subseteq Nat
  /\ 0 < MaxFailed /\ MaxFailed <= AttemptsCap
  /\ 0 < LockUnit /\ LockUnit <= LockCap
  /\ 0 < LinkLife /\ 0 < SessionLife

VARIABLES
  user,     \* the row in users
  link,     \* password_reset_tokens
  key,      \* api_keys
  session,  \* the age of each session, by its iat
  request   \* what each request has read and written so far

tables == <<user, link, key, session>>
vars == <<tables, request>>

Min2(a, b) == IF a < b THEN a ELSE b

\* hash: 0 before the account exists, then a hash that every reset changes.
\* changed: the age of password_changed_at; older than any session is the same
\* as never.  lock: 0 for no locked_until, 1 for one that has passed, otherwise
\* one more than what is left of it.
User == [hash : 0..2, changed : 0..SessionLife, attempts : 0..AttemptsCap,
         lock : 0..(LockCap + 1), active : BOOLEAN]

NoUser == [hash |-> 0, changed |-> SessionLife, attempts |-> 0, lock |-> 0, active |-> TRUE]

\* A link that was used, or that nobody has been sent yet.
Dead == [open |-> FALSE, left |-> 0]

NoSession == SessionLife + 1

\* The columns a request may write back as it loaded them.
Seen == [attempts : 0..AttemptsCap, lock : 0..(LockCap + 1), active : BOOLEAN]
Columns == [attempts |-> user.attempts, lock |-> user.lock, active |-> user.active]

\* seen: what the request loaded of the user; right: the password it
\* was given is the one it loaded; link: the one it confirms; rows: the links it
\* has updated, which it holds; found: those an UPDATE that waits has found open;
\* keys: those it revokes; late: time has passed since it began.
Unloaded == [attempts |-> 0, lock |-> 0, active |-> TRUE]
NoRequest == [pc |-> "idle", kind |-> "login", seen |-> Unloaded, right |-> FALSE,
              link |-> NoLink, rows |-> {}, found |-> {}, keys |-> {}, late |-> FALSE]

Kinds == {"login", "ask", "confirm", "key", "status"}
PC == {"idle", "claim", "sweep", "waits", "commit"}

Exists == user.hash # 0
Locked == user.lock > 1
Open(l) == link[l].open
Fresh(l) == Open(l) /\ link[l].left > 0

\* get_principal: a session that is not from before the last change of the
\* password, or a key that has not been revoked, of an active account.
Ended(s) == session[s] > user.changed
Accepted == /\ user.active
            /\ \/ \E s \in Sessions : session[s] <= SessionLife /\ ~Ended(s)
               \/ \E k \in Keys : key[k] = "live"

Go(r, columns) == request' = [request EXCEPT ![r] = columns]

\* The session is closed; what it has not committed is gone.
Close(r) == Go(r, NoRequest)

\* Somebody has updated a link of ls and not committed yet.
Held(ls) == \E r \in Requests : request[r].rows \cap ls # {}

\* What a flush of row makes of the row of the user that is committed.
Flush(r, row) ==
  LET dirty == {c \in DOMAIN row : row[c] # request[r].seen[c]}
  IN  [c \in DOMAIN user |-> IF c \in dirty THEN row[c] ELSE user[c]]

\* The client gets a session; one that is not followed otherwise.
Issue == \/ UNCHANGED session
         \/ \E s \in Sessions : session[s] = NoSession /\ session' = [session EXCEPT ![s] = 0]

-----------------------------------------------------------------------------
Register ==
  /\ ~Exists
  /\ user' = [NoUser EXCEPT !.hash = 1]
  /\ Issue
  /\ UNCHANGED <<link, key, request>>

\* Bug: without the limit of a day.
LockoutUncapped(attempts) ==
  IF attempts < MaxFailed THEN 0 ELSE 1 + LockUnit * 2 ^ (attempts - MaxFailed)

\* lockout_until
LockoutUntil(attempts) ==
  IF attempts < MaxFailed THEN 0
  ELSE 1 + Min2(LockUnit * 2 ^ (attempts - MaxFailed), LockCap)

\* The row is read, the lock looked at and the password verified, which takes long.
Login(r) ==
  /\ Exists /\ ~Locked
  /\ \E right \in BOOLEAN :
       Go(r, [NoRequest EXCEPT !.kind = "login", !.pc = "commit", !.right = right, !.seen = Columns])
  /\ UNCHANGED tables

LoginCommit(r) ==
  LET seen == request[r].seen
      failed == Min2(seen.attempts + 1, AttemptsCap)
  IN  /\ request[r].kind = "login" /\ request[r].pc = "commit"
      /\ \/ /\ ~request[r].right
            /\ user' = Flush(r, [seen EXCEPT !.attempts = failed, !.lock = LockoutUntil(failed)])
            /\ UNCHANGED session
         \/ /\ request[r].right /\ seen.active
            /\ user' = Flush(r, [seen EXCEPT !.attempts = 0, !.lock = 0])
            /\ Issue
         \/ /\ request[r].right /\ ~seen.active
            /\ UNCHANGED <<user, session>>
      /\ Close(r)
      /\ UNCHANGED <<link, key>>

-----------------------------------------------------------------------------
\* The user and _reset_requested_recently: a link of this tick that is open.
Ask(r) ==
  /\ Exists /\ user.active
  /\ \A l \in Links : ~(Open(l) /\ link[l].left = LinkLife)
  /\ Go(r, [NoRequest EXCEPT !.kind = "ask", !.pc = "sweep"])
  /\ UNCHANGED tables

OpenLinks == {l \in Links : Open(l)}

\* Bug: the links that somebody holds are left alone.
SweepFree(r) ==
  /\ request[r].pc = "sweep"
  /\ Go(r, [request[r] EXCEPT !.pc = "commit", !.rows = @ \cup {l \in OpenLinks : ~Held({l})}])
  /\ UNCHANGED tables

\* UPDATE of all open links, when nobody else holds one.
Sweep(r) ==
  /\ request[r].pc = "sweep"
  /\ ~Held(OpenLinks \ request[r].rows)
  /\ Go(r, [request[r] EXCEPT !.pc = "commit", !.rows = @ \cup OpenLinks])
  /\ UNCHANGED tables

\* It waits for those that somebody holds; links that are committed meanwhile
\* are not among those it has found.
SweepWaits(r) ==
  /\ request[r].pc = "sweep"
  /\ Held(OpenLinks \ request[r].rows)
  /\ Go(r, [request[r] EXCEPT !.pc = "waits", !.found = OpenLinks])
  /\ UNCHANGED tables

\* Nobody holds them any longer, and those that are still open are updated.
SweepEnds(r) ==
  /\ request[r].pc = "waits"
  /\ ~Held(request[r].found \ request[r].rows)
  /\ Go(r, [request[r] EXCEPT !.pc = "commit", !.found = {},
                              !.rows = @ \cup (request[r].found \cap OpenLinks)])
  /\ UNCHANGED tables

\* A used link is forgotten where its place is needed, and nobody confirms it or
\* has found it.
Free(l) == /\ ~Open(l)
           /\ \A q \in Requests : request[q].link # l /\ l \notin request[q].found

Used(rows) == [l \in Links |-> IF l \in rows THEN Dead ELSE link[l]]

\* Bug: the links before the new one stay open.
AskCommitOnly(r) ==
  /\ request[r].kind = "ask" /\ request[r].pc = "commit"
  /\ \E l \in Links :
       /\ Free(l)
       /\ link' = [link EXCEPT ![l] = [open |-> TRUE, left |-> LinkLife]]
  /\ Close(r)
  /\ UNCHANGED <<user, key, session>>

\* The insert of the new link, the commit, and then the mail.
AskCommit(r) ==
  /\ request[r].kind = "ask" /\ request[r].pc = "commit"
  /\ \E l \in Links :
       /\ Free(l)
       /\ link' = [Used(request[r].rows) EXCEPT ![l] = [open |-> TRUE, left |-> LinkLife]]
  /\ Close(r)
  /\ UNCHANGED <<user, key, session>>

\* The checks of a confirmation, which end where it takes the time.
Confirm(r) ==
  /\ user.active
  /\ \E l \in Links :
       /\ Fresh(l)
       /\ Go(r, [NoRequest EXCEPT !.kind = "confirm", !.pc = "claim", !.link = l, !.seen = Columns])
  /\ UNCHANGED tables

\* The claim has worked; the keys that can be seen are revoked.
Claimed(r) == [request[r] EXCEPT !.pc = "sweep", !.rows = {request[r].link},
                                 !.keys = {k \in Keys : key[k] = "live"}]

\* Bug: the claim does not look at used_at again.
ClaimUnchecked(r) ==
  /\ request[r].pc = "claim"
  /\ ~Held({request[r].link})
  /\ Go(r, Claimed(r))
  /\ UNCHANGED tables

\* UPDATE ... WHERE used_at IS NULL, once whoever holds the link has finished.
Claim(r) ==
  /\ request[r].pc = "claim"
  /\ ~Held({request[r].link})
  /\ IF Open(request[r].link) THEN Go(r, Claimed(r)) ELSE Close(r)
  /\ UNCHANGED tables

\* The ORM flushes the user, with the time the confirmation took at its start.
ConfirmCommit(r) ==
  LET seen == request[r].seen
      flushed == Flush(r, [seen EXCEPT !.attempts = 0, !.lock = 0])
  IN  /\ request[r].kind = "confirm" /\ request[r].pc = "commit"
      /\ user' = [flushed EXCEPT !.hash = 3 - @,
                                 !.changed = IF request[r].late THEN 1 ELSE 0]
      /\ link' = Used(request[r].rows)
      /\ key' = [k \in Keys |-> IF k \in request[r].keys THEN "revoked" ELSE key[k]]
      /\ Issue
      /\ Close(r)

-----------------------------------------------------------------------------
\* create_api_key: the principal first, the insert when it commits.
CreateKey(r) ==
  /\ Accepted
  /\ Go(r, [NoRequest EXCEPT !.kind = "key", !.pc = "commit"])
  /\ UNCHANGED tables

CreateKeyCommit(r) ==
  /\ request[r].kind = "key" /\ request[r].pc = "commit"
  /\ \E k \in Keys : key[k] = "revoked" /\ key' = [key EXCEPT ![k] = "live"]
  /\ Close(r)
  /\ UNCHANGED <<user, link, session>>

RevokeKey ==
  /\ Accepted
  /\ \E k \in Keys : key[k] = "live" /\ key' = [key EXCEPT ![k] = "revoked"]
  /\ UNCHANGED <<user, link, session, request>>

\* change_status by the administrator: the row first, the flush when it commits.
ChangeStatus(r) ==
  /\ Exists
  /\ Go(r, [NoRequest EXCEPT !.kind = "status", !.pc = "commit", !.seen = Columns])
  /\ UNCHANGED tables

ChangeStatusCommit(r) ==
  LET seen == request[r].seen
  IN  /\ request[r].kind = "status" /\ request[r].pc = "commit"
      /\ user' = Flush(r, IF seen.active THEN [seen EXCEPT !.active = FALSE]
                          ELSE [seen EXCEPT !.active = TRUE, !.attempts = 0, !.lock = 0])
      /\ Close(r)
      /\ UNCHANGED <<link, key, session>>

-----------------------------------------------------------------------------
\* A connection is lost, or the database breaks a deadlock.
Abort(r) == request[r].pc # "idle" /\ Close(r) /\ UNCHANGED tables

\* A cooldown passes.  Bound: no request lives through two of these instants.
Tick ==
  /\ Exists
  /\ \A r \in Requests : ~request[r].late
  /\ user' = [user EXCEPT !.changed = Min2(@ + 1, SessionLife),
                          !.lock = IF @ > 1 THEN @ - 1 ELSE @]
  /\ link' = [l \in Links |-> IF Fresh(l) THEN [link[l] EXCEPT !.left = @ - 1] ELSE link[l]]
  /\ session' = [s \in Sessions |-> Min2(session[s] + 1, NoSession)]
  /\ request' = [r \in Requests |-> IF request[r].pc = "idle" THEN NoRequest
                                    ELSE [request[r] EXCEPT !.late = TRUE]]
  /\ UNCHANGED key

Init ==
  /\ user = NoUser
  /\ link = [l \in Links |-> Dead]
  /\ key = [k \in Keys |-> "revoked"]
  /\ session = [s \in Sessions |-> NoSession]
  /\ request = [r \in Requests |-> NoRequest]

Begin(r) ==
  /\ request[r].pc = "idle"
  /\ Login(r) \/ Ask(r) \/ Confirm(r) \/ CreateKey(r) \/ ChangeStatus(r)

Proceed(r) ==
  \/ LoginCommit(r)
  \/ Sweep(r) \/ SweepWaits(r) \/ SweepEnds(r) \/ AskCommit(r)
  \/ Claim(r) \/ ConfirmCommit(r)
  \/ CreateKeyCommit(r) \/ ChangeStatusCommit(r)
  \/ Abort(r)

Next == \/ Register \/ RevokeKey \/ Tick
        \/ \E r \in Requests : Begin(r) \/ Proceed(r)

Spec == Init /\ [][Next]_vars

-----------------------------------------------------------------------------
Request ==
  [pc : PC, kind : Kinds, seen : Seen, right : BOOLEAN, link : Links \cup {NoLink},
   rows : SUBSET Links, found : SUBSET Links, keys : SUBSET Keys, late : BOOLEAN]

TypeOK ==
  /\ user \in User
  /\ link \in [Links -> [open : BOOLEAN, left : 0..LinkLife]]
  /\ key \in [Keys -> {"live", "revoked"}]
  /\ session \in [Sessions -> 0..NoSession]
  /\ request \in [Requests -> Request]

Resets(r) == request[r].kind = "confirm" /\ request[r].pc = "commit" /\ user'.hash # user.hash

\* A link changes the password once, also when it is sent twice at a time or a
\* new link is asked for meanwhile (routers/auth.py, confirm_password_reset).
LinkPaysOnce ==
  [][\A r \in Requests : Resets(r) =>
       Open(request[r].link) /\ ~link'[request[r].link].open]_vars

\* A session that a reset has ended is never accepted again: two resets that
\* overlap do not set password_changed_at back (deps.py, _user_from_jwt).
EndedStaysEnded ==
  [][\A s \in Sessions : Ended(s) /\ session'[s] # 0 => Ended(s)']_vars

\* "Um link novo cancela o anterior" (docs/como-funciona.md, 2.1.1): requests
\* that overlap do not see each other's link, so as many can be open as requests
\* can overlap, and no more however often a link is asked for.
FewLinksOpen == Cardinality(OpenLinks) <= Cardinality(Requests)

\* "zera o bloqueio por tentativas" (docs/como-funciona.md, 2.1.1): after a reset
\* the account is not locked.  It is where a login has locked it since the
\* confirmation loaded it without a lock.
ResetUnlocks == [][\A r \in Requests : Resets(r) => user'.lock <= 1]_vars
=============================================================================
