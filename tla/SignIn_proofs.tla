---------------------------- MODULE SignIn_proofs ----------------------------
(***************************************************************************)
(* For any number of requests, links, sessions and keys, and any bounds: a *)
(* reset link changes the password once, a session that a reset has ended  *)
(* stays ended, no more links are open than requests overlap, and the      *)
(* types hold.                                                             *)
(*                                                                         *)
(* The first two rest on who holds which link.  A confirmation holds its   *)
(* link from the claim on, and from the sweep on all links that were open  *)
(* when that began, so that no second one comes to its commit: of two that *)
(* wait one has found the link of the other.  The second theorem needs in  *)
(* addition that a confirmation which began before the last instant does   *)
(* not come after one that began behind it.  The third counts, for every   *)
(* set of requests for a link, what they would leave open and would open.  *)
(***************************************************************************)
EXTENDS SignIn, FiniteSetTheorems, TLAPS

Fields == {"pc", "kind", "seen", "right", "link", "rows", "found", "keys", "late"}
Loaded == {"attempts", "lock", "active"}

\* As much of the types as the argument needs.
Shape ==
  /\ {"hash", "changed"} \subseteq DOMAIN user
  /\ user.hash \in 0..2 /\ user.changed \in 0..SessionLife
  /\ link \in [Links -> [open : BOOLEAN, left : Nat]]
  /\ session \in [Sessions -> 0..NoSession]
  /\ DOMAIN request = Requests
  /\ \A r \in Requests :
       /\ DOMAIN request[r] = Fields
       /\ DOMAIN request[r].seen = Loaded
       /\ request[r].rows \subseteq Links /\ request[r].found \subseteq Links
       /\ request[r].pc # "waits" => request[r].found = {}
       /\ request[r].late \in BOOLEAN
       /\ request[r].pc = "claim" => request[r].kind = "confirm"
       /\ request[r].kind = "confirm" => request[r].link \in Links

Confirms(r) == request[r].kind = "confirm"
Claims(r) == Confirms(r) /\ request[r].pc = "claim"
Waiting(r) == Confirms(r) /\ request[r].pc = "waits"
Flushing(r) == Confirms(r) /\ request[r].pc = "commit"
\* From the claim that has worked to the commit.
InHand(r) == Confirms(r) /\ request[r].pc \in {"sweep", "waits", "commit"}

Apart == \A r, q \in Requests : r # q => request[r].rows \cap request[q].rows = {}

HandHolds == \A r \in Requests :
  InHand(r) => request[r].link \in request[r].rows /\ Open(request[r].link)

OneFlushes == \A r, q \in Requests : Flushing(r) /\ Flushing(q) => r = q

\* Of two confirmations one has found the link of the other, and waits for it.
OneWaits == \A r, q \in Requests :
  r # q /\ Waiting(r) /\ (Waiting(q) \/ Flushing(q)) =>
    \/ request[q].link \in request[r].found
    \/ Waiting(q) /\ request[r].link \in request[q].found

\* Before there is an account there is nothing to reset.
NothingYet ==
  ~Exists => /\ user.changed = SessionLife
             /\ \A l \in Links : ~Open(l)
             /\ \A r \in Requests : request[r].kind # "ask"

Ownership == Shape /\ Apart /\ HandHolds /\ OneFlushes /\ OneWaits /\ NothingYet

\* A confirmation that is late meets no password younger than itself, unless
\* its link is gone or about to go; who waits has found its link.
Lateness == \A r \in Requests :
  Confirms(r) /\ request[r].late =>
    /\ InHand(r) => user.changed >= 1
    /\ Claims(r) => user.changed >= 1 \/ ~Open(request[r].link)
    /\ \A q \in Requests : Flushing(q) /\ ~request[q].late =>
         /\ ~InHand(r)
         /\ Claims(r) => ~Open(request[r].link) \/ request[r].link \in request[q].rows
    /\ Open(request[r].link) => \A q \in Requests : Waiting(q) /\ ~request[q].late =>
         request[r].link \in request[q].rows \cup request[q].found

-----------------------------------------------------------------------------
\* The columns of a request nobody has sent.
LEMMA Blank ==
  /\ DOMAIN NoRequest = Fields /\ DOMAIN NoRequest.seen = Loaded
  /\ NoRequest.pc = "idle" /\ NoRequest.kind = "login" /\ NoRequest.rows = {}
  /\ NoRequest.late = FALSE /\ NoRequest.keys = {} /\ NoRequest.found = {}
  BY DEF NoRequest, Unloaded, Fields, Loaded

\* Nobody has sent a request and no link is open.
LEMMA InitHolds == Init => Ownership /\ Lateness
<1> SUFFICES ASSUME Init PROVE Ownership /\ Lateness
  OBVIOUS
<1>1. \A r \in Requests : request[r] = NoRequest
  BY DEF Init
<1>2. user.hash = 0 /\ user.changed = SessionLife /\ {"hash", "changed"} \subseteq DOMAIN user
  BY DEF Init, NoUser
<1>3. link \in [Links -> [open : BOOLEAN, left : Nat]] /\ \A l \in Links : ~Open(l)
  BY DEF Init, Dead, Open
<1>4. session \in [Sessions -> 0..NoSession] /\ DOMAIN request = Requests
  BY SignInAssumption DEF Init, NoSession
<1>5. Shape
  <2>1. \A r \in Requests :
          /\ DOMAIN request[r] = Fields /\ DOMAIN request[r].seen = Loaded
          /\ request[r].rows \subseteq Links /\ request[r].late \in BOOLEAN
          /\ request[r].found = {}
          /\ request[r].pc # "claim" /\ request[r].kind # "confirm"
    BY <1>1, Blank
  <2>2. user.hash \in 0..2 /\ user.changed \in 0..SessionLife
    BY <1>2, SignInAssumption
  <2> QED BY <1>2, <1>3, <1>4, <2>1, <2>2 DEF Shape
<1>6. Apart /\ HandHolds /\ OneFlushes /\ OneWaits /\ NothingYet /\ Lateness
  BY <1>1, <1>2, <1>3, Blank
  DEF Apart, HandHolds, OneFlushes, OneWaits, NothingYet, Lateness, InHand, Claims, Flushing, Waiting, Confirms
<1> QED BY <1>5, <1>6 DEF Ownership

\* A step of one request leaves the others alone.
LEMMA GoOne ==
  ASSUME Shape, NEW r \in Requests, NEW x, Go(r, x)
  PROVE  /\ DOMAIN request' = Requests /\ request'[r] = x
         /\ \A q \in Requests : q # r => request'[q] = request[q]
  BY DEF Shape, Go

\* The ORM writes neither the password nor its age with the columns loaded.
LEMMA FlushKeeps ==
  ASSUME Shape, NEW r \in Requests, NEW row, DOMAIN row = Loaded
  PROVE  /\ {"hash", "changed"} \subseteq DOMAIN Flush(r, row)
         /\ Flush(r, row).hash = user.hash /\ Flush(r, row).changed = user.changed
  BY DEF Shape, Flush, Loaded

\* What a request has begun is not a claim in hand.
LEMMA BeginKeeps ==
  ASSUME Ownership, Lateness, NEW r \in Requests, Begin(r)
  PROVE  Ownership' /\ Lateness'
<1> DOMAIN Columns = Loaded
  BY DEF Columns, Loaded
<1>1. ASSUME NEW x, Go(r, x), UNCHANGED tables,
             DOMAIN x = Fields, DOMAIN x.seen = Loaded, x.rows = {}, x.late = FALSE,
             x.found = {}, x.pc # "waits",
             x.pc \in {"commit", "sweep"} => x.kind # "confirm",
             x.pc = "claim" => x.kind = "confirm",
             x.kind = "confirm" => x.link \in Links,
             x.kind = "ask" => Exists
      PROVE  Ownership' /\ Lateness'
  <2>1. /\ DOMAIN request' = Requests /\ request'[r] = x
        /\ \A q \in Requests : q # r => request'[q] = request[q]
    BY <1>1, GoOne DEF Ownership
  <2>2. Shape'
    BY <1>1, <2>1 DEF Ownership, Shape, tables
  <2>3. Apart' /\ HandHolds' /\ OneFlushes' /\ OneWaits'
    BY <1>1, <2>1 DEF Ownership, Apart, HandHolds, OneFlushes, OneWaits, InHand, Flushing, Waiting, Confirms, Open, tables
  <2>4. NothingYet'
    BY <1>1, <2>1 DEF Ownership, NothingYet, Exists, Open, tables
  <2>5. Lateness'
    BY <1>1, <2>1 DEF Lateness, InHand, Claims, Flushing, Waiting, Confirms, Open, tables
  <2> QED BY <2>2, <2>3, <2>4, <2>5 DEF Ownership
<1>2. CASE Login(r)
  BY <1>1, <1>2, Blank DEF Login, Fields
<1>3. CASE Ask(r)
  BY <1>1, <1>3, Blank DEF Ask, Fields
<1>4. CASE Confirm(r)
  BY <1>1, <1>4, Blank DEF Confirm, Fields
<1>5. CASE CreateKey(r)
  BY <1>1, <1>5, Blank DEF CreateKey, Fields
<1>6. CASE ChangeStatus(r)
  BY <1>1, <1>6, Blank DEF ChangeStatus, Fields
<1> QED BY <1>2, <1>3, <1>4, <1>5, <1>6 DEF Begin

\* A request that ends takes nothing with it that the others rely on, as long as
\* it leaves the links and the password alone.
LEMMA CloseKeeps ==
  ASSUME Ownership, Lateness, NEW r \in Requests, Close(r), UNCHANGED link,
         {"hash", "changed"} \subseteq DOMAIN user',
         user'.hash = user.hash, user'.changed = user.changed,
         session' \in [Sessions -> 0..NoSession]
  PROVE  Ownership' /\ Lateness'
<1>1. /\ DOMAIN request' = Requests /\ request'[r] = NoRequest
      /\ \A q \in Requests : q # r => request'[q] = request[q]
  BY GoOne DEF Ownership, Close
<1>2. Shape'
  BY <1>1, Blank DEF Ownership, Shape
<1>3. Apart' /\ HandHolds' /\ OneFlushes' /\ OneWaits'
  BY <1>1, Blank DEF Ownership, Apart, HandHolds, OneFlushes, OneWaits, InHand, Flushing, Waiting, Confirms, Open
<1>4. NothingYet'
  BY <1>1, Blank DEF Ownership, NothingYet, Exists, Open
<1>5. Lateness'
  BY <1>1, Blank DEF Lateness, InHand, Claims, Flushing, Waiting, Confirms, Open
<1> QED BY <1>2, <1>3, <1>4, <1>5 DEF Ownership

\* A fresh session has its type.
LEMMA IssueKeeps ==
  ASSUME Shape, Issue
  PROVE  session' \in [Sessions -> 0..NoSession]
  BY SignInAssumption DEF Shape, Issue, NoSession

\* A login and a switch of the account write neither.
LEMMA CommitKeepsPassword ==
  ASSUME Shape, NEW r \in Requests, LoginCommit(r) \/ ChangeStatusCommit(r)
  PROVE  /\ {"hash", "changed"} \subseteq DOMAIN user'
         /\ user'.hash = user.hash /\ user'.changed = user.changed
<1> DEFINE Kept == /\ {"hash", "changed"} \subseteq DOMAIN user'
                   /\ user'.hash = user.hash /\ user'.changed = user.changed
<1>1. DOMAIN request[r].seen = Loaded
  BY DEF Shape
<1>2. ASSUME NEW row, DOMAIN row = Loaded, user' = Flush(r, row) PROVE Kept
  BY <1>2, FlushKeeps
<1>3. CASE LoginCommit(r)
  <2>1. ASSUME NEW a, NEW l, user' = Flush(r, [request[r].seen EXCEPT !.attempts = a, !.lock = l])
        PROVE  Kept
    <3> DEFINE row == [request[r].seen EXCEPT !.attempts = a, !.lock = l]
    <3>1. DOMAIN row = Loaded
      BY <1>1
    <3>2. user' = Flush(r, row)
      BY <2>1
    <3> HIDE DEF row
    <3> QED BY <3>1, <3>2, <1>2
  <2> QED BY <1>3, <2>1 DEF LoginCommit, Shape
<1>4. CASE ChangeStatusCommit(r) /\ request[r].seen.active
  <2> DEFINE off == [request[r].seen EXCEPT !.active = FALSE]
  <2>1. user' = Flush(r, off) /\ DOMAIN off = Loaded
    BY <1>1, <1>4 DEF ChangeStatusCommit
  <2> HIDE DEF off
  <2> QED BY <2>1, <1>2
<1>5. CASE ChangeStatusCommit(r) /\ ~request[r].seen.active
  <2> DEFINE on == [request[r].seen EXCEPT !.active = TRUE, !.attempts = 0, !.lock = 0]
  <2>1. user' = Flush(r, on) /\ DOMAIN on = Loaded
    BY <1>1, <1>5 DEF ChangeStatusCommit
  <2> HIDE DEF on
  <2> QED BY <2>1, <1>2
<1> QED BY <1>3, <1>4, <1>5

\* Their commits keep the links and the age of every session's password.
LEMMA ColumnsCommitKeeps ==
  ASSUME Ownership, Lateness, NEW r \in Requests, LoginCommit(r) \/ ChangeStatusCommit(r)
  PROVE  Ownership' /\ Lateness'
<1>1. session' \in [Sessions -> 0..NoSession]
  BY IssueKeeps DEF LoginCommit, ChangeStatusCommit, Ownership, Shape
<1> QED BY <1>1, CommitKeepsPassword, CloseKeeps DEF LoginCommit, ChangeStatusCommit, Ownership

\* A request that is given up, or inserts a key, lets go of what it held.
LEMMA AbortKeeps ==
  ASSUME Ownership, Lateness, NEW r \in Requests, Abort(r) \/ CreateKeyCommit(r)
  PROVE  Ownership' /\ Lateness'
  BY CloseKeeps DEF Abort, CreateKeyCommit, tables, Ownership, Shape

\* Who sweeps has all open links, so that no other has one in hand.
LEMMA SweepKeeps ==
  ASSUME Ownership, Lateness, NEW r \in Requests, Sweep(r)
  PROVE  Ownership' /\ Lateness'
<1> DEFINE swept == request[r].rows \cup OpenLinks
<1>0. request'[r] = [request[r] EXCEPT !.pc = "commit", !.rows = swept]
  BY GoOne DEF Sweep, Ownership
<1>1. /\ DOMAIN request' = Requests
      /\ \A q \in Requests : q # r => request'[q] = request[q]
  BY GoOne DEF Sweep, Ownership
<1>2. /\ DOMAIN request[r] = Fields /\ request[r].rows \subseteq Links
      /\ UNCHANGED tables /\ OpenLinks \subseteq Links /\ request[r].pc = "sweep"
  BY DEF Sweep, Ownership, Shape, OpenLinks
<1>3. /\ request'[r].pc = "commit" /\ request'[r].rows = swept
      /\ request'[r].kind = request[r].kind /\ request'[r].link = request[r].link
      /\ request'[r].late = request[r].late /\ request'[r].seen = request[r].seen
      /\ request'[r].found = request[r].found /\ request[r].found = {}
      /\ DOMAIN request'[r] = Fields
  BY <1>0, <1>2 DEF Fields, Ownership, Shape
<1>4. \A q \in Requests : q # r => request[q].rows \cap swept = {}
  BY DEF Sweep, Held, Ownership, Apart
<1>5. \A q \in Requests : q # r => ~InHand(q)
  BY <1>4 DEF Ownership, HandHolds, Shape, InHand, Confirms, OpenLinks
<1>6. Shape'
  BY <1>1, <1>2, <1>3 DEF Ownership, Shape, tables
<1>7. Apart'
  BY <1>1, <1>3, <1>4 DEF Ownership, Apart
<1>8. HandHolds'
  BY <1>1, <1>2, <1>3, <1>5 DEF Ownership, HandHolds, InHand, Confirms, Open, tables
<1>9. OneFlushes' /\ OneWaits'
  BY <1>1, <1>3, <1>5 DEF OneFlushes, OneWaits, Flushing, Waiting, InHand, Confirms
<1>10. NothingYet'
  BY <1>1, <1>2, <1>3 DEF Ownership, NothingYet, Exists, Open, tables
<1>11. Lateness'
  <2> SUFFICES ASSUME NEW p \in Requests, Confirms(p)', request'[p].late
               PROVE  /\ InHand(p)' => user'.changed >= 1
                      /\ Claims(p)' => user'.changed >= 1 \/ ~Open(request[p].link)'
                      /\ \A q \in Requests : Flushing(q)' /\ ~request'[q].late =>
                           /\ ~InHand(p)'
                           /\ Claims(p)' => ~Open(request[p].link)' \/ request'[p].link \in request'[q].rows
                      /\ \A q \in Requests : ~Waiting(q)'
    BY DEF Lateness
  <2>1. InHand(p)' => user'.changed >= 1
    BY <1>1, <1>2, <1>3 DEF Lateness, InHand, Confirms, tables
  <2>2. Claims(p)' => user'.changed >= 1 \/ ~Open(request[p].link)'
    BY <1>1, <1>2, <1>3 DEF Lateness, Claims, Confirms, Open, tables
  <2>3. ASSUME NEW q \in Requests, Flushing(q)', ~request'[q].late
        PROVE  /\ ~InHand(p)'
               /\ Claims(p)' => ~Open(request[p].link)' \/ request'[p].link \in request'[q].rows
    <3>1. p # q
      BY <2>3
    <3>2. CASE q = r
      <4>1. request'[p] = request[p] /\ ~InHand(p)
        BY <1>1, <1>5, <3>1, <3>2
      <4>2. Claims(p)' => request[p].link \in Links
        BY <4>1 DEF Claims, Confirms, Ownership, Shape
      <4> QED BY <1>2, <1>3, <3>2, <4>1, <4>2 DEF InHand, Claims, Confirms, Open, OpenLinks, tables
    <3>3. CASE q # r
      <4>1. InHand(q)
        BY <1>1, <2>3, <3>3 DEF Flushing, InHand, Confirms
      <4> QED BY <4>1, <1>5, <3>3
    <3> QED BY <3>2, <3>3
  <2>4. \A q \in Requests : ~Waiting(q)'
    BY <1>1, <1>3, <1>5 DEF Waiting, InHand, Confirms
  <2> QED BY <2>1, <2>2, <2>3, <2>4
<1> QED BY <1>6, <1>7, <1>8, <1>9, <1>10, <1>11 DEF Ownership

\* Who has to wait has found the link of every other in hand, and of whoever is
\* late.
LEMMA SweepWaitsKeeps ==
  ASSUME Ownership, Lateness, NEW r \in Requests, SweepWaits(r)
  PROVE  Ownership' /\ Lateness'
<1>0. request'[r] = [request[r] EXCEPT !.pc = "waits", !.found = OpenLinks]
  BY GoOne DEF SweepWaits, Ownership
<1>1. /\ DOMAIN request' = Requests
      /\ \A q \in Requests : q # r => request'[q] = request[q]
  BY GoOne DEF SweepWaits, Ownership
<1>2. /\ DOMAIN request[r] = Fields /\ UNCHANGED tables
      /\ OpenLinks \subseteq Links /\ request[r].pc = "sweep"
  BY DEF SweepWaits, Ownership, Shape, OpenLinks
<1>3. /\ request'[r].pc = "waits" /\ request'[r].found = OpenLinks
      /\ request'[r].kind = request[r].kind /\ request'[r].link = request[r].link
      /\ request'[r].late = request[r].late /\ request'[r].seen = request[r].seen
      /\ request'[r].rows = request[r].rows /\ DOMAIN request'[r] = Fields
  BY <1>0, <1>2 DEF Fields
<1>4. \A q \in Requests : Confirms(q) /\ Open(request[q].link) => request[q].link \in OpenLinks
  BY DEF Ownership, Shape, Confirms, OpenLinks
<1>5. Shape'
  BY <1>1, <1>2, <1>3 DEF Ownership, Shape, tables
<1>6. Apart' /\ OneFlushes'
  BY <1>1, <1>3 DEF Ownership, Apart, OneFlushes, Flushing, Confirms
<1>7. HandHolds'
  BY <1>1, <1>2, <1>3 DEF Ownership, HandHolds, InHand, Confirms, Open, tables
<1>8. OneWaits'
  <2>1. \A q \in Requests : InHand(q) => request[q].link \in OpenLinks
    BY <1>4 DEF Ownership, HandHolds, InHand
  <2> SUFFICES ASSUME NEW a \in Requests, NEW b \in Requests, a # b, Waiting(a)',
                      Waiting(b)' \/ Flushing(b)'
               PROVE  \/ request'[b].link \in request'[a].found
                      \/ Waiting(b)' /\ request'[a].link \in request'[b].found
    BY DEF OneWaits
  <2>2. CASE a = r
    <3>1. request'[b] = request[b] /\ InHand(b)
      BY <1>1, <2>2 DEF Waiting, Flushing, InHand, Confirms
    <3> QED BY <1>3, <2>1, <2>2, <3>1
  <2>3. CASE b = r
    <3>1. request'[a] = request[a] /\ InHand(a)
      BY <1>1, <2>3 DEF Waiting, Flushing, InHand, Confirms
    <3>2. Waiting(b)'
      BY <1>3, <2>3 DEF Waiting, Flushing, Confirms
    <3> QED BY <1>3, <2>1, <2>3, <3>1, <3>2
  <2>4. CASE a # r /\ b # r
    BY <1>1, <2>4 DEF Ownership, OneWaits, Waiting, Flushing, Confirms
  <2> QED BY <2>2, <2>3, <2>4
<1>9. NothingYet'
  BY <1>1, <1>2, <1>3 DEF Ownership, NothingYet, Exists, Open, tables
<1>10. Lateness'
  <2> SUFFICES ASSUME NEW p \in Requests, Confirms(p)', request'[p].late
               PROVE  /\ InHand(p)' => user'.changed >= 1
                      /\ Claims(p)' => user'.changed >= 1 \/ ~Open(request[p].link)'
                      /\ \A q \in Requests : Flushing(q)' /\ ~request'[q].late =>
                           /\ ~InHand(p)'
                           /\ Claims(p)' => ~Open(request[p].link)' \/ request'[p].link \in request'[q].rows
                      /\ Open(request[p].link)' => \A q \in Requests : Waiting(q)' /\ ~request'[q].late =>
                           request'[p].link \in request'[q].rows \cup request'[q].found
    BY DEF Lateness
  <2>1. /\ Confirms(p) /\ request[p].late /\ request'[p].link = request[p].link
        /\ InHand(p)' <=> InHand(p)
        /\ Claims(p)' <=> Claims(p)
        /\ Open(request[p].link)' <=> Open(request[p].link)
    BY <1>1, <1>2, <1>3 DEF InHand, Claims, Confirms, Open, tables
  <2>2. \A q \in Requests : Flushing(q)' => q # r /\ Flushing(q) /\ request'[q] = request[q]
    BY <1>1, <1>3 DEF Flushing, Confirms
  <2>3. user' = user
    BY <1>2 DEF tables
  <2>4. ASSUME Open(request[p].link), NEW q \in Requests, Waiting(q)', ~request'[q].late
        PROVE  request[p].link \in request'[q].rows \cup request'[q].found
    <3>1. CASE q = r
      BY <1>3, <1>4, <2>1, <2>4, <3>1
    <3>2. CASE q # r
      BY <1>1, <2>1, <2>4, <3>2 DEF Lateness, Waiting, Confirms
    <3> QED BY <3>1, <3>2
  <2>5. ASSUME NEW q \in Requests, Flushing(q)', ~request'[q].late
        PROVE  /\ ~InHand(p)'
               /\ Claims(p)' => ~Open(request[p].link)' \/ request'[p].link \in request'[q].rows
    BY <2>1, <2>2, <2>5 DEF Lateness
  <2>6. /\ InHand(p)' => user'.changed >= 1
        /\ Claims(p)' => user'.changed >= 1 \/ ~Open(request[p].link)'
    BY <2>1, <2>3 DEF Lateness
  <2> QED BY <2>1, <2>4, <2>5, <2>6
<1> QED BY <1>5, <1>6, <1>7, <1>8, <1>9, <1>10 DEF Ownership

\* When it goes on, nobody holds what it has found, and so nobody else whose link
\* it has found has that in hand.
LEMMA SweepEndsKeeps ==
  ASSUME Ownership, Lateness, NEW r \in Requests, SweepEnds(r)
  PROVE  Ownership' /\ Lateness'
<1> DEFINE swept == request[r].rows \cup (request[r].found \cap OpenLinks)
<1>0. request'[r] = [request[r] EXCEPT !.pc = "commit", !.found = {}, !.rows = swept]
  BY GoOne DEF SweepEnds, Ownership
<1>1. /\ DOMAIN request' = Requests
      /\ \A q \in Requests : q # r => request'[q] = request[q]
  BY GoOne DEF SweepEnds, Ownership
<1>2. /\ DOMAIN request[r] = Fields /\ UNCHANGED tables
      /\ swept \subseteq Links /\ request[r].pc = "waits"
  BY DEF SweepEnds, Ownership, Shape, OpenLinks
<1>3. /\ request'[r].pc = "commit" /\ request'[r].found = {}
      /\ request'[r].kind = request[r].kind /\ request'[r].link = request[r].link
      /\ request'[r].late = request[r].late /\ request'[r].seen = request[r].seen
      /\ request'[r].rows = swept /\ DOMAIN request'[r] = Fields
  BY <1>0, <1>2 DEF Fields
<1>4. \A q \in Requests : q # r =>
        request[q].rows \cap (request[r].rows \cup request[r].found) = {}
  BY DEF SweepEnds, Held, Ownership, Apart
<1>5. \A q \in Requests : q # r /\ InHand(q) =>
        request[q].link \notin request[r].rows \cup request[r].found
  BY <1>4 DEF Ownership, HandHolds
<1>6. Shape'
  BY <1>1, <1>2, <1>3 DEF Ownership, Shape, tables
<1>7. Apart'
  BY <1>1, <1>3, <1>4 DEF Ownership, Apart
<1>8. HandHolds'
  BY <1>1, <1>2, <1>3 DEF Ownership, HandHolds, InHand, Confirms, Open, tables
<1>9. OneFlushes'
  <2> SUFFICES ASSUME NEW q \in Requests, q # r, Flushing(q), Waiting(r) PROVE FALSE
    BY <1>1, <1>2, <1>3 DEF Ownership, OneFlushes, Flushing, Waiting, Confirms
  <2>1. request[q].link \in request[r].found
    BY DEF Ownership, OneWaits, Flushing, Waiting
  <2> QED BY <1>5, <2>1 DEF Flushing, InHand
<1>10. OneWaits'
  <2> SUFFICES ASSUME NEW a \in Requests, NEW b \in Requests, a # b, Waiting(a)',
                      Waiting(b)' \/ Flushing(b)'
               PROVE  \/ request'[b].link \in request'[a].found
                      \/ Waiting(b)' /\ request'[a].link \in request'[b].found
    BY DEF OneWaits
  <2>1. a # r /\ request'[a] = request[a] /\ Waiting(a)
    BY <1>1, <1>3 DEF Waiting, Confirms
  <2>2. CASE b = r
    <3>1. Waiting(r)
      BY <1>2, <1>3, <2>2 DEF Waiting, Flushing, Confirms
    <3>2. request[a].link \notin request[r].found
      BY <1>5, <2>1 DEF Waiting, InHand
    <3>3. request[r].link \in request[a].found
      BY <2>1, <3>1, <3>2 DEF Ownership, OneWaits
    <3> QED BY <1>3, <2>1, <2>2, <3>3
  <2>3. CASE b # r
    BY <1>1, <2>1, <2>3 DEF Ownership, OneWaits, Waiting, Flushing, Confirms
  <2> QED BY <2>2, <2>3
<1>11. NothingYet'
  BY <1>1, <1>2, <1>3 DEF Ownership, NothingYet, Exists, Open, tables
<1>12. Lateness'
  <2> SUFFICES ASSUME NEW p \in Requests, Confirms(p)', request'[p].late
               PROVE  /\ InHand(p)' => user'.changed >= 1
                      /\ Claims(p)' => user'.changed >= 1 \/ ~Open(request[p].link)'
                      /\ \A q \in Requests : Flushing(q)' /\ ~request'[q].late =>
                           /\ ~InHand(p)'
                           /\ Claims(p)' => ~Open(request[p].link)' \/ request'[p].link \in request'[q].rows
                      /\ Open(request[p].link)' => \A q \in Requests : Waiting(q)' /\ ~request'[q].late =>
                           request'[p].link \in request'[q].rows \cup request'[q].found
    BY DEF Lateness
  <2>1. /\ Confirms(p) /\ request[p].late /\ request'[p].link = request[p].link
        /\ InHand(p)' <=> InHand(p)
        /\ Claims(p)' <=> Claims(p)
        /\ Open(request[p].link)' <=> Open(request[p].link)
    BY <1>1, <1>2, <1>3 DEF InHand, Claims, Confirms, Open, tables
  <2>2. /\ InHand(p)' => user'.changed >= 1
        /\ Claims(p)' => user'.changed >= 1 \/ ~Open(request[p].link)'
    BY <1>2, <2>1 DEF Lateness, tables
  <2>3. ASSUME NEW q \in Requests, Flushing(q)', ~request'[q].late
        PROVE  /\ ~InHand(p)
               /\ Claims(p) => ~Open(request[p].link) \/ request[p].link \in request'[q].rows
    <3>1. CASE q # r
      BY <1>1, <2>1, <2>3, <3>1 DEF Lateness, Flushing, Confirms
    <3>2. CASE q = r
      <4>1. Waiting(r) /\ ~request[r].late /\ p # r
        BY <1>2, <1>3, <2>1, <2>3, <3>2 DEF Waiting, Flushing, Confirms
      <4>2. Open(request[p].link) => request[p].link \in request[r].rows \cup request[r].found
        BY <2>1, <4>1 DEF Lateness
      <4>3. ~InHand(p)
        BY <1>5, <4>1, <4>2 DEF Ownership, HandHolds
      <4>4. Open(request[p].link) => request[p].link \in OpenLinks
        BY <2>1 DEF Ownership, Shape, Confirms, OpenLinks
      <4> QED BY <1>3, <3>2, <4>2, <4>3, <4>4
    <3> QED BY <3>1, <3>2
  <2>4. ASSUME Open(request[p].link), NEW q \in Requests, Waiting(q)', ~request'[q].late
        PROVE  request[p].link \in request'[q].rows \cup request'[q].found
    <3>1. q # r /\ request'[q] = request[q]
      BY <1>1, <1>3, <2>4 DEF Waiting, Confirms
    <3> QED BY <2>1, <2>4, <3>1 DEF Lateness, Waiting, Confirms
  <2> QED BY <2>1, <2>2, <2>3, <2>4
<1> QED BY <1>6, <1>7, <1>8, <1>9, <1>10, <1>11, <1>12 DEF Ownership

\* The claim works for a link that is open and that nobody holds, so it comes
\* behind no confirmation that has swept.
LEMMA ClaimKeeps ==
  ASSUME Ownership, Lateness, NEW r \in Requests, Claim(r)
  PROVE  Ownership' /\ Lateness'
<1>1. CASE ~Open(request[r].link)
  <2>1. Close(r) /\ UNCHANGED tables
    BY <1>1 DEF Claim
  <2> QED BY <2>1, CloseKeeps DEF tables, Ownership, Shape
<1>2. CASE Open(request[r].link)
  <2>0. request'[r] = Claimed(r)
    BY <1>2, GoOne DEF Claim, Ownership
  <2>1. /\ DOMAIN request' = Requests
        /\ \A q \in Requests : q # r => request'[q] = request[q]
    BY <1>2, GoOne DEF Claim, Ownership
  <2>2. /\ UNCHANGED tables /\ DOMAIN request[r] = Fields /\ Claims(r)
        /\ request[r].link \in Links
        /\ \A q \in Requests : request[r].link \notin request[q].rows
    BY DEF Claim, Ownership, Shape, Claims, Confirms, Held
  <2>3. /\ request'[r].pc = "sweep" /\ request'[r].rows = {request[r].link}
        /\ request'[r].found = request[r].found
        /\ request'[r].kind = request[r].kind /\ request'[r].link = request[r].link
        /\ request'[r].late = request[r].late /\ request'[r].seen = request[r].seen
        /\ DOMAIN request'[r] = Fields
    BY <2>0, <2>2 DEF Claimed, Fields
  <2>4. Shape'
    BY <2>1, <2>2, <2>3 DEF Ownership, Shape, tables, Claims, Confirms
  <2>5. Apart'
    BY <2>1, <2>2, <2>3 DEF Ownership, Apart
  <2>6. HandHolds' /\ OneFlushes' /\ OneWaits'
    BY <1>2, <2>1, <2>2, <2>3
    DEF Ownership, HandHolds, OneFlushes, OneWaits, InHand, Flushing, Waiting, Confirms, Open, tables
  <2>7. NothingYet'
    BY <2>1, <2>2, <2>3 DEF Ownership, NothingYet, Exists, Open, tables
  <2>8. Lateness'
    BY <1>2, <2>1, <2>2, <2>3
    DEF Lateness, InHand, Claims, Flushing, Waiting, Confirms, Open, tables
  <2> QED BY <2>4, <2>5, <2>6, <2>7, <2>8 DEF Ownership
<1> QED BY <1>1, <1>2

\* A new link takes the place of one that nobody confirms, and closes none that
\* somebody else holds.
LEMMA AskCommitKeeps ==
  ASSUME Ownership, Lateness, NEW r \in Requests, AskCommit(r)
  PROVE  Ownership' /\ Lateness'
<1>1. /\ DOMAIN request' = Requests /\ request'[r] = NoRequest
      /\ \A q \in Requests : q # r => request'[q] = request[q]
  BY GoOne DEF AskCommit, Close, Ownership
<1>2. PICK l \in Links :
        Free(l) /\ link' = [Used(request[r].rows) EXCEPT ![l] = [open |-> TRUE, left |-> LinkLife]]
  BY DEF AskCommit
<1>3. /\ request[r].kind = "ask" /\ UNCHANGED <<user, key, session>>
      /\ LinkLife \in Nat
  BY SignInAssumption DEF AskCommit
<1>4. /\ link' \in [Links -> [open : BOOLEAN, left : Nat]]
      /\ \A k \in Links \ {l} :
           link'[k].open <=> Open(k) /\ k \notin request[r].rows
  BY <1>2, <1>3 DEF Used, Dead, Ownership, Shape, Open
<1>5. \A q \in Requests : request[q].link # l
  BY <1>2 DEF Free
<1>6. Shape'
  BY <1>1, <1>3, <1>4, Blank DEF Ownership, Shape
<1>7. Apart' /\ OneFlushes' /\ OneWaits'
  BY <1>1, Blank DEF Ownership, Apart, OneFlushes, OneWaits, Flushing, Waiting, Confirms
<1>8. HandHolds'
  <2> SUFFICES ASSUME NEW q \in Requests, InHand(q)'
               PROVE  request'[q].link \in request'[q].rows /\ Open(request[q].link)'
    BY DEF HandHolds
  <2>1. q # r /\ request'[q] = request[q] /\ InHand(q)
    BY <1>1, Blank DEF InHand, Confirms
  <2>2. /\ request[q].link \in request[q].rows /\ Open(request[q].link)
        /\ request[q].link \in Links
    BY <2>1 DEF Ownership, HandHolds, Shape, InHand, Confirms
  <2>3. request[q].link \notin request[r].rows
    BY <2>1, <2>2 DEF Ownership, Apart
  <2> QED BY <1>4, <1>5, <2>1, <2>2, <2>3 DEF Open
<1>9. NothingYet'
  BY <1>1, <1>3 DEF Ownership, NothingYet, Exists
<1>10. Lateness'
  <2>1. \A q \in Requests : Claims(q) /\ ~Open(request[q].link) => ~Open(request[q].link)'
           \/ q = r
    BY <1>1, <1>4, <1>5 DEF Claims, Confirms, Ownership, Shape, Open
  <2>2. \A q \in Requests : Confirms(q) /\ Open(request[q].link)' => Open(request[q].link)
           \/ q = r
    BY <1>1, <1>4, <1>5 DEF Confirms, Ownership, Shape, Open
  <2> QED BY <1>1, <1>3, <2>1, <2>2, Blank DEF Lateness, InHand, Claims, Flushing, Waiting, Confirms
<1> QED BY <1>6, <1>7, <1>8, <1>9, <1>10 DEF Ownership

\* A confirmation that commits has its link in hand and there is an account.
LEMMA FlushingOwns ==
  ASSUME Ownership, NEW r \in Requests, Flushing(r)
  PROVE  /\ InHand(r) /\ request[r].link \in request[r].rows
         /\ request[r].link \in Links /\ Open(request[r].link)
         /\ user.hash \in 1..2
  BY DEF Ownership, HandHolds, NothingYet, Shape, Flushing, InHand, Confirms, Exists

\* What the commit of a confirmation makes of the user.
LEMMA ConfirmCommitUser ==
  ASSUME Ownership, NEW r \in Requests, ConfirmCommit(r)
  PROVE  /\ {"hash", "changed"} \subseteq DOMAIN user'
         /\ user'.hash \in 1..2
         /\ user'.changed = IF request[r].late THEN 1 ELSE 0
<1> DEFINE row == [request[r].seen EXCEPT !.attempts = 0, !.lock = 0]
           flushed == Flush(r, row)
<1>1. DOMAIN row = Loaded
  BY DEF Ownership, Shape
<1>2. user' = [flushed EXCEPT !.hash = 3 - @, !.changed = IF request[r].late THEN 1 ELSE 0]
  BY DEF ConfirmCommit
<1> HIDE DEF row
<1>3. {"hash", "changed"} \subseteq DOMAIN flushed /\ flushed.hash = user.hash
  BY <1>1, FlushKeeps DEF Ownership
<1>4. user.hash \in 1..2
  BY FlushingOwns DEF ConfirmCommit, Flushing, Confirms
<1> HIDE DEF flushed
<1> QED BY <1>2, <1>3, <1>4

\* It closes every link it holds, so that nobody else has one to confirm.
LEMMA ConfirmCommitKeeps ==
  ASSUME Ownership, Lateness, NEW r \in Requests, ConfirmCommit(r)
  PROVE  Ownership' /\ Lateness'
<1>1. /\ DOMAIN request' = Requests /\ request'[r] = NoRequest
      /\ \A q \in Requests : q # r => request'[q] = request[q]
  BY GoOne DEF ConfirmCommit, Close, Ownership
<1>2. Flushing(r) /\ link' = Used(request[r].rows)
  BY DEF ConfirmCommit, Flushing, Confirms
<1>3. /\ {"hash", "changed"} \subseteq DOMAIN user' /\ user'.hash \in 1..2
      /\ user'.changed = IF request[r].late THEN 1 ELSE 0
  BY ConfirmCommitUser
<1>4. /\ link' \in [Links -> [open : BOOLEAN, left : Nat]]
      /\ \A k \in Links : link'[k].open <=> Open(k) /\ k \notin request[r].rows
  BY <1>2 DEF Used, Dead, Ownership, Shape, Open
<1>5. session' \in [Sessions -> 0..NoSession]
  BY IssueKeeps DEF ConfirmCommit, Ownership
<1>6. user'.hash \in 0..2 /\ user'.changed \in 0..SessionLife
  BY <1>3, SignInAssumption
<1>7. Shape'
  <2>1. ASSUME NEW q \in Requests
        PROVE  /\ DOMAIN request'[q] = Fields /\ DOMAIN request'[q].seen = Loaded
               /\ request'[q].rows \subseteq Links /\ request'[q].found \subseteq Links
               /\ request'[q].pc # "waits" => request'[q].found = {}
               /\ request'[q].late \in BOOLEAN
               /\ request'[q].pc = "claim" => request'[q].kind = "confirm"
               /\ request'[q].kind = "confirm" => request'[q].link \in Links
    <3>1. CASE q = r
      BY <1>1, <3>1, Blank
    <3>2. CASE q # r
      BY <1>1, <3>2 DEF Ownership, Shape
    <3> QED BY <3>1, <3>2
  <2>2. link' \in [Links -> [open : BOOLEAN, left : Nat]]
    BY <1>4
  <2> QED BY <1>1, <1>3, <1>5, <1>6, <2>1, <2>2 DEF Shape
<1>8. Apart' /\ OneFlushes' /\ OneWaits'
  BY <1>1, Blank DEF Ownership, Apart, OneFlushes, OneWaits, Flushing, Waiting, Confirms
<1>9. HandHolds'
  <2> SUFFICES ASSUME NEW q \in Requests, InHand(q)'
               PROVE  request'[q].link \in request'[q].rows /\ Open(request[q].link)'
    BY DEF HandHolds
  <2>1. q # r /\ request'[q] = request[q] /\ InHand(q)
    BY <1>1, Blank DEF InHand, Confirms
  <2>2. /\ request[q].link \in request[q].rows /\ Open(request[q].link)
        /\ request[q].link \in Links
    BY <2>1 DEF Ownership, HandHolds, Shape, InHand, Confirms
  <2>3. request[q].link \notin request[r].rows
    BY <2>1, <2>2 DEF Ownership, Apart
  <2> QED BY <1>4, <2>1, <2>2, <2>3 DEF Open
<1>10. NothingYet'
  BY <1>3 DEF NothingYet, Exists
<1>11. Lateness'
  <2> SUFFICES ASSUME NEW p \in Requests, Confirms(p)', request'[p].late
               PROVE  /\ InHand(p)' => user'.changed >= 1
                      /\ Claims(p)' => user'.changed >= 1 \/ ~Open(request[p].link)'
                      /\ \A q \in Requests : ~Flushing(q)'
                      /\ Open(request[p].link)' => \A q \in Requests : Waiting(q)' /\ ~request'[q].late =>
                           request'[p].link \in request'[q].rows \cup request'[q].found
    BY DEF Lateness
  <2>1. p # r /\ request'[p] = request[p] /\ Confirms(p) /\ request[p].late
    BY <1>1, Blank DEF Confirms
  <2>2. \A q \in Requests : ~Flushing(q)'
    BY <1>1, <1>2, Blank DEF Ownership, OneFlushes, Flushing, Confirms
  <2>5. ASSUME Open(request[p].link)', NEW q \in Requests, Waiting(q)', ~request'[q].late
        PROVE  request'[p].link \in request'[q].rows \cup request'[q].found
    <3>1. q # r /\ request'[q] = request[q] /\ Waiting(q)
      BY <1>1, <2>5, Blank DEF Waiting, Confirms
    <3>2. Open(request[p].link)
      BY <1>4, <2>1, <2>5 DEF Ownership, Shape, Confirms, Open
    <3> QED BY <2>1, <2>5, <3>1, <3>2 DEF Lateness
  <2>3. CASE request[r].late
    BY <1>3, <2>2, <2>3, <2>5
  <2>4. CASE ~request[r].late
    <3>1. /\ ~InHand(p)
          /\ Claims(p) => ~Open(request[p].link) \/ request[p].link \in request[r].rows
      BY <1>2, <2>1, <2>4 DEF Lateness
    <3>2. request[p].link \in Links
      BY <2>1 DEF Ownership, Shape, Confirms
    <3> QED BY <1>4, <2>1, <2>2, <2>5, <3>1, <3>2 DEF InHand, Claims, Confirms, Open
  <2> QED BY <2>3, <2>4
<1> QED BY <1>7, <1>8, <1>9, <1>10, <1>11 DEF Ownership

\* After an instant everything under way is late, and the password older than it.
LEMMA TickKeeps ==
  ASSUME Ownership, Lateness, Tick
  PROVE  Ownership' /\ Lateness'
<1>1. /\ DOMAIN request' = Requests
      /\ \A r \in Requests :
           IF request[r].pc = "idle" THEN request'[r] = NoRequest
           ELSE request'[r] = [request[r] EXCEPT !.late = TRUE]
  BY DEF Tick
<1>2. \A r \in Requests :
        /\ DOMAIN request'[r] = Fields /\ DOMAIN request'[r].seen = Loaded
        /\ request'[r].rows \subseteq Links /\ request'[r].late \in BOOLEAN
        /\ request'[r].rows \subseteq request[r].rows
        /\ request'[r].found \subseteq Links
        /\ request'[r].pc # "waits" => request'[r].found = {}
        /\ request'[r].kind = "confirm" =>
             /\ request[r].kind = "confirm" /\ request'[r].late
             /\ request'[r].pc = request[r].pc /\ request'[r].link = request[r].link
             /\ request'[r].rows = request[r].rows /\ request'[r].found = request[r].found
        /\ request'[r].pc = "claim" => request'[r].kind = "confirm"
  <2> SUFFICES ASSUME NEW r \in Requests
               PROVE  /\ DOMAIN request'[r] = Fields /\ DOMAIN request'[r].seen = Loaded
                      /\ request'[r].rows \subseteq Links /\ request'[r].late \in BOOLEAN
                      /\ request'[r].rows \subseteq request[r].rows
                      /\ request'[r].found \subseteq Links
                      /\ request'[r].pc # "waits" => request'[r].found = {}
                      /\ request'[r].kind = "confirm" =>
                           /\ request[r].kind = "confirm" /\ request'[r].late
                           /\ request'[r].pc = request[r].pc
                           /\ request'[r].link = request[r].link
                           /\ request'[r].rows = request[r].rows
                           /\ request'[r].found = request[r].found
                      /\ request'[r].pc = "claim" => request'[r].kind = "confirm"
    OBVIOUS
  <2>1. CASE request[r].pc = "idle"
    BY <1>1, <2>1, Blank
  <2>2. CASE request[r].pc # "idle"
    <3>1. request'[r] = [request[r] EXCEPT !.late = TRUE] /\ DOMAIN request[r] = Fields
      BY <1>1, <2>2 DEF Ownership, Shape
    <3>2. /\ DOMAIN request'[r] = Fields /\ request'[r].late = TRUE
          /\ request'[r].pc = request[r].pc /\ request'[r].kind = request[r].kind
          /\ request'[r].link = request[r].link /\ request'[r].rows = request[r].rows
          /\ request'[r].seen = request[r].seen /\ request'[r].found = request[r].found
      BY <3>1 DEF Fields
    <3>3. /\ DOMAIN request[r].seen = Loaded /\ request[r].rows \subseteq Links
          /\ request[r].found \subseteq Links
          /\ request[r].pc # "waits" => request[r].found = {}
          /\ request[r].pc = "claim" => request[r].kind = "confirm"
      BY DEF Ownership, Shape
    <3> QED BY <3>2, <3>3
  <2> QED BY <2>1, <2>2
<1>3. /\ {"hash", "changed"} \subseteq DOMAIN user' /\ user'.hash = user.hash
      /\ user'.changed \in 1..SessionLife
  BY SignInAssumption DEF Tick, Ownership, Shape, Min2
<1>4. /\ link' \in [Links -> [open : BOOLEAN, left : Nat]]
      /\ \A l \in Links : link'[l].open = link[l].open
  BY DEF Tick, Ownership, Shape, Fresh, Open
<1>5. session' \in [Sessions -> 0..NoSession]
  BY SignInAssumption DEF Tick, Ownership, Shape, NoSession, Min2
<1>6. Shape'
  BY <1>1, <1>2, <1>3, <1>4, <1>5 DEF Ownership, Shape
<1>7. Apart'
  BY <1>2 DEF Ownership, Apart
<1>8. HandHolds'
  BY <1>2, <1>4 DEF Ownership, HandHolds, Shape, InHand, Confirms, Open
<1>9. OneFlushes' /\ OneWaits'
  BY <1>2 DEF Ownership, OneFlushes, OneWaits, Flushing, Waiting, Confirms
<1>10. NothingYet'
  BY <1>3 DEF Tick, NothingYet, Exists
<1>11. Lateness'
  BY <1>2, <1>3 DEF Lateness, Flushing, Waiting, Confirms
<1> QED BY <1>6, <1>7, <1>8, <1>9, <1>10, <1>11 DEF Ownership

\* Before the account exists there is no request.
LEMMA RegisterKeeps ==
  ASSUME Ownership, Lateness, Register
  PROVE  Ownership' /\ Lateness'
<1>1. DOMAIN NoUser = {"hash", "changed", "attempts", "lock", "active"}
      /\ NoUser.changed = SessionLife
  BY DEF NoUser
<1>2. /\ {"hash", "changed"} \subseteq DOMAIN user' /\ user'.hash = 1
      /\ user'.changed = SessionLife /\ user.changed = SessionLife
  BY <1>1 DEF Register, Ownership, NothingYet
<1>3. session' \in [Sessions -> 0..NoSession]
  BY IssueKeeps DEF Register, Ownership
<1>4. Shape'
  BY <1>2, <1>3, SignInAssumption DEF Register, Ownership, Shape
<1>5. Apart' /\ HandHolds' /\ OneFlushes' /\ OneWaits' /\ NothingYet' /\ Lateness'
  BY <1>2 DEF Register, Ownership, Apart, HandHolds, OneFlushes, OneWaits, NothingYet, Lateness,
              InHand, Claims, Flushing, Waiting, Confirms, Exists, Open
<1> QED BY <1>4, <1>5 DEF Ownership

\* A step that touches neither link, session, user nor request.
LEMMA QuietKeeps ==
  ASSUME Ownership, Lateness, RevokeKey \/ UNCHANGED vars
  PROVE  Ownership' /\ Lateness'
<1>1. UNCHANGED <<user, link, session, request>>
  BY DEF RevokeKey, vars, tables
<1> QED BY <1>1 DEF Ownership, Shape, Apart, HandHolds, OneFlushes, OneWaits, NothingYet, Lateness,
              InHand, Claims, Flushing, Waiting, Confirms, Exists, Open

\* Both hold in every reachable state.
LEMMA Inductive == Spec => [](Ownership /\ Lateness)
<1>1. ASSUME Ownership /\ Lateness, [Next]_vars
      PROVE  (Ownership /\ Lateness)'
  <2>1. CASE Register
    BY <1>1, <2>1, RegisterKeeps
  <2>2. CASE RevokeKey \/ UNCHANGED vars
    BY <1>1, <2>2, QuietKeeps
  <2>3. CASE Tick
    BY <1>1, <2>3, TickKeeps
  <2>4. ASSUME NEW r \in Requests, Begin(r) PROVE (Ownership /\ Lateness)'
    BY <1>1, <2>4, BeginKeeps
  <2>5. ASSUME NEW r \in Requests, Proceed(r) PROVE (Ownership /\ Lateness)'
    <3>1. CASE LoginCommit(r) \/ ChangeStatusCommit(r)
      BY <1>1, <3>1, ColumnsCommitKeeps
    <3>2. CASE Sweep(r) \/ SweepWaits(r) \/ SweepEnds(r)
      BY <1>1, <3>2, SweepKeeps, SweepWaitsKeeps, SweepEndsKeeps
    <3>3. CASE AskCommit(r)
      BY <1>1, <3>3, AskCommitKeeps
    <3>4. CASE Claim(r)
      BY <1>1, <3>4, ClaimKeeps
    <3>5. CASE ConfirmCommit(r)
      BY <1>1, <3>5, ConfirmCommitKeeps
    <3>6. CASE CreateKeyCommit(r) \/ Abort(r)
      BY <1>1, <3>6, AbortKeeps
    <3> QED BY <2>5, <3>1, <3>2, <3>3, <3>4, <3>5, <3>6 DEF Proceed
  <2> QED BY <1>1, <2>1, <2>2, <2>3, <2>4, <2>5 DEF Next
<1> QED BY <1>1, InitHolds, PTL DEF Spec

-----------------------------------------------------------------------------
\* Whoever sees the password change with a confirmation at its commit sees that
\* confirmation commit.
LEMMA ResetIsOwn ==
  ASSUME Ownership, Next, NEW r \in Requests, Resets(r)
  PROVE  ConfirmCommit(r)
<1>1. Flushing(r) /\ user'.hash # user.hash
  BY DEF Resets, Flushing, Confirms
<1>2. user.hash # 0
  BY <1>1, FlushingOwns
<1>3. ASSUME NEW q \in Requests, Begin(q) PROVE FALSE
  BY <1>1, <1>3 DEF Begin, Login, Ask, Confirm, CreateKey, ChangeStatus, tables
<1>4. ~Register /\ ~RevokeKey /\ ~Tick
  BY <1>1, <1>2 DEF Register, RevokeKey, Tick, Exists, Ownership, Shape
<1>5. ASSUME NEW q \in Requests, Proceed(q) PROVE q = r /\ ConfirmCommit(r)
  <2>1. ConfirmCommit(q)
    BY <1>1, <1>5, CommitKeepsPassword
    DEF Proceed, Sweep, SweepWaits, SweepEnds, AskCommit, Claim, CreateKeyCommit, Abort, tables,
        Ownership
  <2> QED BY <1>1, <2>1 DEF ConfirmCommit, Flushing, Confirms, Ownership, OneFlushes
<1> QED BY <1>3, <1>4, <1>5 DEF Next

\* A reset link changes the password once (confirm_password_reset), for any
\* number of requests that overlap.
THEOREM LinkUsedOnce == Spec => LinkPaysOnce
<1>1. ASSUME Ownership, [Next]_vars
      PROVE  [\A r \in Requests : Resets(r) =>
               Open(request[r].link) /\ ~link'[request[r].link].open]_vars
  <2> SUFFICES ASSUME Next, NEW r \in Requests, Resets(r)
               PROVE  Open(request[r].link) /\ ~link'[request[r].link].open
    BY <1>1
  <2>1. ConfirmCommit(r)
    BY <1>1, ResetIsOwn
  <2>2. /\ Open(request[r].link) /\ request[r].link \in Links
        /\ request[r].link \in request[r].rows
    BY <1>1, <2>1, FlushingOwns DEF ConfirmCommit, Flushing, Confirms
  <2> QED BY <2>1, <2>2 DEF ConfirmCommit, Used, Dead
<1> QED BY <1>1, Inductive, PTL DEF Spec, LinkPaysOnce

\* A session that a reset has ended stays ended (_user_from_jwt), whatever other
\* resets are under way and however late they commit.
THEOREM EndedSessionsStayEnded == Spec => EndedStaysEnded
<1>1. ASSUME Ownership, Lateness, [Next]_vars
      PROVE  [\A s \in Sessions : Ended(s) /\ session'[s] # 0 => Ended(s)']_vars
  <2> SUFFICES ASSUME Next, NEW s \in Sessions, Ended(s), session'[s] # 0
               PROVE  session'[s] > user'.changed
    BY <1>1 DEF Ended
  <2>1. /\ session[s] \in 0..NoSession /\ user.changed \in 0..SessionLife
        /\ session[s] > user.changed /\ SessionLife \in Nat \ {0}
    BY <1>1, SignInAssumption DEF Ownership, Shape, Ended
  <2>2. ASSUME Issue \/ UNCHANGED session PROVE session'[s] = session[s]
    BY <1>1, <2>2 DEF Issue, Ownership, Shape
  <2>3. CASE Tick
    BY <1>1, <2>1, <2>3 DEF Tick, Ownership, Shape, NoSession, Min2
  <2>4. CASE Register
    <3>1. user.changed = SessionLife /\ user'.changed = SessionLife
      BY <1>1, <2>4 DEF Register, NoUser, Ownership, NothingYet
    <3> QED BY <2>1, <2>2, <2>4, <3>1 DEF Register
  <2>5. CASE RevokeKey
    BY <2>1, <2>5 DEF RevokeKey
  <2>6. ASSUME NEW r \in Requests, Begin(r) PROVE session'[s] > user'.changed
    BY <2>1, <2>6 DEF Begin, Login, Ask, Confirm, CreateKey, ChangeStatus, tables
  <2>7. ASSUME NEW r \in Requests, Proceed(r) PROVE session'[s] > user'.changed
    <3>1. CASE ConfirmCommit(r)
      <4>1. session'[s] = session[s]
        BY <2>2, <3>1 DEF ConfirmCommit
      <4>2. user'.changed = IF request[r].late THEN 1 ELSE 0
        BY <1>1, <3>1, ConfirmCommitUser
      <4>3. request[r].late => user.changed >= 1
        BY <1>1, <3>1, FlushingOwns DEF ConfirmCommit, Flushing, Confirms, InHand, Lateness
      <4> QED BY <2>1, <4>1, <4>2, <4>3 DEF NoSession
    <3>2. CASE LoginCommit(r) \/ ChangeStatusCommit(r)
      <4>1. session'[s] = session[s]
        BY <2>2, <3>2 DEF LoginCommit, ChangeStatusCommit
      <4>2. user'.changed = user.changed
        BY <1>1, <3>2, CommitKeepsPassword DEF Ownership
      <4> QED BY <2>1, <4>1, <4>2
    <3>3. CASE \/ Sweep(r) \/ SweepWaits(r) \/ SweepEnds(r) \/ AskCommit(r) \/ Claim(r)
               \/ CreateKeyCommit(r) \/ Abort(r)
      BY <2>1, <3>3 DEF Sweep, SweepWaits, SweepEnds, AskCommit, Claim, CreateKeyCommit, Abort, tables
    <3> QED BY <2>7, <3>1, <3>2, <3>3 DEF Proceed
  <2> QED BY <2>3, <2>4, <2>5, <2>6, <2>7 DEF Next
<1> QED BY <1>1, Inductive, PTL DEF Spec, EndedStaysEnded
-----------------------------------------------------------------------------
(* The links that are open at one time.                                    *)

\* The requests for a link that have swept, and those that wait to.
Asks == {r \in Requests : request[r].kind = "ask" /\ request[r].pc \in {"waits", "commit"}}

\* What a request will close.
Covered(r) == request[r].rows \cup request[r].found

\* The links that a set of requests leaves open.
Left(A) == OpenLinks \ UNION {Covered(r) : r \in A}

\* However some of them end and the others fail: what they leave open and what
\* they open, one link each.
Few ==
  /\ IsFiniteSet(OpenLinks)
  /\ \A A \in SUBSET Asks : Cardinality(Left(A)) + Cardinality(A) <= Cardinality(Requests)

\* The sets that are counted.
LEMMA Counts ==
  ASSUME NEW A \in SUBSET Asks, IsFiniteSet(OpenLinks)
  PROVE  /\ IsFiniteSet(A) /\ Cardinality(A) \in Nat /\ Cardinality(A) <= Cardinality(Requests)
         /\ IsFiniteSet(Left(A)) /\ Cardinality(Left(A)) \in Nat
         /\ Cardinality(Requests) \in Nat
<1>1. A \in SUBSET Requests /\ IsFiniteSet(Requests)
  BY SignInAssumption DEF Asks
<1>2. IsFiniteSet(A) /\ Cardinality(A) <= Cardinality(Requests)
  BY <1>1, FS_Subset
<1>3. Left(A) \in SUBSET OpenLinks
  BY DEF Left
<1>4. IsFiniteSet(Left(A))
  BY <1>3, FS_Subset
<1>. QED BY <1>1, <1>2, <1>4, FS_CardinalityType

\* A step that leaves no more open.
LEMMA NoMore ==
  ASSUME Few, OpenLinks' \subseteq OpenLinks, Asks' \subseteq Asks,
         \A A \in SUBSET Asks' : Left(A)' \subseteq Left(A)
  PROVE  Few'
<1>1. IsFiniteSet(OpenLinks')
  <2>1. OpenLinks' \in SUBSET OpenLinks
    OBVIOUS
  <2>. QED BY <2>1, FS_Subset DEF Few
<1>2. ASSUME NEW A \in SUBSET Asks'
      PROVE  Cardinality(Left(A)') + Cardinality(A) <= Cardinality(Requests)
  <2> DEFINE N == Left(A)'
             O == Left(A)
  <2>1. A \in SUBSET Asks /\ N \in SUBSET O
    BY <1>2
  <2>2. /\ IsFiniteSet(O) /\ Cardinality(O) \in Nat /\ Cardinality(A) \in Nat
        /\ Cardinality(Requests) \in Nat
    BY <2>1, Counts DEF Few
  <2>3. Cardinality(O) + Cardinality(A) <= Cardinality(Requests)
    BY <2>1 DEF Few
  <2> HIDE DEF N, O
  <2>4. IsFiniteSet(N) /\ Cardinality(N) <= Cardinality(O)
    BY <2>1, <2>2, FS_Subset
  <2>5. Cardinality(N) \in Nat
    BY <2>4, FS_CardinalityType
  <2>6. Cardinality(N) + Cardinality(A) <= Cardinality(Requests)
    BY <2>2, <2>3, <2>4, <2>5
  <2>. QED BY <2>6 DEF N
<1>. QED BY <1>1, <1>2 DEF Few

\* A request that begins, claims or ends without a new link.
LEMMA OthersFew ==
  ASSUME Ownership, Few, NEW r \in Requests, NEW x, Go(r, x), UNCHANGED link,
         x.kind = "ask" => x.pc = "sweep"
  PROVE  Few'
<1>1. /\ request'[r] = x
      /\ \A q \in Requests : q # r => request'[q] = request[q]
  BY GoOne DEF Ownership
<1>2. OpenLinks' = OpenLinks
  BY DEF OpenLinks, Open
<1>3. Asks' \subseteq Asks \ {r}
  BY <1>1 DEF Asks
<1>4. ASSUME NEW A \in SUBSET Asks' PROVE Left(A)' \subseteq Left(A)
  <2>1. \A q \in A : q \in Requests /\ q # r
    BY <1>3, <1>4 DEF Asks
  <2>2. \A q \in A : Covered(q)' = Covered(q)
    BY <1>1, <2>1 DEF Covered
  <2>. QED BY <1>2, <2>2 DEF Left
<1>. QED BY <1>2, <1>3, <1>4, NoMore

\* Who sweeps finds all links, so that none is left beside what it will open.
LEMMA SweepFew ==
  ASSUME Ownership, Few, NEW r \in Requests, NEW x, Go(r, x), UNCHANGED link,
         OpenLinks \subseteq x.rows \cup x.found
  PROVE  Few'
<1>1. /\ request'[r] = x
      /\ \A q \in Requests : q # r => request'[q] = request[q]
  BY GoOne DEF Ownership
<1>2. OpenLinks' = OpenLinks
  BY DEF OpenLinks, Open
<1>3. IsFiniteSet(OpenLinks')
  BY <1>2 DEF Few
<1>4. ASSUME NEW A \in SUBSET Asks'
      PROVE  Cardinality(Left(A)') + Cardinality(A) <= Cardinality(Requests)
  <2>1. CASE r \in A
    <3>1. Left(A)' = {}
      BY <1>1, <1>2, <2>1 DEF Left, Covered
    <3>2. A \in SUBSET Requests /\ IsFiniteSet(Requests)
      BY SignInAssumption DEF Asks
    <3>3. IsFiniteSet(A) /\ Cardinality(A) <= Cardinality(Requests)
      BY <3>2, FS_Subset
    <3>4. Cardinality(A) \in Nat /\ Cardinality(Requests) \in Nat
      BY <3>2, <3>3, FS_CardinalityType
    <3>5. Cardinality(Left(A)') = 0
      BY <3>1, FS_EmptySet
    <3>. QED BY <3>3, <3>4, <3>5
  <2>2. CASE r \notin A
    <3>1. A \in SUBSET Asks /\ \A q \in A : Covered(q)' = Covered(q)
      BY <1>1, <2>2 DEF Asks, Covered
    <3>2. Left(A)' = Left(A)
      BY <1>2, <3>1 DEF Left
    <3>. QED BY <3>1, <3>2 DEF Few
  <2>. QED BY <2>1, <2>2
<1>. QED BY <1>3, <1>4 DEF Few

\* A request that has waited holds as many of those it found as are still open.
LEMMA SweepEndsFew ==
  ASSUME Ownership, Few, NEW r \in Requests, SweepEnds(r)
  PROVE  Few'
<1> DEFINE x == [request[r] EXCEPT !.pc = "commit", !.found = {},
                                   !.rows = @ \cup (request[r].found \cap OpenLinks)]
<1>1. /\ request'[r] = x /\ request[r].pc = "waits" /\ UNCHANGED tables
      /\ \A q \in Requests : q # r => request'[q] = request[q]
  BY GoOne DEF SweepEnds, Ownership
<1>2. /\ x.rows = request[r].rows \cup (request[r].found \cap OpenLinks)
      /\ x.kind = request[r].kind /\ x.found = {}
  BY DEF Ownership, Shape, Fields
<1> HIDE DEF x
<1>3. OpenLinks' = OpenLinks
  BY <1>1 DEF OpenLinks, Open, tables
<1>4. Asks' \subseteq Asks
  BY <1>1, <1>2 DEF Asks
<1>5. ASSUME NEW A \in SUBSET Asks' PROVE Left(A)' \subseteq Left(A)
  <2>1. \A q \in A : q \in Requests
    BY <1>5 DEF Asks
  <2>2. \A q \in A : Covered(q) \cap OpenLinks \subseteq Covered(q)'
    BY <1>1, <1>2, <2>1 DEF Covered
  <2>. QED BY <1>3, <2>2 DEF Left
<1>. QED BY <1>3, <1>4, <1>5, NoMore

\* The new link counts as its request did, which closes all it has covered.
LEMMA AskCommitFew ==
  ASSUME Ownership, Few, NEW r \in Requests, AskCommit(r)
  PROVE  Few'
<1> DEFINE R == request[r].rows
<1>1. /\ request'[r] = NoRequest
      /\ \A q \in Requests : q # r => request'[q] = request[q]
  BY GoOne DEF AskCommit, Close, Ownership
<1>2. PICK l \in Links :
        Free(l) /\ link' = [Used(R) EXCEPT ![l] = [open |-> TRUE, left |-> LinkLife]]
  BY DEF AskCommit
<1>3. r \in Asks /\ Covered(r) = R
  BY DEF AskCommit, Asks, Covered, Ownership, Shape
<1>4. OpenLinks' \subseteq (OpenLinks \ R) \cup {l}
  BY <1>2 DEF Used, Dead, Ownership, Shape, Open, OpenLinks
<1>5. IsFiniteSet(OpenLinks) /\ IsFiniteSet(OpenLinks')
  <2>1. IsFiniteSet(OpenLinks)
    BY DEF Few
  <2>2. IsFiniteSet(OpenLinks \cup {l})
    BY <2>1, FS_AddElement
  <2>3. OpenLinks' \in SUBSET (OpenLinks \cup {l})
    BY <1>4
  <2>. QED BY <2>1, <2>2, <2>3, FS_Subset
<1>6. Asks' \subseteq Asks \ {r}
  BY <1>1, Blank DEF Asks
<1>7. ASSUME NEW A \in SUBSET Asks'
      PROVE  Cardinality(Left(A)') + Cardinality(A) <= Cardinality(Requests)
  <2> DEFINE B == A \cup {r}
             N == Left(A)'
             O == Left(B)
  <2>1. A \in SUBSET Asks /\ B \in SUBSET Asks /\ r \notin A
    BY <1>3, <1>6, <1>7
  <2>2. \A q \in A : q \in Requests /\ q # r /\ Covered(q)' = Covered(q)
    BY <1>1, <1>6, <1>7 DEF Asks, Covered
  <2>3. N \in SUBSET (O \cup {l})
    BY <1>3, <1>4, <2>2 DEF Left
  <2>4. /\ IsFiniteSet(O) /\ Cardinality(O) \in Nat
        /\ IsFiniteSet(A) /\ Cardinality(A) \in Nat /\ Cardinality(Requests) \in Nat
    BY <1>5, <2>1, Counts
  <2>5. Cardinality(O) + Cardinality(B) <= Cardinality(Requests)
    BY <2>1 DEF Few
  <2> HIDE DEF N, O
  <2>6. Cardinality(B) = Cardinality(A) + 1
    BY <2>1, <2>4, FS_AddElement
  <2>7. IsFiniteSet(O \cup {l}) /\ Cardinality(O \cup {l}) <= Cardinality(O) + 1
    <3>1. CASE l \in O
      <4>1. O \cup {l} = O
        BY <3>1
      <4>2. Cardinality(O \cup {l}) = Cardinality(O) /\ IsFiniteSet(O \cup {l})
        BY ONLY <2>4, <4>1, Zenon
      <4>. QED BY <2>4, <4>2
    <3>2. CASE l \notin O
      <4>1. IsFiniteSet(O \cup {l}) /\ Cardinality(O \cup {l}) = Cardinality(O) + 1
        BY <2>4, <3>2, FS_AddElement
      <4>. QED BY <2>4, <4>1
    <3>. QED BY <3>1, <3>2
  <2>8. IsFiniteSet(N) /\ Cardinality(N) <= Cardinality(O \cup {l})
    BY <2>3, <2>7, FS_Subset
  <2>9. Cardinality(N) \in Nat /\ Cardinality(O \cup {l}) \in Nat
    BY <2>7, <2>8, FS_CardinalityType
  <2> HIDE DEF B
  <2>10. Cardinality(N) + Cardinality(A) <= Cardinality(Requests)
    BY <2>4, <2>5, <2>6, <2>7, <2>8, <2>9
  <2>. QED BY <2>10 DEF N
<1>. QED BY <1>5, <1>7 DEF Few

\* A confirmation closes what it holds.
LEMMA ConfirmCommitFew ==
  ASSUME Ownership, Few, NEW r \in Requests, ConfirmCommit(r)
  PROVE  Few'
<1>1. /\ request'[r] = NoRequest
      /\ \A q \in Requests : q # r => request'[q] = request[q]
  BY GoOne DEF ConfirmCommit, Close, Ownership
<1>2. link' = Used(request[r].rows)
  BY DEF ConfirmCommit
<1>3. OpenLinks' \subseteq OpenLinks
  BY <1>2 DEF Used, Dead, OpenLinks, Open
<1>4. Asks' \subseteq Asks \ {r}
  BY <1>1, Blank DEF Asks
<1>5. ASSUME NEW A \in SUBSET Asks' PROVE Left(A)' \subseteq Left(A)
  <2>1. \A q \in A : q \in Requests /\ q # r
    BY <1>4, <1>5 DEF Asks
  <2>2. \A q \in A : Covered(q)' = Covered(q)
    BY <1>1, <2>1 DEF Covered
  <2>. QED BY <1>3, <2>2 DEF Left
<1>. QED BY <1>3, <1>4, <1>5, NoMore

\* An instant closes no link and opens none.
LEMMA TickFew ==
  ASSUME Ownership, Few, Tick
  PROVE  Few'
<1>1. \A l \in Links : link'[l].open = link[l].open
  BY DEF Tick, Ownership, Shape, Fresh, Open
<1>2. OpenLinks' = OpenLinks
  BY <1>1 DEF OpenLinks, Open
<1>3. ASSUME NEW r \in Requests
      PROVE  \/ request'[r] = NoRequest
             \/ /\ request'[r].kind = request[r].kind /\ request'[r].pc = request[r].pc
                /\ request'[r].rows = request[r].rows /\ request'[r].found = request[r].found
  <2>1. CASE request[r].pc = "idle"
    BY <2>1 DEF Tick
  <2>2. CASE request[r].pc # "idle"
    <3>1. request'[r] = [request[r] EXCEPT !.late = TRUE] /\ DOMAIN request[r] = Fields
      BY <2>2 DEF Tick, Ownership, Shape
    <3>. QED BY <3>1 DEF Fields
  <2>. QED BY <2>1, <2>2
<1>4. Asks' \subseteq Asks
  BY <1>3, Blank DEF Asks
<1>5. ASSUME NEW A \in SUBSET Asks' PROVE Left(A)' \subseteq Left(A)
  <2>1. \A q \in A : q \in Requests /\ request'[q] # NoRequest
    BY <1>5, Blank DEF Asks
  <2>2. \A q \in A : Covered(q)' = Covered(q)
    BY <1>3, <2>1 DEF Covered
  <2>. QED BY <1>2, <2>2 DEF Left
<1>. QED BY <1>2, <1>4, <1>5, NoMore

\* In the first state no link is open and nobody asks for one.
LEMMA InitFew == Init => Few
<1> SUFFICES ASSUME Init PROVE Few
  OBVIOUS
<1>1. OpenLinks = {} /\ Asks = {}
  BY Blank DEF Init, OpenLinks, Open, Dead, Asks
<1>2. IsFiniteSet({}) /\ Cardinality({}) = 0
  BY FS_EmptySet
<1>3. Cardinality(Requests) \in Nat
  BY SignInAssumption, FS_CardinalityType
<1>4. \A A \in SUBSET Asks : A = {} /\ Left(A) = {}
  BY <1>1 DEF Left
<1>. QED BY <1>1, <1>2, <1>3, <1>4 DEF Few

\* Each step keeps the count.
LEMMA StepFew == Ownership /\ Few /\ [Next]_vars => Few'
<1> SUFFICES ASSUME Ownership, Few, [Next]_vars PROVE Few'
  OBVIOUS
<1>1. CASE Register \/ RevokeKey \/ UNCHANGED vars
  <2>1. UNCHANGED <<link, request>>
    BY <1>1 DEF Register, RevokeKey, vars, tables
  <2>. QED BY <2>1 DEF Few, Left, Covered, Asks, OpenLinks, Open
<1>2. CASE Tick
  BY <1>2, TickFew
<1>3. ASSUME NEW r \in Requests, Begin(r) PROVE Few'
  <2>1. ASSUME NEW x, Go(r, x), UNCHANGED tables, x.kind = "ask" => x.pc = "sweep"
        PROVE  Few'
    BY <2>1, OthersFew DEF tables
  <2>2. CASE Login(r)
    BY <2>1, <2>2, Blank DEF Login, NoRequest
  <2>3. CASE Ask(r)
    BY <2>1, <2>3, Blank DEF Ask, NoRequest
  <2>4. CASE Confirm(r)
    BY <2>1, <2>4, Blank DEF Confirm, NoRequest
  <2>5. CASE CreateKey(r)
    BY <2>1, <2>5, Blank DEF CreateKey, NoRequest
  <2>6. CASE ChangeStatus(r)
    BY <2>1, <2>6, Blank DEF ChangeStatus, NoRequest
  <2>. QED BY <1>3, <2>2, <2>3, <2>4, <2>5, <2>6 DEF Begin
<1>4. ASSUME NEW r \in Requests, Proceed(r) PROVE Few'
  <2>1. ASSUME Close(r), UNCHANGED link PROVE Few'
    BY <2>1, OthersFew, Blank DEF Close
  <2>2. CASE LoginCommit(r) \/ ChangeStatusCommit(r) \/ CreateKeyCommit(r) \/ Abort(r)
    BY <2>1, <2>2 DEF LoginCommit, ChangeStatusCommit, CreateKeyCommit, Abort, tables
  <2>3. CASE Sweep(r)
    <3> DEFINE x == [request[r] EXCEPT !.pc = "commit", !.rows = @ \cup OpenLinks]
    <3>1. Go(r, x) /\ UNCHANGED link /\ OpenLinks \subseteq x.rows
      BY <2>3 DEF Sweep, tables, Ownership, Shape, Fields
    <3> HIDE DEF x
    <3>. QED BY <3>1, SweepFew
  <2>4. CASE SweepWaits(r)
    <3> DEFINE x == [request[r] EXCEPT !.pc = "waits", !.found = OpenLinks]
    <3>1. Go(r, x) /\ UNCHANGED link /\ OpenLinks \subseteq x.found
      BY <2>4 DEF SweepWaits, tables, Ownership, Shape, Fields
    <3> HIDE DEF x
    <3>. QED BY <3>1, SweepFew
  <2>5. CASE SweepEnds(r)
    BY <2>5, SweepEndsFew
  <2>6. CASE AskCommit(r)
    BY <2>6, AskCommitFew
  <2>7. CASE Claim(r)
    <3>1. request[r].kind = "confirm" /\ DOMAIN request[r] = Fields
      BY <2>7 DEF Claim, Ownership, Shape
    <3>2. Claimed(r).kind = "confirm"
      BY <3>1 DEF Claimed, Fields
    <3>3. Go(r, Claimed(r)) \/ Close(r)
      BY <2>7 DEF Claim
    <3>4. UNCHANGED link
      BY <2>7 DEF Claim, tables
    <3>. QED BY <2>1, <3>2, <3>3, <3>4, OthersFew
  <2>8. CASE ConfirmCommit(r)
    BY <2>8, ConfirmCommitFew
  <2>. QED BY <1>4, <2>2, <2>3, <2>4, <2>5, <2>6, <2>7, <2>8 DEF Proceed
<1>. QED BY <1>1, <1>2, <1>3, <1>4 DEF Next

\* No more links are open than requests overlap (request_password_reset), for
\* any number of requests and however often a link is asked for.
THEOREM FewLinksStayOpen == Spec => []FewLinksOpen
<1>1. Few => FewLinksOpen
  <2> SUFFICES ASSUME Few PROVE FewLinksOpen
    OBVIOUS
  <2>1. {} \in SUBSET Asks /\ Left({}) = OpenLinks
    BY DEF Left
  <2>2. Cardinality({}) = 0 /\ Cardinality(OpenLinks) \in Nat
    BY FS_EmptySet, FS_CardinalityType DEF Few
  <2>3. Cardinality(OpenLinks) + 0 <= Cardinality(Requests)
    BY <2>1, <2>2 DEF Few
  <2>. QED BY <2>2, <2>3 DEF FewLinksOpen
<1>2. Spec => [](Ownership /\ Few)
  <2>1. Ownership /\ Lateness /\ Few /\ [Next]_vars => Few'
    BY StepFew
  <2>. QED BY <2>1, InitFew, Inductive, PTL DEF Spec
<1>. QED BY <1>1, <1>2, PTL

-----------------------------------------------------------------------------
(* The types.                                                              *)

\* A power of two is a number: there are so many subsets.
LEMMA Powers ==
  ASSUME NEW n \in Nat
  PROVE  2 ^ n \in Nat
<1>1. IsFiniteSet(1..n) /\ Cardinality(1..n) = n
  BY FS_Interval
<1>2. IsFiniteSet(SUBSET (1..n)) /\ Cardinality(SUBSET (1..n)) = 2 ^ n
  BY <1>1, FS_SUBSET
<1>. QED BY <1>2, FS_CardinalityType

\* A lock is at most the longest one.
LEMMA LockoutType ==
  ASSUME NEW a \in 0..AttemptsCap
  PROVE  LockoutUntil(a) \in 0..(LockCap + 1)
<1>1. {MaxFailed, LockUnit, LockCap, AttemptsCap} \subseteq Nat
  BY SignInAssumption
<1>2. CASE a < MaxFailed
  BY <1>1, <1>2 DEF LockoutUntil
<1>3. CASE ~(a < MaxFailed)
  <2> DEFINE power == 2 ^ (a - MaxFailed)
  <2>1. a - MaxFailed \in Nat
    BY <1>1, <1>3
  <2>2. power \in Nat
    BY <2>1, Powers
  <2>3. LockoutUntil(a) = 1 + Min2(LockUnit * power, LockCap)
    BY <1>3 DEF LockoutUntil
  <2> HIDE DEF power
  <2>4. LockUnit * power \in Nat
    BY <1>1, <2>2
  <2>5. Min2(LockUnit * power, LockCap) \in 0..LockCap
    BY <1>1, <2>4 DEF Min2
  <2>. QED BY <1>1, <2>3, <2>5
<1>. QED BY <1>2, <1>3

\* The columns of the user.
LEMMA UserFields ==
  ASSUME NEW u \in User
  PROVE  /\ DOMAIN u = {"hash", "changed", "attempts", "lock", "active"}
         /\ u.hash \in 0..2 /\ u.changed \in 0..SessionLife /\ u.attempts \in 0..AttemptsCap
         /\ u.lock \in 0..(LockCap + 1) /\ u.active \in BOOLEAN
  BY DEF User

\* What is flushed is a row of the table.
LEMMA FlushType ==
  ASSUME user \in User, NEW r, NEW row \in Seen
  PROVE  Flush(r, row) \in User
<1> DEFINE f == Flush(r, row)
           D == {"hash", "changed", "attempts", "lock", "active"}
<1>1. DOMAIN user = D /\ DOMAIN row = Loaded
  BY UserFields DEF Seen, Loaded
<1>2. PICK dirty \in SUBSET Loaded : f = [c \in D |-> IF c \in dirty THEN row[c] ELSE user[c]]
  <2>1. {c \in DOMAIN row : row[c] # request[r].seen[c]} \in SUBSET Loaded
    BY <1>1
  <2>. QED BY <1>1, <2>1 DEF Flush
<1>3. row["attempts"] \in 0..AttemptsCap /\ row["lock"] \in 0..(LockCap + 1)
      /\ row["active"] \in BOOLEAN
  BY DEF Seen
<1>4. /\ user["hash"] \in 0..2 /\ user["changed"] \in 0..SessionLife
      /\ user["attempts"] \in 0..AttemptsCap /\ user["lock"] \in 0..(LockCap + 1)
      /\ user["active"] \in BOOLEAN
  BY UserFields
<1> HIDE DEF f
<1>5. /\ f["hash"] \in 0..2 /\ f["changed"] \in 0..SessionLife
      /\ f["attempts"] \in 0..AttemptsCap /\ f["lock"] \in 0..(LockCap + 1)
  BY <1>2, <1>3, <1>4 DEF Loaded
<1>6. f["active"] \in BOOLEAN
  <2>1. f["active"] = row["active"] \/ f["active"] = user["active"]
    BY <1>2
  <2>. QED BY <1>3, <1>4, <2>1, Zenon
<1>7. f = [hash |-> f["hash"], changed |-> f["changed"], attempts |-> f["attempts"],
           lock |-> f["lock"], active |-> f["active"]]
  BY <1>2
<1>. QED BY <1>5, <1>6, <1>7 DEF User, f

\* A column of a request that is written keeps its type.
LEMMA RequestType ==
  ASSUME NEW x \in Request
  PROVE  /\ \A p \in PC : [x EXCEPT !.pc = p] \in Request
         /\ \A p \in PC, R \in SUBSET Links : [x EXCEPT !.pc = p, !.rows = R] \in Request
         /\ \A p \in PC, R \in SUBSET Links, K \in SUBSET Keys :
              [x EXCEPT !.pc = p, !.rows = R, !.keys = K] \in Request
         /\ \A p \in PC, F \in SUBSET Links : [x EXCEPT !.pc = p, !.found = F] \in Request
         /\ \A p \in PC, F, R \in SUBSET Links :
              [x EXCEPT !.pc = p, !.found = F, !.rows = R] \in Request
         /\ [x EXCEPT !.late = TRUE] \in Request
  BY DEF Request

\* A request as it begins.
LEMMA NewRequestType ==
  ASSUME user \in User
  PROVE  /\ Columns \in Seen
         /\ NoRequest \in Request
         /\ \A right \in BOOLEAN :
              [NoRequest EXCEPT !.kind = "login", !.pc = "commit", !.right = right, !.seen = Columns]
                \in Request
         /\ [NoRequest EXCEPT !.kind = "ask", !.pc = "sweep"] \in Request
         /\ \A l \in Links :
              [NoRequest EXCEPT !.kind = "confirm", !.pc = "claim", !.link = l, !.seen = Columns]
                \in Request
         /\ [NoRequest EXCEPT !.kind = "key", !.pc = "commit"] \in Request
         /\ [NoRequest EXCEPT !.kind = "status", !.pc = "commit", !.seen = Columns] \in Request
<1>1. Columns \in Seen
  BY UserFields DEF Columns, Seen
<1>2. Unloaded \in Seen
  BY SignInAssumption DEF Unloaded, Seen
<1> HIDE DEF Unloaded
<1>. QED BY <1>1, <1>2 DEF NoRequest, Request, Kinds, PC

\* A login, a switch and a confirmation write rows of the table.
LEMMA CommitTypes ==
  ASSUME TypeOK, Ownership, NEW r \in Requests
  PROVE  /\ LoginCommit(r) \/ ChangeStatusCommit(r) => user' \in User
         /\ ConfirmCommit(r) => user' \in User
<1> DEFINE seen == request[r].seen
<1>1. user \in User /\ seen \in Seen
  BY DEF TypeOK, Request
<1>2. \A row \in Seen : Flush(r, row) \in User
  BY <1>1, FlushType
<1>3. 0 \in 0..AttemptsCap /\ 0 \in 0..(LockCap + 1)
  BY SignInAssumption
<1>4. [seen EXCEPT !.attempts = 0, !.lock = 0] \in Seen
  BY <1>1, <1>3 DEF Seen
<1>5. ASSUME LoginCommit(r) PROVE user' \in User
  <2> DEFINE failed == Min2(seen.attempts + 1, AttemptsCap)
  <2>1. failed \in 0..AttemptsCap
    BY <1>1, SignInAssumption DEF Seen, Min2
  <2>2. LockoutUntil(failed) \in 0..(LockCap + 1)
    BY <2>1, LockoutType
  <2> HIDE DEF failed
  <2>3. [seen EXCEPT !.attempts = failed, !.lock = LockoutUntil(failed)] \in Seen
    BY <1>1, <2>1, <2>2 DEF Seen
  <2>4. \/ user' = Flush(r, [seen EXCEPT !.attempts = failed, !.lock = LockoutUntil(failed)])
        \/ user' = Flush(r, [seen EXCEPT !.attempts = 0, !.lock = 0])
        \/ user' = user
    BY <1>5 DEF LoginCommit, failed
  <2> HIDE DEF seen
  <2>. QED BY <1>1, <1>2, <1>4, <2>3, <2>4
<1>6. ASSUME ChangeStatusCommit(r) PROVE user' \in User
  <2>1. [seen EXCEPT !.active = FALSE] \in Seen
        /\ [seen EXCEPT !.active = TRUE, !.attempts = 0, !.lock = 0] \in Seen
    BY <1>1, <1>3 DEF Seen
  <2>2. \/ user' = Flush(r, [seen EXCEPT !.active = FALSE])
        \/ user' = Flush(r, [seen EXCEPT !.active = TRUE, !.attempts = 0, !.lock = 0])
    BY <1>6 DEF ChangeStatusCommit
  <2> HIDE DEF seen
  <2>. QED BY <1>2, <2>1, <2>2
<1>7. ASSUME ConfirmCommit(r) PROVE user' \in User
  <2> DEFINE flushed == Flush(r, [seen EXCEPT !.attempts = 0, !.lock = 0])
             changed == IF request[r].late THEN 1 ELSE 0
  <2>1. user' = [flushed EXCEPT !.hash = 3 - @, !.changed = changed]
    BY <1>7 DEF ConfirmCommit
  <2>2. flushed \in User
    BY <1>2, <1>4
  <2>3. flushed.hash \in 1..2
    <3>1. user'.hash \in 1..2
      BY <1>7, ConfirmCommitUser
    <3> HIDE DEF flushed, changed
    <3>2. user'.hash = 3 - flushed.hash /\ flushed.hash \in 0..2
      BY <2>1, <2>2 DEF User
    <3>. QED BY <3>1, <3>2
  <2>4. changed \in 0..SessionLife
    BY SignInAssumption
  <2> HIDE DEF flushed, changed
  <2>5. 3 - flushed.hash \in 0..2
    BY <2>3
  <2>. QED BY <2>1, <2>2, <2>4, <2>5 DEF User
<1>. QED BY <1>5, <1>6, <1>7

\* The first state.
LEMMA InitTypes == Init => TypeOK
<1>1. NoUser \in User
  BY SignInAssumption DEF NoUser, User
<1>2. Dead \in [open : BOOLEAN, left : 0..LinkLife]
  BY SignInAssumption DEF Dead
<1>3. NoRequest \in Request
  BY <1>1, SignInAssumption DEF NoRequest, Unloaded, Request, Seen, Kinds, PC
<1>4. NoSession \in 0..NoSession
  BY SignInAssumption DEF NoSession
<1>. QED BY <1>1, <1>2, <1>3, <1>4 DEF Init, TypeOK

\* Every step keeps the types.
LEMMA StepTypes == TypeOK /\ Ownership /\ [Next]_vars => TypeOK'
<1> SUFFICES ASSUME TypeOK, Ownership, [Next]_vars PROVE TypeOK'
  OBVIOUS
<1> DEFINE Link == [open : BOOLEAN, left : 0..LinkLife]
<1>1. /\ user \in User /\ link \in [Links -> Link]
      /\ key \in [Keys -> {"live", "revoked"}] /\ session \in [Sessions -> 0..NoSession]
      /\ request \in [Requests -> Request]
  BY DEF TypeOK
<1>2. ASSUME Issue \/ UNCHANGED session PROVE session' \in [Sessions -> 0..NoSession]
  BY <1>1, <1>2, SignInAssumption DEF Issue, NoSession
<1>3. ASSUME NEW r \in Requests, NEW x \in Request, Go(r, x)
      PROVE  request' \in [Requests -> Request]
  BY <1>1, <1>3 DEF Go
<1>4. NoRequest \in Request
  BY <1>1, NewRequestType
<1>5. Dead \in Link /\ [open |-> TRUE, left |-> LinkLife] \in Link
  BY SignInAssumption DEF Dead
<1> HIDE DEF Link
<1>6. \A R : Used(R) \in [Links -> Link]
  BY <1>1, <1>5 DEF Used
<1>7. CASE UNCHANGED vars
  BY <1>7 DEF vars, tables, TypeOK
<1>8. CASE Register
  <2>1. user' = [NoUser EXCEPT !.hash = 1] /\ UNCHANGED <<link, key, request>> /\ Issue
    BY <1>8 DEF Register
  <2>2. user' = [hash |-> 1, changed |-> SessionLife, attempts |-> 0, lock |-> 0, active |-> TRUE]
    BY <2>1 DEF NoUser
  <2>3. /\ 1 \in 0..2 /\ SessionLife \in 0..SessionLife /\ 0 \in 0..AttemptsCap
        /\ 0 \in 0..(LockCap + 1)
    BY SignInAssumption
  <2>4. user' \in User
    BY <2>2, <2>3 DEF User
  <2>. QED BY <1>1, <1>2, <2>1, <2>4 DEF TypeOK, Link
<1>9. CASE RevokeKey
  <2>1. key' \in [Keys -> {"live", "revoked"}] /\ UNCHANGED <<user, link, session, request>>
    BY <1>1, <1>9 DEF RevokeKey
  <2>. QED BY <1>1, <2>1 DEF TypeOK, Link
<1>10. CASE Tick
  <2>1. /\ user' = [user EXCEPT !.changed = Min2(@ + 1, SessionLife),
                                !.lock = IF @ > 1 THEN @ - 1 ELSE @]
        /\ link' = [l \in Links |-> IF Fresh(l) THEN [link[l] EXCEPT !.left = @ - 1] ELSE link[l]]
        /\ session' = [s \in Sessions |-> Min2(session[s] + 1, NoSession)]
        /\ request' = [r \in Requests |-> IF request[r].pc = "idle" THEN NoRequest
                                          ELSE [request[r] EXCEPT !.late = TRUE]]
        /\ key' = key
    BY <1>10 DEF Tick
  <2>2. user' \in User
    <3> DEFINE c == Min2(user.changed + 1, SessionLife)
               l == IF user.lock > 1 THEN user.lock - 1 ELSE user.lock
    <3>1. c \in 0..SessionLife /\ l \in 0..(LockCap + 1)
      BY <1>1, UserFields, SignInAssumption DEF Min2
    <3>2. user' = [user EXCEPT !.changed = c, !.lock = l]
      BY <2>1
    <3> HIDE DEF c, l
    <3>. QED BY <1>1, <3>1, <3>2 DEF User
  <2>3. link' \in [Links -> Link]
    <3>1. ASSUME NEW l \in Links, Fresh(l) PROVE [link[l] EXCEPT !.left = @ - 1] \in Link
      <4>1. link[l] \in Link /\ link[l].left > 0
        BY <1>1, <3>1 DEF Fresh
      <4>. QED BY <4>1, SignInAssumption DEF Link
    <3>. QED BY <1>1, <2>1, <3>1
  <2>4. session' \in [Sessions -> 0..NoSession]
    BY <1>1, <2>1, SignInAssumption DEF NoSession, Min2
  <2>5. request' \in [Requests -> Request]
    <3>1. \A r \in Requests : [request[r] EXCEPT !.late = TRUE] \in Request
      BY <1>1, RequestType
    <3>. QED BY <1>4, <2>1, <3>1
  <2>. QED BY <1>1, <2>1, <2>2, <2>3, <2>4, <2>5 DEF TypeOK, Link
<1>11. ASSUME NEW r \in Requests, Begin(r) PROVE TypeOK'
  <2>1. ASSUME NEW x \in Request, Go(r, x), UNCHANGED tables PROVE TypeOK'
    <3>1. request' \in [Requests -> Request]
      BY <1>3, <2>1
    <3>. QED BY <1>1, <2>1, <3>1 DEF TypeOK, tables, Link
  <2>2. CASE Login(r)
    BY <1>1, <2>1, <2>2, NewRequestType DEF Login
  <2>3. CASE Ask(r)
    BY <1>1, <2>1, <2>3, NewRequestType DEF Ask
  <2>4. CASE Confirm(r)
    BY <1>1, <2>1, <2>4, NewRequestType DEF Confirm
  <2>5. CASE CreateKey(r)
    BY <1>1, <2>1, <2>5, NewRequestType DEF CreateKey
  <2>6. CASE ChangeStatus(r)
    BY <1>1, <2>1, <2>6, NewRequestType DEF ChangeStatus
  <2>. QED BY <1>11, <2>2, <2>3, <2>4, <2>5, <2>6 DEF Begin
<1>12. ASSUME NEW r \in Requests, Proceed(r) PROVE TypeOK'
  <2>1. ASSUME Close(r) PROVE request' \in [Requests -> Request]
    BY <1>3, <1>4, <2>1 DEF Close
  <2>2. request[r] \in Request /\ OpenLinks \subseteq Links
    BY <1>1 DEF OpenLinks
  <2>3. CASE LoginCommit(r) \/ ChangeStatusCommit(r)
    <3>1. user' \in User
      BY <2>3, CommitTypes
    <3>2. Close(r) /\ UNCHANGED <<link, key>> /\ (Issue \/ UNCHANGED session)
      BY <2>3 DEF LoginCommit, ChangeStatusCommit
    <3>. QED BY <1>1, <1>2, <2>1, <3>1, <3>2 DEF TypeOK, Link
  <2>4. CASE Sweep(r)
    <3> DEFINE x == [request[r] EXCEPT !.pc = "commit", !.rows = @ \cup OpenLinks]
    <3>1. x \in Request
      <4>1. request[r].rows \cup OpenLinks \in SUBSET Links /\ "commit" \in PC
        BY <2>2 DEF Request, PC
      <4>. QED BY <2>2, <4>1, RequestType
    <3>2. Go(r, x) /\ UNCHANGED tables
      BY <2>4 DEF Sweep
    <3> HIDE DEF x
    <3>. QED BY <1>1, <1>3, <3>1, <3>2 DEF TypeOK, tables, Link
  <2>10. CASE SweepWaits(r)
    <3> DEFINE x == [request[r] EXCEPT !.pc = "waits", !.found = OpenLinks]
    <3>1. x \in Request
      <4>1. "waits" \in PC
        BY DEF PC
      <4>. QED BY <2>2, <4>1, RequestType
    <3>2. Go(r, x) /\ UNCHANGED tables
      BY <2>10 DEF SweepWaits
    <3> HIDE DEF x
    <3>. QED BY <1>1, <1>3, <3>1, <3>2 DEF TypeOK, tables, Link
  <2>11. CASE SweepEnds(r)
    <3> DEFINE R == request[r].rows \cup (request[r].found \cap OpenLinks)
               x == [request[r] EXCEPT !.pc = "commit", !.found = {}, !.rows = R]
    <3>1. x \in Request
      <4>1. R \in SUBSET Links /\ {} \in SUBSET Links /\ "commit" \in PC
        BY <2>2 DEF Request, PC
      <4> HIDE DEF R
      <4>. QED BY <2>2, <4>1, RequestType
    <3>2. Go(r, x) /\ UNCHANGED tables
      BY <2>11 DEF SweepEnds
    <3> HIDE DEF x
    <3>. QED BY <1>1, <1>3, <3>1, <3>2 DEF TypeOK, tables, Link
  <2>5. CASE AskCommit(r)
    <3>1. link' \in [Links -> Link]
      BY <1>5, <1>6, <2>5 DEF AskCommit
    <3>2. Close(r) /\ UNCHANGED <<user, key, session>>
      BY <2>5 DEF AskCommit
    <3>. QED BY <1>1, <2>1, <3>1, <3>2 DEF TypeOK, Link
  <2>6. CASE Claim(r)
    <3>1. Claimed(r) \in Request
      <4>1. "sweep" \in PC /\ {k \in Keys : key[k] = "live"} \in SUBSET Keys
        BY DEF PC
      <4>2. {request[r].link} \in SUBSET Links
        BY <2>6 DEF Claim, Ownership, Shape
      <4>. QED BY <2>2, <4>1, <4>2, RequestType DEF Claimed
    <3>2. (Go(r, Claimed(r)) \/ Close(r)) /\ UNCHANGED tables
      BY <2>6 DEF Claim
    <3>3. request' \in [Requests -> Request]
      BY <1>3, <2>1, <3>1, <3>2
    <3>. QED BY <1>1, <3>2, <3>3 DEF TypeOK, tables, Link
  <2>7. CASE ConfirmCommit(r)
    <3>1. user' \in User
      BY <2>7, CommitTypes
    <3>2. key' \in [Keys -> {"live", "revoked"}]
      BY <1>1, <2>7 DEF ConfirmCommit
    <3>3. link' \in [Links -> Link] /\ Close(r) /\ Issue
      BY <1>6, <2>7 DEF ConfirmCommit
    <3>. QED BY <1>2, <2>1, <3>1, <3>2, <3>3 DEF TypeOK, Link
  <2>8. CASE CreateKeyCommit(r)
    <3>1. key' \in [Keys -> {"live", "revoked"}] /\ Close(r) /\ UNCHANGED <<user, link, session>>
      BY <1>1, <2>8 DEF CreateKeyCommit
    <3>. QED BY <1>1, <2>1, <3>1 DEF TypeOK, Link
  <2>9. CASE Abort(r)
    BY <1>1, <2>1, <2>9 DEF Abort, tables, TypeOK, Link
  <2>. QED BY <1>12, <2>3, <2>4, <2>5, <2>6, <2>7, <2>8, <2>9, <2>10, <2>11 DEF Proceed
<1>. QED BY <1>7, <1>8, <1>9, <1>10, <1>11, <1>12 DEF Next

\* Every variable keeps its type: a lock is no longer than the longest one, however
\* often a login fails (lockout_until), and the passwords alternate.
THEOREM SignInTypes == Spec => []TypeOK
<1>1. TypeOK /\ Ownership /\ Lateness /\ [Next]_vars => TypeOK'
  BY StepTypes
<1>. QED BY <1>1, InitTypes, Inductive, PTL DEF Spec
=============================================================================
