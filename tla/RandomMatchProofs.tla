-------------------------- MODULE RandomMatchProofs --------------------------
(***************************************************************************)
(* Theorems about RandomMatch, for any users, calls, blocks and queue: a   *)
(* user is in one live session and has one queue entry at most, and a      *)
(* match takes its two users, and nobody else, out of the queue.  They     *)
(* rest on what an open transaction holds: its locks name queued users, no *)
(* two transactions lock the same entry, and a user whose session is about *)
(* to be committed has no live one.  Nobody is forgotten, because of any   *)
(* two who wait and could be matched one has a call that will still try    *)
(* the other: this needs a queue no longer than a call scans.              *)
(***************************************************************************)
EXTENDS RandomMatch, FiniteSetTheorems, TLAPS

USE MatchAssumption

CallDocs == [pc : Labels, user : Users, goal : Goals, target : Calls,
             todo : Seq(Users), unfit : SUBSET Users, locks : SUBSET Users,
             snap : {"queued", "absent", "changed"}, made : BOOLEAN]

Answers == [Calls -> [state : {"none", "waiting", "matched", "idle", "refused", "error"},
                      session : SUBSET Calls]]

InTransaction == {"claim", "self", "create", "commit"}

\* The entries that a call has deleted and not committed.
Held(r) == IF r.pc = "self" THEN {Head(r.todo)}
           ELSE IF r.pc \in {"create", "commit"} THEN {r.user, Head(r.todo)} ELSE {}

\* A call by itself: it never scans its own user, and holds what it has deleted.
CallSane(r) ==
  /\ r.user \notin ToSet(r.todo)
  /\ r.pc \in InTransaction => r.todo # <<>>
  /\ r.locks = Held(r)

\* A call and the collections, as its snapshot and its locks let it see them.
Seen(r) ==
  /\ r.locks \subseteq Queued
  /\ r.pc = "self" /\ r.snap = "queued" => r.user \in Queued
  /\ r.pc = "commit" => \A u \in r.locks : ActiveOf(u) = {}

CallsSane == \A c \in Calls : CallSane(call[c])
CallsSeen == \A c \in Calls : Seen(call[c])
LocksApart == \A c, d \in Calls : c # d => call[c].locks \cap call[d].locks = {}
OneActive == \A u \in Users : \A s, t \in ActiveOf(u) : s = t

Safe == IsInjective(queue) /\ CallsSane /\ CallsSeen /\ LocksApart /\ OneActive
IInv == TypeOK /\ Safe

\* The call r has still to try the user v, as long as both are queued.
On(r, v) ==
  \/ r.pc = "scan"
  \/ r.pc \in {"load", "pick", "claim", "create", "commit"} /\ v \in ToSet(r.todo)
  \/ r.pc = "self" /\ v \in ToSet(r.todo) /\ (v = Head(r.todo) => r.snap # "absent")

\* Two queued users who are not blocked: one of them met an error or is about to
\* be dropped, or a call of one has still to try the other.
Settled == spoiled \cup drops
Tried(u, v) ==
  \/ {u, v} \cap Settled # {}
  \/ \E c \in Calls : Self(c) = u /\ On(call[c], v)
  \/ \E c \in Calls : Self(c) = v /\ On(call[c], u)
Paired == \A u, v \in Queued : u # v /\ {u, v} \notin Blocked => Tried(u, v)

\* Only join, or a next that goes on as join, enqueues and scans.
Joining == \A c \in Calls : call[c].pc \in {"enqueue", "scan", "load", "pick"} \cup InTransaction =>
                               call[c].goal = "join"

\* No more users wait than a call scans.
ShortQueue == Len(queue) <= MaxScan + 1

PInv == Joining /\ Paired
-----------------------------------------------------------------------------
(***************************************************************************)
(* Sequences of users.                                                     *)
(***************************************************************************)
\* The first candidate is one of them, and the rest are among them.
LEMMA HeadAndTail ==
  ASSUME NEW s \in Seq(Users), s # <<>>
  PROVE  /\ Head(s) \in Users /\ Head(s) \in ToSet(s)
         /\ Tail(s) \in Seq(Users) /\ ToSet(Tail(s)) \subseteq ToSet(s)
<1>1. Head(s) = s[1] /\ 1 \in DOMAIN s /\ Head(s) \in Users /\ Tail(s) \in Seq(Users)
  OBVIOUS
<1>2. ASSUME NEW i \in DOMAIN Tail(s)  PROVE Tail(s)[i] \in ToSet(s)
  <2>1. Tail(s)[i] = s[i + 1] /\ i + 1 \in DOMAIN s
    OBVIOUS
  <2>2. QED
    BY <2>1 DEF ToSet
<1>3. QED
  BY <1>1, <1>2 DEF ToSet

\* The scan reads a beginning of what the queue holds (attemptMatch's limit).
LEMMA Beginning ==
  ASSUME NEW s \in Seq(Users), NEW n \in Nat, n <= Len(s)
  PROVE  SubSeq(s, 1, n) \in Seq(Users) /\ ToSet(SubSeq(s, 1, n)) \subseteq ToSet(s)
<1>1. SubSeq(s, 1, n) \in Seq(Users)
  OBVIOUS
<1>2. ASSUME NEW i \in DOMAIN SubSeq(s, 1, n)  PROVE SubSeq(s, 1, n)[i] \in ToSet(s)
  <2>1. SubSeq(s, 1, n)[i] = s[i] /\ i \in DOMAIN s
    OBVIOUS
  <2>2. QED
    BY <2>1 DEF ToSet
<1>3. QED
  BY <1>1, <1>2 DEF ToSet

\* Taking the entry at i out of a queue moves the later ones up by one.
LEMMA EntryTaken ==
  ASSUME NEW q \in Seq(Users), NEW i \in DOMAIN q
  PROVE  /\ RemoveAt(q, i) \in Seq(Users)
         /\ DOMAIN RemoveAt(q, i) = 1..(Len(q) - 1)
         /\ \A j \in 1..(Len(q) - 1) : RemoveAt(q, i)[j] = IF j < i THEN q[j] ELSE q[j + 1]
<1> DEFINE a == SubSeq(q, 1, i - 1)
           b == SubSeq(q, i + 1, Len(q))
<1>1. i \in 1..Len(q) /\ Len(q) \in Nat
  OBVIOUS
<1>2. a \in Seq(Users) /\ Len(a) = i - 1 /\ \A j \in 1..(i - 1) : a[j] = q[j]
  BY <1>1
<1>3. b \in Seq(Users) /\ Len(b) = Len(q) - i /\ \A j \in 1..(Len(q) - i) : b[j] = q[i + j]
  BY <1>1
<1>4. RemoveAt(q, i) = a \o b
  BY DEF RemoveAt
<1> HIDE DEF a, b
<1>5. a \o b \in Seq(Users) /\ Len(a \o b) = Len(q) - 1
  BY <1>1, <1>2, <1>3
<1>9. \A j \in 1..(Len(a) + Len(b)) : (a \o b)[j] = IF j <= Len(a) THEN a[j] ELSE b[j - Len(a)]
  BY <1>2, <1>3, SMTT(30)
<1>6. \A j \in 1..(Len(q) - 1) : (a \o b)[j] = IF j < i THEN q[j] ELSE q[j + 1]
  <2> SUFFICES ASSUME NEW j \in 1..(Len(q) - 1)
               PROVE  (a \o b)[j] = IF j < i THEN q[j] ELSE q[j + 1]
    OBVIOUS
  <2>1. CASE j < i
    <3>1. j \in 1..(i - 1) /\ j \in 1..(Len(a) + Len(b)) /\ j <= Len(a)
      BY <1>1, <1>2, <1>3, <2>1
    <3>2. QED
      BY <1>2, <1>9, <2>1, <3>1
  <2>2. CASE j >= i
    <3>1. (a \o b)[j] = b[j - (i - 1)]
      <4>1. j \in 1..(Len(a) + Len(b)) /\ ~(j <= Len(a)) /\ Len(a) = i - 1
        BY <1>1, <1>2, <1>3, <2>2
      <4>2. QED
        BY <1>9, <4>1
    <3>2. j - (i - 1) \in 1..(Len(q) - i) /\ i + (j - (i - 1)) = j + 1
      BY <1>1, <2>2
    <3>3. b[j - (i - 1)] = q[j + 1]
      BY <1>3, <3>2
    <3>4. ~(j < i)
      BY <1>1, <2>2
    <3>5. QED
      BY <3>1, <3>3, <3>4
  <2>3. j < i \/ j >= i
    BY <1>1
  <2>4. QED
    BY <2>1, <2>2, <2>3
<1>7. DOMAIN (a \o b) = 1..Len(a \o b)
  BY <1>5
<1>8. QED
  BY <1>4, <1>5, <1>6, <1>7

\* Deleting a user's entry takes that user out of the queue and nobody else.
LEMMA UserTaken ==
  ASSUME NEW q \in Seq(Users), IsInjective(q), NEW u
  PROVE  /\ Without(q, u) \in Seq(Users) /\ IsInjective(Without(q, u))
         /\ ToSet(Without(q, u)) = ToSet(q) \ {u}
<1>1. CASE u \notin ToSet(q)
  BY <1>1 DEF Without
<1>2. CASE u \in ToSet(q)
  <2> DEFINE i == CHOOSE j \in DOMAIN q : q[j] = u
             r == RemoveAt(q, i)
  <2>1. i \in DOMAIN q /\ q[i] = u /\ Without(q, u) = r
    BY <1>2 DEF ToSet, Without
  <2> HIDE DEF i
  <2>2. /\ r \in Seq(Users) /\ DOMAIN r = 1..(Len(q) - 1)
        /\ \A j \in 1..(Len(q) - 1) : r[j] = IF j < i THEN q[j] ELSE q[j + 1]
    BY <2>1, EntryTaken
  <2> HIDE DEF r
  <2>3. i \in 1..Len(q) /\ Len(q) \in Nat /\ DOMAIN q = 1..Len(q)
    BY <2>1
  <2> DEFINE From(j) == IF j < i THEN j ELSE j + 1
  <2>4. \A j \in DOMAIN r : From(j) \in DOMAIN q /\ From(j) # i /\ r[j] = q[From(j)]
    BY <2>2, <2>3
  <2>5. \A j, k \in DOMAIN r : From(j) = From(k) => j = k
    BY <2>2, <2>3
  <2>6. \A k \in DOMAIN q : k # i => \E j \in DOMAIN r : From(j) = k
    <3> SUFFICES ASSUME NEW k \in DOMAIN q, k # i  PROVE \E j \in DOMAIN r : From(j) = k
      OBVIOUS
    <3>1. CASE k < i
      <4>1. k \in DOMAIN r /\ From(k) = k
        BY <2>2, <2>3, <3>1
      <4>2. QED
        BY <4>1
    <3>2. CASE k > i
      <4>1. k - 1 \in DOMAIN r /\ From(k - 1) = k
        BY <2>2, <2>3, <3>2
      <4>2. QED
        BY <4>1
    <3>3. QED
      BY <2>3, <3>1, <3>2
  <2> HIDE DEF From
  <2>7. IsInjective(r)
    BY <2>4, <2>5 DEF IsInjective
  <2>8. ToSet(r) = ToSet(q) \ {u}
    BY <2>1, <2>4, <2>6 DEF IsInjective, ToSet
  <2>9. QED
    BY <2>1, <2>2, <2>7, <2>8
<1>3. QED
  BY <1>1, <1>2

\* A queue whose users differ has as many users as entries.
LEMMA QueueCounts ==
  ASSUME NEW q \in Seq(Users), IsInjective(q)
  PROVE  Cardinality(ToSet(q)) = Len(q)
<1>1. Len(q) \in Nat /\ DOMAIN q = 1..Len(q)
  OBVIOUS
<1>2. q \in Bijection(1..Len(q), ToSet(q))
  BY <1>1 DEF Bijection, Injection, Surjection, IsInjective, ToSet
<1>3. ExistsBijection(1..Len(q), ToSet(q))
  BY <1>2 DEF ExistsBijection
<1>4. IsFiniteSet(1..Len(q)) /\ Cardinality(1..Len(q)) = Len(q)
  <2>1. 1 \in Int /\ Len(q) \in Int
    BY <1>1
  <2>2. /\ IsFiniteSet(1..Len(q))
        /\ Cardinality(1..Len(q)) = IF 1 > Len(q) THEN 0 ELSE Len(q) - 1 + 1
    BY <2>1, FS_Interval
  <2>3. QED
    BY <1>1, <2>2
<1>5. QED
  BY <1>3, <1>4, FS_Bijection
-----------------------------------------------------------------------------
(***************************************************************************)
(* What the steps do to a call's local state.                              *)
(***************************************************************************)
\* The fields of a call have the types of CallDocs.
LEMMA CallFields ==
  ASSUME TypeOK, NEW c \in Calls
  PROVE  /\ call \in [Calls -> CallDocs] /\ call[c] \in CallDocs
         /\ call[c].pc \in Labels /\ call[c].user \in Users /\ call[c].goal \in Goals
         /\ call[c].todo \in Seq(Users) /\ call[c].unfit \in SUBSET Users
         /\ call[c].locks \in SUBSET Users /\ call[c].target \in Calls
         /\ call[c].snap \in {"queued", "absent", "changed"} /\ call[c].made \in BOOLEAN
<1>1. call \in [Calls -> CallDocs]
  BY DEF TypeOK, CallDocs
<1>2. call[c] \in CallDocs
  BY <1>1
<1>3. QED
  BY <1>1, <1>2 DEF CallDocs

\* r is what a call becomes that is at the label l and holds no entry.
Freed(c, l, r) ==
  /\ r \in CallDocs /\ r.pc = l /\ r.user = Self(c) /\ r.locks = {}
  /\ ToSet(r.todo) \subseteq ToSet(call[c].todo)

\* A call that only moves, keeping nothing locked.
LEMMA GotoIs ==
  ASSUME TypeOK, NEW c \in Calls, NEW l \in Labels, Goto(c, l), call[c].locks = {}
  PROVE  \E r \in CallDocs : /\ call' = [call EXCEPT ![c] = r] /\ Freed(c, l, r)
                             /\ r.todo = call[c].todo /\ r.goal = call[c].goal
<1> DEFINE r == [call[c] EXCEPT !.pc = l]
<1>1. call[c] \in CallDocs
  BY CallFields
<1>2. /\ r \in CallDocs /\ r.pc = l /\ r.user = call[c].user /\ r.locks = {}
      /\ r.todo = call[c].todo /\ r.goal = call[c].goal
  BY <1>1 DEF CallDocs
<1>3. call' = [call EXCEPT ![c] = r]
  BY DEF Goto
<1> HIDE DEF r
<1>4. QED
  BY <1>2, <1>3 DEF Freed, Self

\* A transaction that ends rolls back: its locks go with it.
LEMMA ReleasedIs ==
  ASSUME TypeOK, NEW c \in Calls, NEW l \in Labels
  PROVE  \E r \in CallDocs : /\ Released(c, l) = [call EXCEPT ![c] = r] /\ Freed(c, l, r)
                             /\ r.todo = call[c].todo /\ r.goal = call[c].goal
<1> DEFINE r == [call[c] EXCEPT !.pc = l, !.locks = {}]
<1>1. call[c] \in CallDocs /\ call \in [Calls -> CallDocs]
  BY CallFields
<1>2. /\ r \in CallDocs /\ r.pc = l /\ r.user = call[c].user /\ r.locks = {}
      /\ r.todo = call[c].todo /\ r.goal = call[c].goal
  BY <1>1 DEF CallDocs
<1>3. Released(c, l) = [call EXCEPT ![c] = r]
  BY <1>1 DEF Released
<1> HIDE DEF r
<1>4. QED
  BY <1>2, <1>3 DEF Freed, Self

\* A call that is answered keeps nothing.
LEMMA ClosedIs ==
  ASSUME TypeOK, NEW c \in Calls
  PROVE  \E r \in CallDocs : Closed(c) = [call EXCEPT ![c] = r] /\ Freed(c, "done", r)
<1> DEFINE r == [call[c] EXCEPT !.pc = "done", !.locks = {}, !.todo = <<>>, !.unfit = {},
                                !.snap = "absent", !.target = c, !.made = FALSE]
<1>1. call[c] \in CallDocs /\ call \in [Calls -> CallDocs]
  BY CallFields
<1>2. "done" \in Labels /\ <<>> \in Seq(Users) /\ ToSet(<<>>) = {}
  BY DEF Labels, ToSet
<1>3. r \in CallDocs /\ r.pc = "done" /\ r.user = call[c].user /\ r.locks = {} /\ r.todo = <<>>
  BY <1>1, <1>2 DEF CallDocs
<1>4. Closed(c) = [call EXCEPT ![c] = r]
  BY <1>1 DEF Closed, Released
<1> HIDE DEF r
<1>5. QED
  BY <1>2, <1>3, <1>4 DEF Freed, Self

\* attemptMatch's catch goes on with the candidates that remain.
LEMMA NextCandidateIs ==
  ASSUME TypeOK, NEW c \in Calls, call[c].todo # <<>>
  PROVE  \E r \in CallDocs : /\ NextCandidate(c) = [call EXCEPT ![c] = r] /\ Freed(c, "pick", r)
                             /\ r.todo = Tail(call[c].todo) /\ r.goal = call[c].goal
<1> DEFINE r == [call[c] EXCEPT !.pc = "pick", !.locks = {}, !.todo = Tail(@), !.made = FALSE,
                                !.snap = "absent"]
<1>1. /\ call[c] \in CallDocs /\ call \in [Calls -> CallDocs]
      /\ call[c].todo \in Seq(Users)
  BY CallFields
<1>2. "pick" \in Labels /\ Tail(call[c].todo) \in Seq(Users)
      /\ ToSet(Tail(call[c].todo)) \subseteq ToSet(call[c].todo)
  BY <1>1, HeadAndTail DEF Labels
<1>3. /\ r \in CallDocs /\ r.pc = "pick" /\ r.user = call[c].user /\ r.locks = {}
      /\ r.todo = Tail(call[c].todo) /\ r.goal = call[c].goal
  BY <1>1, <1>2 DEF CallDocs
<1>4. NextCandidate(c) = [call EXCEPT ![c] = r]
  BY <1>1, ZenonT(40) DEF NextCandidate, Released
<1> HIDE DEF r
<1>5. QED
  BY <1>2, <1>3, <1>4 DEF Freed, Self

\* A commit changes nothing of the open calls but their view of an entry.
LEMMA TouchIs ==
  ASSUME NEW f \in [Calls -> CallDocs], NEW us
  PROVE  /\ Touch(f, us) \in [Calls -> CallDocs]
         /\ \A d \in Calls :
              /\ Touch(f, us)[d].pc = f[d].pc /\ Touch(f, us)[d].user = f[d].user
              /\ Touch(f, us)[d].todo = f[d].todo /\ Touch(f, us)[d].locks = f[d].locks
              /\ Touch(f, us)[d].pc = "self" /\ Touch(f, us)[d].snap = "queued" =>
                   f[d].snap = "queued" /\ f[d].user \notin us
<1>1. ASSUME NEW d \in Calls
      PROVE  /\ Touch(f, us)[d] \in CallDocs
             /\ Touch(f, us)[d].pc = f[d].pc /\ Touch(f, us)[d].user = f[d].user
             /\ Touch(f, us)[d].todo = f[d].todo /\ Touch(f, us)[d].locks = f[d].locks
             /\ Touch(f, us)[d].pc = "self" /\ Touch(f, us)[d].snap = "queued" =>
                  f[d].snap = "queued" /\ f[d].user \notin us
  <2>1. f[d] \in CallDocs
    OBVIOUS
  <2>2. CASE f[d].pc = "self" /\ f[d].user \in us /\ f[d].snap = "queued"
    <3>1. Touch(f, us)[d] = [f[d] EXCEPT !.snap = "changed"]
      BY <2>2 DEF Touch
    <3>2. QED
      BY <2>1, <3>1 DEF CallDocs
  <2>3. CASE ~(f[d].pc = "self" /\ f[d].user \in us /\ f[d].snap = "queued")
    <3>1. Touch(f, us)[d] = f[d]
      BY <2>3 DEF Touch
    <3>2. QED
      BY <2>1, <2>3, <3>1
  <2>4. QED
    BY <2>2, <2>3
<1>2. Touch(f, us) \in [Calls -> CallDocs]
  <2>1. Touch(f, us) = [d \in Calls |-> Touch(f, us)[d]]
    BY DEF Touch
  <2>2. QED
    BY <1>1, <2>1
<1>3. QED
  BY <1>1, <1>2
-----------------------------------------------------------------------------
(***************************************************************************)
(* What a step must keep.                                                  *)
(***************************************************************************)
\* A step of one call alone, which queues and matches nobody, keeps the
\* invariant when the call keeps its own part of it and locks nothing that
\* another call has locked.
LEMMA OwnStep ==
  ASSUME IInv, NEW c \in Calls, NEW r \in CallDocs, call' = [call EXCEPT ![c] = r], queue' = queue,
         \A u \in Users : ActiveOf(u)' \subseteq ActiveOf(u),
         CallSane(r), Seen(r),
         \A d \in Calls \ {c} : r.locks \cap call[d].locks = {}
  PROVE  Safe' /\ call' \in [Calls -> CallDocs]
<1>1. call \in [Calls -> CallDocs]
  BY DEF IInv, TypeOK, CallDocs
<1>2. call' \in [Calls -> CallDocs]
  BY <1>1
<1>3. \A d \in Calls : call'[d] = IF d = c THEN r ELSE call[d]
  BY <1>1
<1>4. IsInjective(queue)' /\ Queued' = Queued
  BY DEF IInv, Safe, Queued
<1>5. CallsSane'
  BY <1>3 DEF IInv, Safe, CallsSane
<1>6. \A d \in Calls : call[d].locks \in SUBSET Users
  BY <1>1 DEF CallDocs
<1>7. CallsSeen'
  <2> SUFFICES ASSUME NEW d \in Calls  PROVE Seen(call[d])'
    BY DEF CallsSeen
  <2> DEFINE s == call'[d]
  <2>1. s.locks \in SUBSET Users /\ Seen(s)
    BY <1>3, <1>6 DEF IInv, Safe, CallsSeen, CallDocs
  <2> HIDE DEF s
  <2>2. /\ s.locks \subseteq Queued'
        /\ s.pc = "self" /\ s.snap = "queued" => s.user \in Queued'
        /\ s.pc = "commit" => \A u \in s.locks : ActiveOf(u)' = {}
    BY <1>4, <2>1 DEF Seen
  <2>3. QED
    BY <2>2 DEF Seen, s
<1>8. LocksApart'
  BY <1>3 DEF IInv, Safe, LocksApart
<1>9. OneActive'
  BY DEF IInv, Safe, OneActive
<1>10. QED
  BY <1>2, <1>4, <1>5, <1>7, <1>8, <1>9 DEF Safe

\* A step of a call that leaves it without locks and outside a transaction's
\* second half.
LEMMA FreeStep ==
  ASSUME IInv, NEW c \in Calls, NEW l, NEW r \in CallDocs, call' = [call EXCEPT ![c] = r],
         Freed(c, l, r), l \notin {"self", "create", "commit"},
         l \in InTransaction => r.todo # <<>>,
         queue' = queue, \A u \in Users : ActiveOf(u)' \subseteq ActiveOf(u)
  PROVE  Safe' /\ call' \in [Calls -> CallDocs]
<1>1. CallSane(r)
  BY DEF IInv, Safe, CallsSane, CallSane, Freed, Held, Self
<1>2. Seen(r)
  BY DEF Freed, Seen
<1>3. \A d \in Calls \ {c} : r.locks \cap call[d].locks = {}
  BY DEF Freed
<1>4. QED
  BY <1>1, <1>2, <1>3, OwnStep

\* A step that commits changes of the entries of `us'.
LEMMA QueueStep ==
  ASSUME NEW f \in [Calls -> CallDocs], NEW us, call' = Touch(f, us),
         IsInjective(queue'), OneActive',
         \A d \in Calls : CallSane(f[d]),
         \A d \in Calls : f[d].locks \subseteq Queued',
         \A d, e \in Calls : d # e => f[d].locks \cap f[e].locks = {},
         \A d \in Calls : f[d].pc = "self" /\ f[d].snap = "queued" /\ f[d].user \notin us =>
                            f[d].user \in Queued',
         \A d \in Calls : f[d].pc = "commit" => \A u \in f[d].locks : ActiveOf(u)' = {}
  PROVE  Safe' /\ call' \in [Calls -> CallDocs]
<1>1. /\ call' \in [Calls -> CallDocs]
      /\ \A d \in Calls :
           /\ call'[d].pc = f[d].pc /\ call'[d].user = f[d].user
           /\ call'[d].todo = f[d].todo /\ call'[d].locks = f[d].locks
           /\ call'[d].pc = "self" /\ call'[d].snap = "queued" =>
                f[d].snap = "queued" /\ f[d].user \notin us
  BY TouchIs
<1>2. CallsSane'
  BY <1>1, ZenonT(40) DEF CallsSane, CallSane, Held
<1>3. CallsSeen'
  <2> SUFFICES ASSUME NEW d \in Calls  PROVE Seen(call[d])'
    BY DEF CallsSeen
  <2>1. call'[d].locks \subseteq Queued'
    BY <1>1
  <2>2. call'[d].pc = "self" /\ call'[d].snap = "queued" => call'[d].user \in Queued'
    BY <1>1
  <2>3. call'[d].pc = "commit" => \A u \in call'[d].locks : ActiveOf(u)' = {}
    BY <1>1
  <2>4. QED
    BY <2>1, <2>2, <2>3 DEF Seen
<1>4. LocksApart'
  BY <1>1 DEF LocksApart
<1>5. QED
  BY <1>1, <1>2, <1>3, <1>4 DEF Safe
-----------------------------------------------------------------------------
(***************************************************************************)
(* The steps outside attemptMatch.                                         *)
(***************************************************************************)
\* Only a call in the second half of a transaction holds an entry.
LEMMA NothingHeld ==
  ASSUME IInv, NEW c \in Calls, call[c].pc \notin {"self", "create", "commit"}
  PROVE  call[c].locks = {}
BY DEF IInv, Safe, CallsSane, CallSane, Held

\* Nobody joins a session in a step that leaves the sessions alone.
LEMMA SameSessions ==
  ASSUME sessions' = sessions
  PROVE  \A u \in Users : ActiveOf(u)' \subseteq ActiveOf(u)
BY DEF ActiveOf

\* An answer names sessions, or none.
LEMMA ReplyIs ==
  ASSUME TypeOK, NEW c \in Calls, NEW s \in SUBSET Calls,
         NEW state \in {"none", "waiting", "matched", "idle", "refused", "error"}, Reply(c, state, s)
  PROVE  answer' \in Answers
<1>1. [state |-> state, session |-> s] \in
        [state : {"none", "waiting", "matched", "idle", "refused", "error"}, session : SUBSET Calls]
  OBVIOUS
<1>2. answer \in Answers /\ answer' = [answer EXCEPT ![c] = [state |-> state, session |-> s]]
  BY DEF Reply, TypeOK, Answers
<1>3. QED
  BY <1>1, <1>2 DEF Answers

\* The controller's refusal, or the start of the service call, keeps the invariant.
LEMMA StartKeeps == ASSUME IInv, NEW c \in Calls, Start(c)  PROVE IInv'
<1>1. TypeOK /\ call[c].locks = {} /\ "find" \in Labels
  BY NothingHeld DEF IInv, Start, At, Labels
<1>2. queue' = queue /\ sessions' = sessions
  BY DEF Start
<1>3. Safe' /\ call' \in [Calls -> CallDocs]
  <2>1. CASE Goto(c, "find")
    <3>1. PICK r \in CallDocs : call' = [call EXCEPT ![c] = r] /\ Freed(c, "find", r)
      BY <1>1, <2>1, GotoIs
    <3>2. QED
      BY <1>2, <3>1, FreeStep, SameSessions DEF InTransaction
  <2>2. CASE call' = Closed(c)
    <3>1. PICK r \in CallDocs : Closed(c) = [call EXCEPT ![c] = r] /\ Freed(c, "done", r)
      BY <1>1, ClosedIs
    <3>2. QED
      BY <1>2, <2>2, <3>1, FreeStep, SameSessions DEF InTransaction
  <2>3. QED
    BY <2>1, <2>2 DEF Start
<1>4. answer' \in Answers
  <2>1. CASE answer' = answer
    BY <1>1, <2>1 DEF TypeOK, Answers
  <2>2. CASE Reply(c, "refused", {})
    BY <1>1, <2>2, ReplyIs
  <2>3. QED
    BY <2>1, <2>2 DEF Start
<1>5. TypeOK'
  BY <1>1, <1>2, <1>3, <1>4 DEF Start, TypeOK, CallDocs, Answers
<1>6. QED
  BY <1>3, <1>5 DEF IInv

\* Looking for a live session keeps the invariant: nothing is locked yet.
LEMMA FindKeeps == ASSUME IInv, NEW c \in Calls, Find(c)  PROVE IInv'
<1>1. /\ TypeOK /\ call[c].locks = {} /\ {"enqueue", "dequeue", "end"} \subseteq Labels
      /\ call[c].pc = "find"
  BY NothingHeld DEF IInv, Find, At, Labels
<1>2. queue' = queue /\ sessions' = sessions
  BY DEF Find
<1>3. call[c] \in CallDocs /\ call \in [Calls -> CallDocs]
  BY <1>1, CallFields
<1>4. \E r \in CallDocs, l \in Labels :
        call' = [call EXCEPT ![c] = r] /\ Freed(c, l, r) /\ l \notin InTransaction
  <2>1. CASE call' = Closed(c)
    <3>1. PICK r \in CallDocs : Closed(c) = [call EXCEPT ![c] = r] /\ Freed(c, "done", r)
      BY <1>1, ClosedIs
    <3>2. QED
      BY <2>1, <3>1 DEF InTransaction, Labels
  <2>2. ASSUME NEW s \in Calls, call' = [call EXCEPT ![c].pc = "end", ![c].target = s]
        PROVE  \E r \in CallDocs, l \in Labels :
                 call' = [call EXCEPT ![c] = r] /\ Freed(c, l, r) /\ l \notin InTransaction
    <3> DEFINE r == [call[c] EXCEPT !.pc = "end", !.target = s]
    <3>1. r \in CallDocs /\ r.pc = "end" /\ r.user = call[c].user /\ r.locks = {} /\ r.todo = call[c].todo
      BY <1>1, <1>3 DEF CallDocs
    <3>2. call' = [call EXCEPT ![c] = r]
      BY <1>3, <2>2
    <3> HIDE DEF r
    <3>3. Freed(c, "end", r)
      BY <3>1 DEF Freed, Self
    <3>4. QED
      BY <1>1, <3>1, <3>2, <3>3 DEF InTransaction
  <2>3. CASE Goto(c, "enqueue")
    <3>1. PICK r \in CallDocs : call' = [call EXCEPT ![c] = r] /\ Freed(c, "enqueue", r)
      BY <1>1, <2>3, GotoIs
    <3>2. QED
      BY <1>1, <3>1 DEF InTransaction
  <2>4. CASE Goto(c, "dequeue")
    <3>1. PICK r \in CallDocs : call' = [call EXCEPT ![c] = r] /\ Freed(c, "dequeue", r)
      BY <1>1, <2>4, GotoIs
    <3>2. QED
      BY <1>1, <3>1 DEF InTransaction
  <2>5. CASE call' = [call EXCEPT ![c].goal = "join"]
    <3> DEFINE r == [call[c] EXCEPT !.goal = "join"]
    <3>1. r \in CallDocs /\ r.pc = "find" /\ r.user = call[c].user /\ r.locks = {} /\ r.todo = call[c].todo
      BY <1>1, <1>3 DEF CallDocs, Goals
    <3>2. call' = [call EXCEPT ![c] = r]
      BY <1>3, <2>5
    <3> HIDE DEF r
    <3>3. Freed(c, "find", r) /\ "find" \in Labels
      BY <3>1 DEF Freed, Self, Labels
    <3>4. QED
      BY <3>1, <3>2, <3>3 DEF InTransaction
  <2>6. QED
    BY <2>1, <2>2, <2>3, <2>4, <2>5 DEF Find, ActiveOf
<1>5. Safe' /\ call' \in [Calls -> CallDocs]
  <2>1. PICK r \in CallDocs, l \in Labels :
               call' = [call EXCEPT ![c] = r] /\ Freed(c, l, r) /\ l \notin InTransaction
    BY <1>4
  <2>2. QED
    BY <1>2, <2>1, FreeStep, SameSessions DEF InTransaction
<1>6. answer' \in Answers
  <2>1. CASE answer' = answer
    BY <1>1, <2>1 DEF TypeOK, Answers
  <2>2. ASSUME NEW s \in Calls, Reply(c, "matched", {s})  PROVE answer' \in Answers
    BY <1>1, <2>2, ReplyIs
  <2>3. QED
    BY <2>1, <2>2 DEF Find, ActiveOf
<1>7. TypeOK'
  BY <1>1, <1>2, <1>5, <1>6 DEF Find, TypeOK, CallDocs, Answers
<1>8. QED
  BY <1>5, <1>7 DEF IInv

\* endSession only takes a session away from its two users.
LEMMA EndKeeps == ASSUME IInv, NEW c \in Calls, EndSession(c)  PROVE IInv'
<1>1. /\ TypeOK /\ call[c].locks = {} /\ {"dequeue", "find"} \subseteq Labels
      /\ call[c].target \in Calls
  BY NothingHeld, CallFields DEF IInv, EndSession, At, Labels
<1>2. queue' = queue
  BY DEF EndSession
<1>3. call[c] \in CallDocs /\ call \in [Calls -> CallDocs]
  BY <1>1, CallFields
<1>4. sessions' = [sessions EXCEPT ![call[c].target].status = "ended"]
  BY DEF EndSession
<1>5. \A s \in Calls : sessions'[s].who = sessions[s].who /\ sessions'[s].status \in {sessions[s].status, "ended"}
  BY <1>1, <1>4 DEF TypeOK
<1>6. \A u \in Users : ActiveOf(u)' \subseteq ActiveOf(u)
  BY <1>5 DEF ActiveOf
<1>7. \E r \in CallDocs, l \in Labels :
        call' = [call EXCEPT ![c] = r] /\ Freed(c, l, r) /\ l \notin InTransaction
  <2>1. CASE Goto(c, "dequeue")
    <3>1. PICK r \in CallDocs : call' = [call EXCEPT ![c] = r] /\ Freed(c, "dequeue", r)
      BY <1>1, <2>1, GotoIs
    <3>2. QED
      BY <1>1, <3>1 DEF InTransaction
  <2>2. CASE call' = [call EXCEPT ![c].goal = "join", ![c].pc = "find"]
    <3> DEFINE r == [call[c] EXCEPT !.goal = "join", !.pc = "find"]
    <3>1. r \in CallDocs /\ r.pc = "find" /\ r.user = call[c].user /\ r.locks = {} /\ r.todo = call[c].todo
      BY <1>1, <1>3 DEF CallDocs, Goals
    <3>2. call' = [call EXCEPT ![c] = r]
      BY <1>3, <2>2
    <3> HIDE DEF r
    <3>3. Freed(c, "find", r) /\ "find" \in Labels
      BY <3>1 DEF Freed, Self, Labels
    <3>4. QED
      BY <3>1, <3>2, <3>3 DEF InTransaction
  <2>3. QED
    BY <2>1, <2>2 DEF EndSession
<1>8. Safe' /\ call' \in [Calls -> CallDocs]
  <2>1. PICK r \in CallDocs, l \in Labels :
               call' = [call EXCEPT ![c] = r] /\ Freed(c, l, r) /\ l \notin InTransaction
    BY <1>7
  <2>2. QED
    BY <1>2, <1>6, <2>1, FreeStep DEF InTransaction
<1>9. sessions' \in [Calls -> [who : SUBSET Users, status : {"none", "matched", "ended"}]]
  <2>1. sessions \in [Calls -> [who : SUBSET Users, status : {"none", "matched", "ended"}]]
    BY <1>1 DEF TypeOK
  <2>2. [sessions[call[c].target] EXCEPT !.status = "ended"] \in
          [who : SUBSET Users, status : {"none", "matched", "ended"}]
    <3>1. sessions[call[c].target] \in [who : SUBSET Users, status : {"none", "matched", "ended"}]
      BY <1>1, <2>1
    <3>2. QED
      BY <3>1
  <2>3. QED
    BY <1>1, <1>4, <2>1, <2>2
<1>10. TypeOK'
  BY <1>1, <1>2, <1>8, <1>9 DEF EndSession, TypeOK, CallDocs
<1>11. QED
  BY <1>8, <1>10 DEF IInv

\* An entry that no transaction holds can go: a leave or a drop waits for it.
LEMMA EntryGone ==
  ASSUME IInv, NEW u \in Users, Unlocked(u), NEW f \in [Calls -> CallDocs],
         call' = Touch(f, {u}), queue' = Without(queue, u), sessions' = sessions,
         \A d \in Calls : \/ f[d] = call[d]
                          \/ CallSane(f[d]) /\ f[d].locks = {} /\ f[d].pc = "done"
  PROVE  Safe' /\ call' \in [Calls -> CallDocs] /\ queue' \in Seq(Users)
<1>1. queue \in Seq(Users) /\ IsInjective(queue) /\ CallsSane /\ CallsSeen /\ LocksApart /\ OneActive
  BY DEF IInv, Safe, TypeOK
<1>2. queue' \in Seq(Users) /\ IsInjective(queue') /\ Queued' = Queued \ {u}
  BY <1>1, UserTaken DEF Queued
<1>3. OneActive'
  BY <1>1 DEF OneActive, ActiveOf
<1>4. \A d \in Calls : CallSane(f[d])
  BY <1>1 DEF CallsSane
<1>5. \A d \in Calls : f[d].locks \subseteq Queued'
  BY <1>1, <1>2 DEF CallsSeen, Seen, Unlocked
<1>6. \A d, e \in Calls : d # e => f[d].locks \cap f[e].locks = {}
  BY <1>1 DEF LocksApart
<1>7. \A d \in Calls : f[d].pc = "self" /\ f[d].snap = "queued" /\ f[d].user \notin {u} =>
                         f[d].user \in Queued'
  BY <1>1, <1>2 DEF CallsSeen, Seen
<1>8. \A d \in Calls : f[d].pc = "commit" => \A v \in f[d].locks : ActiveOf(v)' = {}
  BY <1>1 DEF CallsSeen, Seen, ActiveOf
<1>9. QED
  BY <1>2, <1>3, <1>4, <1>5, <1>6, <1>7, <1>8, QueueStep

\* leave's deletion keeps the invariant.
LEMMA DequeueKeeps == ASSUME IInv, NEW c \in Calls, Dequeue(c)  PROVE IInv'
<1>1. TypeOK /\ call[c].locks = {} /\ Self(c) \in Users /\ call \in [Calls -> CallDocs]
  BY NothingHeld, CallFields DEF IInv, Dequeue, At, Self
<1>2. PICK u \in Users : u = Self(c)
  BY <1>1
<1>3. PICK r \in CallDocs : Closed(c) = [call EXCEPT ![c] = r] /\ Freed(c, "done", r)
  BY <1>1, ClosedIs
<1>4. CallSane(r) /\ r.locks = {} /\ r.pc = "done"
  BY <1>3 DEF IInv, Safe, CallsSane, CallSane, Freed, Held, Self, InTransaction
<1>5. PICK f \in [Calls -> CallDocs] : f = [call EXCEPT ![c] = r]
  BY <1>1
<1>6. Safe' /\ call' \in [Calls -> CallDocs] /\ queue' \in Seq(Users)
  <2>1. Unlocked(u) /\ call' = Touch(f, {u}) /\ queue' = Without(queue, u) /\ sessions' = sessions
    BY <1>2, <1>3, <1>5 DEF Dequeue
  <2>2. \A d \in Calls : \/ f[d] = call[d]
                         \/ CallSane(f[d]) /\ f[d].locks = {} /\ f[d].pc = "done"
    BY <1>1, <1>4, <1>5
  <2>3. QED
    BY <2>1, <2>2, EntryGone
<1>7. answer' \in Answers
  BY <1>1, ReplyIs DEF Dequeue
<1>8. left' \subseteq Users
  BY <1>1 DEF Dequeue, TypeOK
<1>9. TypeOK'
  BY <1>1, <1>6, <1>7, <1>8 DEF Dequeue, TypeOK, CallDocs, Answers
<1>10. QED
  BY <1>6, <1>9 DEF IInv

\* An unawaited deletion of an entry keeps the invariant.
LEMMA DropKeeps == ASSUME IInv, NEW u \in Users, Drop(u)  PROVE IInv'
<1>1. TypeOK /\ call \in [Calls -> CallDocs]
  BY DEF IInv, TypeOK, CallDocs
<1>2. PICK f \in [Calls -> CallDocs] : f = call
  BY <1>1
<1>3. Safe' /\ call' \in [Calls -> CallDocs] /\ queue' \in Seq(Users)
  <2>1. Unlocked(u) /\ call' = Touch(f, {u}) /\ queue' = Without(queue, u) /\ sessions' = sessions
    BY <1>2 DEF Drop
  <2>2. \A d \in Calls : f[d] = call[d]
    BY <1>2
  <2>3. QED
    BY <2>1, <2>2, EntryGone
<1>4. TypeOK'
  BY <1>1, <1>3 DEF Drop, TypeOK, CallDocs
<1>5. QED
  BY <1>3, <1>4 DEF IInv

\* enqueue keeps the invariant: it adds an entry only where there is none.
LEMMA EnqueueKeeps == ASSUME IInv, NEW c \in Calls, Enqueue(c)  PROVE IInv'
<1>1. /\ TypeOK /\ call[c].locks = {} /\ Self(c) \in Users /\ call \in [Calls -> CallDocs]
      /\ "scan" \in Labels /\ queue \in Seq(Users)
  BY NothingHeld, CallFields DEF IInv, Enqueue, At, Self, TypeOK, Labels
<1>2. sessions' = sessions
  BY DEF Enqueue
<1>3. Safe' /\ call' \in [Calls -> CallDocs] /\ queue' \in Seq(Users)
  <2>1. CASE Goto(c, "scan") /\ queue' = queue
    <3>1. PICK r \in CallDocs : call' = [call EXCEPT ![c] = r] /\ Freed(c, "scan", r)
      BY <1>1, <2>1, GotoIs
    <3>2. QED
      BY <1>1, <1>2, <2>1, <3>1, FreeStep, SameSessions DEF InTransaction
  <2>2. CASE /\ Self(c) \notin Queued /\ queue' = Append(queue, Self(c))
             /\ call' = Touch([call EXCEPT ![c].pc = "scan"], {Self(c)})
    <3>1. PICK u \in Users : u = Self(c)
      BY <1>1
    <3>2. PICK r \in CallDocs : r = [call[c] EXCEPT !.pc = "scan"]
      <4>1. call[c] \in CallDocs
        BY <1>1
      <4>2. [call[c] EXCEPT !.pc = "scan"] \in CallDocs
        BY <1>1, <4>1 DEF CallDocs
      <4>3. QED
        BY <4>2
    <3>3. PICK f \in [Calls -> CallDocs] : f = [call EXCEPT ![c] = r]
      BY <1>1
    <3>4. call' = Touch(f, {u})
      BY <1>1, <2>2, <3>1, <3>2, <3>3
    <3>5. queue' \in Seq(Users) /\ queue' = Append(queue, u)
      BY <1>1, <2>2, <3>1
    <3>6. \A i \in DOMAIN queue' : queue'[i] = IF i = Len(queue) + 1 THEN u ELSE queue[i]
      BY <1>1, <3>5
    <3>7. DOMAIN queue' = 1..(Len(queue) + 1) /\ DOMAIN queue = 1..Len(queue) /\ Len(queue) \in Nat
      BY <1>1, <3>5
    <3>8. \A i \in DOMAIN queue' : i # Len(queue) + 1 => i \in DOMAIN queue
      BY <3>7
    <3>9. DOMAIN queue \subseteq DOMAIN queue' /\ Len(queue) + 1 \in DOMAIN queue'
          /\ Len(queue) + 1 \notin DOMAIN queue
      BY <3>7
    <3>10. u \notin ToSet(queue) /\ IsInjective(queue)
      BY <2>2, <3>1 DEF Queued, IInv, Safe
    <3>11. IsInjective(queue')
      BY <3>6, <3>8, <3>10 DEF IsInjective, ToSet
    <3>12. Queued \subseteq Queued' /\ u \in Queued'
      BY <3>6, <3>9 DEF Queued, ToSet
    <3>13. OneActive'
      BY <1>2 DEF IInv, Safe, OneActive, ActiveOf
    <3>14. /\ r.pc = "scan" /\ r.locks = {} /\ r.user = call[c].user /\ r.todo = call[c].todo
           /\ call[c] \in CallDocs
      BY <1>1, <3>2 DEF CallDocs
    <3>15. \A d \in Calls : f[d] = IF d = c THEN r ELSE call[d]
      BY <1>1, <3>3
    <3>16. \A d \in Calls : CallSane(f[d])
      <4>1. CallSane(r)
        BY <3>14 DEF IInv, Safe, CallsSane, CallSane, Held, InTransaction
      <4>2. QED
        BY <3>15, <4>1 DEF IInv, Safe, CallsSane
    <3>17. \A d \in Calls : f[d].locks \subseteq Queued'
      BY <3>12, <3>14, <3>15 DEF IInv, Safe, CallsSeen, Seen
    <3>18. \A d, e \in Calls : d # e => f[d].locks \cap f[e].locks = {}
      BY <3>14, <3>15 DEF IInv, Safe, LocksApart
    <3>19. \A d \in Calls : f[d].pc = "self" /\ f[d].snap = "queued" /\ f[d].user \notin {u} =>
                              f[d].user \in Queued'
      BY <3>12, <3>14, <3>15 DEF IInv, Safe, CallsSeen, Seen
    <3>20. \A d \in Calls : f[d].pc = "commit" => \A v \in f[d].locks : ActiveOf(v)' = {}
      BY <1>2, <3>14, <3>15 DEF IInv, Safe, CallsSeen, Seen, ActiveOf
    <3>21. QED
      BY <3>4, <3>5, <3>11, <3>13, <3>16, <3>17, <3>18, <3>19, <3>20, QueueStep
  <2>3. QED
    BY <2>1, <2>2 DEF Enqueue
<1>4. TypeOK'
  BY <1>1, <1>3 DEF Enqueue, TypeOK, CallDocs
<1>5. QED
  BY <1>3, <1>4 DEF IInv

\* A lost drop and the staff's action touch no queue, session or call.
LEMMA AsideKeeps ==
  ASSUME IInv, NEW u \in Users, DropLost(u) \/ Moderate(u)  PROVE IInv'
<1>1. queue' = queue /\ sessions' = sessions /\ call' = call
  BY DEF DropLost, Moderate
<1>2. Safe'
  BY <1>1 DEF IInv, Safe, CallsSane, CallsSeen, Seen, LocksApart, OneActive, ActiveOf, Queued
<1>3. standing' \in [Users -> {"good", "barred", "restored"}]
  BY DEF DropLost, Moderate, IInv, TypeOK
<1>4. TypeOK'
  BY <1>1, <1>3 DEF DropLost, Moderate, IInv, TypeOK
<1>5. QED
  BY <1>2, <1>4 DEF IInv

\* A call that dies has its transaction rolled back.
LEMMA AbandonKeeps == ASSUME IInv, NEW c \in Calls, Abandon(c)  PROVE IInv'
<1>1. TypeOK /\ Self(c) \in Users
  BY CallFields DEF IInv, Self
<1>2. PICK r \in CallDocs : Closed(c) = [call EXCEPT ![c] = r] /\ Freed(c, "done", r)
  BY <1>1, ClosedIs
<1>3. queue' = queue /\ sessions' = sessions /\ call' = Closed(c)
  BY DEF Abandon
<1>4. Safe' /\ call' \in [Calls -> CallDocs]
  BY <1>2, <1>3, FreeStep, SameSessions DEF InTransaction
<1>5. answer' \in Answers
  BY <1>1, ReplyIs DEF Abandon
<1>6. spoiled' \subseteq Users
  BY <1>1 DEF Abandon, TypeOK
<1>7. TypeOK'
  BY <1>1, <1>3, <1>4, <1>5, <1>6 DEF Abandon, TypeOK, CallDocs, Answers
<1>8. QED
  BY <1>4, <1>7 DEF IInv
-----------------------------------------------------------------------------
(***************************************************************************)
(* attemptMatch.                                                           *)
(***************************************************************************)
\* The scan leaves the caller's own entry out.
LEMMA ScanKeeps == ASSUME IInv, NEW c \in Calls, Scan(c)  PROVE IInv'
<1>1. /\ TypeOK /\ call[c].locks = {} /\ Self(c) \in Users /\ call[c].pc = "scan"
      /\ call \in [Calls -> CallDocs] /\ call[c] \in CallDocs /\ "load" \in Labels
  BY NothingHeld, CallFields DEF IInv, Scan, At, Self, Labels
<1>2. queue' = queue /\ sessions' = sessions
  BY DEF Scan
<1>3. Others(c) \in Seq(Users) /\ Self(c) \notin ToSet(Others(c))
  BY UserTaken DEF Others, IInv, Safe, TypeOK
<1>4. PICK some \in Seq(Users) :
        /\ some = SubSeq(Others(c), 1, IF Len(Others(c)) < MaxScan THEN Len(Others(c)) ELSE MaxScan)
        /\ ToSet(some) \subseteq ToSet(Others(c))
  <2>1. CASE Len(Others(c)) < MaxScan
    <3>1. Len(Others(c)) \in Nat /\ Len(Others(c)) <= Len(Others(c))
      BY <1>3
    <3>2. QED
      BY <1>3, <2>1, <3>1, Beginning
  <2>2. CASE ~(Len(Others(c)) < MaxScan)
    <3>1. MaxScan \in Nat /\ MaxScan <= Len(Others(c))
      BY <1>3, <2>2
    <3>2. QED
      BY <1>3, <2>2, <3>1, Beginning
  <2>3. QED
    BY <2>1, <2>2
<1> DEFINE r == [call[c] EXCEPT !.pc = "load", !.todo = some]
<1>5. r \in CallDocs /\ r.pc = "load" /\ r.user = call[c].user /\ r.locks = {} /\ r.todo = some
  BY <1>1 DEF CallDocs
<1>6. call' = [call EXCEPT ![c] = r]
  BY <1>1, <1>4 DEF Scan
<1> HIDE DEF r
<1>7. CallSane(r)
  BY <1>3, <1>4, <1>5 DEF CallSane, Held, InTransaction, Self
<1>8. Seen(r)
  BY <1>5 DEF Seen
<1>9. Safe' /\ call' \in [Calls -> CallDocs]
  <2>1. \A d \in Calls \ {c} : r.locks \cap call[d].locks = {}
    BY <1>5
  <2>2. QED
    BY <1>2, <1>5, <1>6, <1>7, <1>8, <2>1, OwnStep, SameSessions
<1>10. TypeOK'
  BY <1>1, <1>9 DEF Scan, TypeOK, CallDocs
<1>11. QED
  BY <1>9, <1>10 DEF IInv

\* Reading who is eligible changes one list.
LEMMA LoadKeeps == ASSUME IInv, NEW c \in Calls, Load(c)  PROVE IInv'
<1>1. /\ TypeOK /\ call[c].locks = {} /\ call[c].todo \in Seq(Users)
      /\ call \in [Calls -> CallDocs] /\ call[c] \in CallDocs /\ "pick" \in Labels
  BY NothingHeld, CallFields DEF IInv, Load, At, Labels
<1>2. queue' = queue /\ sessions' = sessions
  BY DEF Load
<1>3. PICK gone \in SUBSET Users : gone = {u \in ToSet(call[c].todo) : standing[u] = "barred"}
  <2>1. ToSet(call[c].todo) \subseteq Users
    BY <1>1 DEF ToSet
  <2>2. QED
    BY <2>1
<1> DEFINE r == [call[c] EXCEPT !.pc = "pick", !.unfit = gone]
<1>4. /\ r \in CallDocs /\ r.pc = "pick" /\ r.user = call[c].user /\ r.locks = {}
      /\ r.todo = call[c].todo
  BY <1>1 DEF CallDocs
<1>5. call' = [call EXCEPT ![c] = r]
  BY <1>1, <1>3 DEF Load
<1> HIDE DEF r
<1>6. Freed(c, "pick", r)
  BY <1>4 DEF Freed, Self
<1>7. Safe' /\ call' \in [Calls -> CallDocs]
  BY <1>2, <1>4, <1>5, <1>6, FreeStep, SameSessions DEF InTransaction
<1>8. TypeOK'
  BY <1>1, <1>7 DEF Load, TypeOK, CallDocs
<1>9. QED
  BY <1>7, <1>8 DEF IInv

\* A candidate is one of the queue's users, and not the caller.
LEMMA CandidateIs ==
  ASSUME IInv, NEW c \in Calls, call[c].todo # <<>>
  PROVE  Candidate(c) \in Users /\ Candidate(c) # Self(c) /\ Pair(c) \subseteq Users
<1>1. call[c].todo \in Seq(Users) /\ Self(c) \in Users /\ Self(c) \notin ToSet(call[c].todo)
  BY CallFields DEF IInv, Safe, CallsSane, CallSane, Self
<1>2. Candidate(c) \in Users /\ Candidate(c) \in ToSet(call[c].todo)
  BY <1>1, HeadAndTail DEF Candidate
<1>3. QED
  BY <1>1, <1>2 DEF Pair

\* One turn of the loop keeps the invariant.
LEMMA PickKeeps == ASSUME IInv, NEW c \in Calls, Pick(c)  PROVE IInv'
<1>1. TypeOK /\ call[c].locks = {} /\ "claim" \in Labels
  BY NothingHeld DEF IInv, Pick, At, Labels
<1>2. queue' = queue /\ sessions' = sessions
  BY DEF Pick
<1>3. Safe' /\ call' \in [Calls -> CallDocs]
  <2>1. CASE call' = Closed(c)
    <3>1. PICK r \in CallDocs : Closed(c) = [call EXCEPT ![c] = r] /\ Freed(c, "done", r)
      BY <1>1, ClosedIs
    <3>2. QED
      BY <1>2, <2>1, <3>1, FreeStep, SameSessions DEF InTransaction
  <2>2. CASE call[c].todo # <<>> /\ call' = NextCandidate(c)
    <3>1. PICK r \in CallDocs : NextCandidate(c) = [call EXCEPT ![c] = r] /\ Freed(c, "pick", r)
      BY <1>1, <2>2, NextCandidateIs
    <3>2. QED
      BY <1>2, <2>2, <3>1, FreeStep, SameSessions DEF InTransaction
  <2>3. CASE call[c].todo # <<>> /\ Goto(c, "claim")
    <3>1. PICK r \in CallDocs : /\ call' = [call EXCEPT ![c] = r] /\ Freed(c, "claim", r)
                                /\ r.todo = call[c].todo
      BY <1>1, <2>3, GotoIs
    <3>2. QED
      BY <1>2, <2>3, <3>1, FreeStep, SameSessions DEF InTransaction
  <2>4. QED
    BY <2>1, <2>2, <2>3 DEF Pick
<1>4. answer' \in Answers
  <2>1. CASE answer' = answer
    BY <1>1, <2>1 DEF TypeOK, Answers
  <2>2. CASE Reply(c, "waiting", {})
    BY <1>1, <2>2, ReplyIs
  <2>3. QED
    BY <2>1, <2>2 DEF Pick
<1>5. drops' \subseteq Users
  BY <1>1, CandidateIs DEF Pick, TypeOK
<1>6. TypeOK'
  BY <1>1, <1>2, <1>3, <1>4, <1>5 DEF Pick, TypeOK, CallDocs, Answers
<1>7. QED
  BY <1>3, <1>6 DEF IInv

\* The first deletion locks an entry that no other transaction holds.
LEMMA ClaimOtherKeeps == ASSUME IInv, NEW c \in Calls, ClaimOther(c)  PROVE IInv'
<1>1. /\ TypeOK /\ Self(c) \in Users /\ call[c].pc = "claim" /\ call[c].todo # <<>>
      /\ call \in [Calls -> CallDocs] /\ call[c] \in CallDocs /\ "self" \in Labels
  BY CallFields DEF IInv, Safe, CallsSane, CallSane, ClaimOther, At, Self, Labels, InTransaction
<1>2. queue' = queue /\ sessions' = sessions
  BY DEF ClaimOther
<1>3. Safe' /\ call' \in [Calls -> CallDocs]
  <2>1. CASE call' = Closed(c)
    <3>1. PICK r \in CallDocs : Closed(c) = [call EXCEPT ![c] = r] /\ Freed(c, "done", r)
      BY <1>1, ClosedIs
    <3>2. QED
      BY <1>2, <2>1, <3>1, FreeStep, SameSessions DEF InTransaction
  <2>2. CASE call' = NextCandidate(c)
    <3>1. PICK r \in CallDocs : NextCandidate(c) = [call EXCEPT ![c] = r] /\ Freed(c, "pick", r)
      BY <1>1, NextCandidateIs
    <3>2. QED
      BY <1>2, <2>2, <3>1, FreeStep, SameSessions DEF InTransaction
  <2>3. CASE /\ Candidate(c) \in Queued /\ Unlocked(Candidate(c))
             /\ call' = [call EXCEPT ![c].pc = "self", ![c].locks = {Candidate(c)},
                                     ![c].snap = IF Self(c) \in Queued THEN "queued" ELSE "absent"]
    <3> DEFINE r == [call[c] EXCEPT !.pc = "self", !.locks = {Candidate(c)},
                                    !.snap = IF Self(c) \in Queued THEN "queued" ELSE "absent"]
    <3>1. Candidate(c) \in Users
      BY <1>1, CandidateIs
    <3>2. /\ r \in CallDocs /\ r.pc = "self" /\ r.user = call[c].user /\ r.locks = {Candidate(c)}
          /\ r.todo = call[c].todo /\ (r.snap = "queued" => Self(c) \in Queued)
      BY <1>1, <3>1 DEF CallDocs
    <3>3. call' = [call EXCEPT ![c] = r]
      BY <1>1, <2>3
    <3> HIDE DEF r
    <3>4. CallSane(r)
      BY <1>1, <3>2 DEF IInv, Safe, CallsSane, CallSane, Held, Candidate
    <3>5. Seen(r)
      BY <2>3, <3>2 DEF Seen, Self
    <3>6. \A d \in Calls \ {c} : r.locks \cap call[d].locks = {}
      BY <2>3, <3>2 DEF Unlocked
    <3>7. QED
      BY <1>2, <3>2, <3>3, <3>4, <3>5, <3>6, OwnStep, SameSessions
  <2>4. QED
    BY <2>1, <2>2, <2>3 DEF ClaimOther
<1>4. answer' \in Answers
  <2>1. CASE answer' = answer
    BY <1>1, <2>1 DEF TypeOK, Answers
  <2>2. CASE Reply(c, "matched", {c})
    BY <1>1, <2>2, ReplyIs
  <2>3. QED
    BY <2>1, <2>2 DEF ClaimOther
<1>5. spoiled' \subseteq Users
  BY <1>1 DEF ClaimOther, TypeOK
<1>6. TypeOK'
  BY <1>1, <1>2, <1>3, <1>4, <1>5 DEF ClaimOther, TypeOK, CallDocs, Answers
<1>7. QED
  BY <1>3, <1>6 DEF IInv

\* A call past the claim of its candidate: what it is, and what it holds.
LEMMA InsideTransaction ==
  ASSUME IInv, NEW c \in Calls, call[c].pc \in InTransaction
  PROVE  /\ TypeOK /\ call[c].todo # <<>> /\ call[c] \in CallDocs /\ call \in [Calls -> CallDocs]
         /\ Self(c) \in Users /\ Candidate(c) \in Users /\ Candidate(c) # Self(c)
         /\ Pair(c) \subseteq Users /\ Self(c) \notin ToSet(call[c].todo)
         /\ call[c].pc = "self" => call[c].locks = {Candidate(c)}
         /\ call[c].pc \in {"create", "commit"} => call[c].locks = Pair(c)
         /\ call[c].locks \subseteq Queued
<1>1. call[c].todo # <<>> /\ CallSane(call[c]) /\ Seen(call[c])
  BY DEF IInv, Safe, CallsSane, CallSane, CallsSeen
<1>2. /\ TypeOK /\ call[c] \in CallDocs /\ call \in [Calls -> CallDocs] /\ Self(c) \in Users
      /\ Candidate(c) \in Users /\ Candidate(c) # Self(c) /\ Pair(c) \subseteq Users
  BY <1>1, CallFields, CandidateIs DEF IInv, Self
<1>3. QED
  BY <1>1, <1>2 DEF CallSane, Held, Seen, Self, Candidate, Pair

\* A transaction that is given up, or that its driver runs again.
LEMMA RolledBack ==
  ASSUME IInv, NEW c \in Calls, call[c].pc \in InTransaction,
         queue' = queue, sessions' = sessions,
         call' = NextCandidate(c) \/ call' = Released(c, "claim")
  PROVE  Safe' /\ call' \in [Calls -> CallDocs]
<1>1. TypeOK /\ call[c].todo # <<>> /\ "claim" \in Labels
  BY InsideTransaction DEF Labels
<1>2. CASE call' = NextCandidate(c)
  <2>1. PICK r \in CallDocs : NextCandidate(c) = [call EXCEPT ![c] = r] /\ Freed(c, "pick", r)
    BY <1>1, NextCandidateIs
  <2>2. QED
    BY <1>2, <2>1, FreeStep, SameSessions DEF InTransaction
<1>3. CASE call' = Released(c, "claim")
  <2>1. PICK r \in CallDocs : /\ Released(c, "claim") = [call EXCEPT ![c] = r]
                              /\ Freed(c, "claim", r) /\ r.todo = call[c].todo
    BY <1>1, ReleasedIs
  <2>2. QED
    BY <1>1, <1>3, <2>1, FreeStep, SameSessions DEF InTransaction
<1>4. QED
  BY <1>2, <1>3

\* The second deletion claims the caller's own entry, or nothing.
LEMMA ClaimSelfKeeps == ASSUME IInv, NEW c \in Calls, ClaimSelf(c)  PROVE IInv'
<1>1. call[c].pc = "self" /\ call[c].pc \in InTransaction /\ "create" \in Labels
  BY DEF ClaimSelf, At, InTransaction, Labels
<1>2. queue' = queue /\ sessions' = sessions
  BY DEF ClaimSelf
<1>3. /\ TypeOK /\ call[c].todo # <<>> /\ call[c] \in CallDocs /\ call \in [Calls -> CallDocs]
      /\ Pair(c) \subseteq Users /\ Self(c) \notin ToSet(call[c].todo)
      /\ call[c].locks = {Candidate(c)} /\ call[c].locks \subseteq Queued
  BY <1>1, InsideTransaction
<1>4. Safe' /\ call' \in [Calls -> CallDocs]
  <2>1. CASE call' = NextCandidate(c) \/ call' = Released(c, "claim")
    BY <1>1, <1>2, <2>1, RolledBack
  <2>2. CASE /\ call[c].snap = "queued" /\ Unlocked(Self(c))
             /\ call' = [call EXCEPT ![c].pc = "create", ![c].locks = Pair(c)]
    <3> DEFINE r == [call[c] EXCEPT !.pc = "create", !.locks = Pair(c)]
    <3>1. /\ r \in CallDocs /\ r.pc = "create" /\ r.user = Self(c) /\ r.locks = Pair(c)
          /\ r.todo = call[c].todo
      BY <1>1, <1>3 DEF CallDocs, Self
    <3>2. call' = [call EXCEPT ![c] = r]
      BY <1>3, <2>2
    <3> HIDE DEF r
    <3>3. CallSane(r)
      BY <1>3, <3>1 DEF CallSane, Held, Pair, Candidate
    <3>4. Self(c) \in Queued
      BY <1>1, <2>2 DEF IInv, Safe, CallsSeen, Seen, Self
    <3>5. Seen(r)
      BY <1>3, <3>1, <3>4 DEF Seen, Pair
    <3>6. \A d \in Calls \ {c} : r.locks \cap call[d].locks = {}
      BY <1>3, <2>2, <3>1 DEF Unlocked, Pair, IInv, Safe, LocksApart
    <3>7. QED
      BY <1>2, <3>1, <3>2, <3>3, <3>5, <3>6, OwnStep, SameSessions
  <2>3. QED
    BY <2>1, <2>2 DEF ClaimSelf
<1>5. TypeOK'
  BY <1>3, <1>4 DEF ClaimSelf, TypeOK, CallDocs
<1>6. QED
  BY <1>4, <1>5 DEF IInv

\* The session is created only where the unique index finds no live one.
LEMMA CreateKeeps == ASSUME IInv, NEW c \in Calls, Create(c)  PROVE IInv'
<1>1. call[c].pc = "create" /\ call[c].pc \in InTransaction /\ "commit" \in Labels
  BY DEF Create, At, InTransaction, Labels
<1>2. queue' = queue /\ sessions' = sessions
  BY DEF Create
<1>3. /\ TypeOK /\ call[c].todo # <<>> /\ call[c] \in CallDocs /\ call \in [Calls -> CallDocs]
      /\ Pair(c) \subseteq Users /\ Self(c) \notin ToSet(call[c].todo)
      /\ call[c].locks = Pair(c) /\ call[c].locks \subseteq Queued
  BY <1>1, InsideTransaction
<1>4. Safe' /\ call' \in [Calls -> CallDocs]
  <2>1. CASE call' = NextCandidate(c) \/ call' = Released(c, "claim")
    BY <1>1, <1>2, <2>1, RolledBack
  <2>2. CASE /\ \A u \in Pair(c) : ActiveOf(u) = {}
             /\ call' = [call EXCEPT ![c].pc = "commit", ![c].made = TRUE]
    <3> DEFINE r == [call[c] EXCEPT !.pc = "commit", !.made = TRUE]
    <3>1. /\ r \in CallDocs /\ r.pc = "commit" /\ r.user = Self(c) /\ r.locks = Pair(c)
          /\ r.todo = call[c].todo
      BY <1>1, <1>3 DEF CallDocs, Self
    <3>2. call' = [call EXCEPT ![c] = r]
      BY <1>3, <2>2
    <3> HIDE DEF r
    <3>3. CallSane(r)
      BY <1>3, <3>1 DEF CallSane, Held, Pair, Candidate
    <3>4. Seen(r)
      BY <1>3, <2>2, <3>1 DEF Seen
    <3>5. \A d \in Calls \ {c} : r.locks \cap call[d].locks = {}
      BY <1>3, <3>1 DEF IInv, Safe, LocksApart
    <3>6. QED
      BY <1>2, <3>1, <3>2, <3>3, <3>4, <3>5, OwnStep, SameSessions
  <2>3. QED
    BY <2>1, <2>2 DEF Create
<1>5. spoiled' \subseteq Users
  BY <1>3 DEF Create, TypeOK
<1>6. TypeOK'
  BY <1>3, <1>4, <1>5 DEF Create, TypeOK, CallDocs
<1>7. QED
  BY <1>4, <1>6 DEF IInv

\* A transaction that is run again, or given up, leaves everything as it was.
LEMMA RollbackKeeps ==
  ASSUME IInv, NEW c \in Calls, CommitAborted(c) \/ TransactionFails(c)  PROVE IInv'
<1>1. call[c].pc \in InTransaction /\ queue' = queue /\ sessions' = sessions
  BY DEF CommitAborted, TransactionFails, At, InTransaction
<1>2. TypeOK /\ Pair(c) \subseteq Users
  BY <1>1, InsideTransaction
<1>3. Safe' /\ call' \in [Calls -> CallDocs]
  BY <1>1, RolledBack DEF CommitAborted, TransactionFails
<1>4. spoiled' \subseteq Users
  BY <1>2 DEF CommitAborted, TransactionFails, TypeOK
<1>5. TypeOK'
  BY <1>2, <1>3, <1>4 DEF CommitAborted, TransactionFails, TypeOK, CallDocs
<1>6. QED
  BY <1>3, <1>5 DEF IInv

\* What a commit does to the queue and to the sessions: the two users leave the
\* one and enter the other, where they were in none.
LEMMA MatchIs ==
  ASSUME IInv, NEW c \in Calls, At(c, "commit"), Matched(c)
  PROVE  /\ call[c].locks = Pair(c) /\ Pair(c) \subseteq Queued
         /\ queue' \in Seq(Users) /\ IsInjective(queue') /\ Queued' = Queued \ Pair(c)
         /\ sessions' \in [Calls -> [who : SUBSET Users, status : {"none", "matched", "ended"}]]
         /\ OneActive'
         /\ \A u \in Users \ Pair(c) : ActiveOf(u)' = ActiveOf(u)
<1>1. call[c].pc = "commit" /\ call[c].pc \in InTransaction
  BY DEF At, InTransaction
<1>2. /\ TypeOK /\ Self(c) \in Users /\ Candidate(c) \in Users /\ Pair(c) \subseteq Users
      /\ call[c].locks = Pair(c) /\ Pair(c) \subseteq Queued
  BY <1>1, InsideTransaction
<1>3. queue \in Seq(Users) /\ IsInjective(queue)
  BY <1>2 DEF TypeOK, IInv, Safe
<1>4. PICK one \in Seq(Users) :
        one = Without(queue, Candidate(c)) /\ IsInjective(one) /\ ToSet(one) = Queued \ {Candidate(c)}
  BY <1>3, UserTaken DEF Queued
<1>5. PICK two \in Seq(Users) :
        two = Without(one, Self(c)) /\ IsInjective(two) /\ ToSet(two) = ToSet(one) \ {Self(c)}
  BY <1>4, UserTaken
<1>6. queue' = two
  BY <1>4, <1>5 DEF Matched
<1>7. Queued' = Queued \ Pair(c)
  BY <1>4, <1>5, <1>6 DEF Queued, Pair
<1>8. PICK new \in [who : SUBSET Users, status : {"none", "matched", "ended"}] :
        new = [who |-> Pair(c), status |-> "matched"] /\ new.who = Pair(c) /\ new.status = "matched"
  <2>1. [who |-> Pair(c), status |-> "matched"] \in
          [who : SUBSET Users, status : {"none", "matched", "ended"}]
    BY <1>2
  <2>2. QED
    BY <2>1
<1>9. /\ sessions \in [Calls -> [who : SUBSET Users, status : {"none", "matched", "ended"}]]
      /\ sessions' = [sessions EXCEPT ![c] = new] /\ sessions[c].status = "none"
  BY <1>2, <1>8 DEF Matched, TypeOK, NoSession
<1>10. \A s \in Calls : sessions'[s] = IF s = c THEN new ELSE sessions[s]
  BY <1>9
<1>11. \A u \in Users \ Pair(c) : ActiveOf(u)' = ActiveOf(u)
  BY <1>8, <1>9, <1>10 DEF ActiveOf
<1>12. \A u \in Pair(c) : ActiveOf(u) = {}
  BY <1>1, <1>2 DEF IInv, Safe, CallsSeen, Seen
<1>13. \A u \in Pair(c) : ActiveOf(u)' = {c}
  BY <1>8, <1>10, <1>12 DEF ActiveOf
<1>14. OneActive'
  <2> SUFFICES ASSUME NEW u \in Users  PROVE \A s, t \in ActiveOf(u)' : s = t
    BY DEF OneActive
  <2>1. CASE u \in Pair(c)
    BY <1>13, <2>1
  <2>2. CASE u \notin Pair(c)
    BY <1>11, <2>2 DEF IInv, Safe, OneActive
  <2>3. QED
    BY <2>1, <2>2
<1>15. sessions' \in [Calls -> [who : SUBSET Users, status : {"none", "matched", "ended"}]]
  BY <1>8, <1>9
<1>16. QED
  BY <1>2, <1>5, <1>6, <1>7, <1>11, <1>14, <1>15

\* The commit keeps the invariant: what it takes, no other transaction holds.
LEMMA MatchStep ==
  ASSUME IInv, NEW c \in Calls, At(c, "commit"), Matched(c), NEW l \in {"done", "pick"},
         NEW r \in CallDocs, Freed(c, l, r), call' = Touch([call EXCEPT ![c] = r], Pair(c))
  PROVE  Safe' /\ call' \in [Calls -> CallDocs]
<1>1. /\ call[c].locks = Pair(c) /\ IsInjective(queue') /\ Queued' = Queued \ Pair(c) /\ OneActive'
      /\ \A u \in Users \ Pair(c) : ActiveOf(u)' = ActiveOf(u)
  BY MatchIs
<1>2. call \in [Calls -> CallDocs]
  BY CallFields DEF IInv
<1>3. PICK f \in [Calls -> CallDocs] : f = [call EXCEPT ![c] = r]
  BY <1>2
<1>4. PICK us : us = Pair(c)
  OBVIOUS
<1>5. call' = Touch(f, us)
  BY <1>3, <1>4
<1>6. \A d \in Calls : f[d] = IF d = c THEN r ELSE call[d]
  BY <1>2, <1>3
<1>7. r.pc \in {"done", "pick"} /\ r.locks = {} /\ CallSane(r)
  BY DEF Freed, IInv, Safe, CallsSane, CallSane, Held, Self, InTransaction
<1>8. \A d \in Calls \ {c} : call[d].locks \cap Pair(c) = {} /\ call[d].locks \subseteq Users
  BY <1>1, <1>2 DEF IInv, Safe, LocksApart, CallDocs
<1>9. \A d \in Calls : CallSane(f[d])
  BY <1>6, <1>7 DEF IInv, Safe, CallsSane
<1>10. \A d \in Calls : f[d].locks \subseteq Queued'
  BY <1>1, <1>6, <1>7, <1>8 DEF IInv, Safe, CallsSeen, Seen
<1>11. \A d, e \in Calls : d # e => f[d].locks \cap f[e].locks = {}
  BY <1>6, <1>7 DEF IInv, Safe, LocksApart
<1>12. \A d \in Calls : f[d].pc = "self" /\ f[d].snap = "queued" /\ f[d].user \notin us =>
                          f[d].user \in Queued'
  BY <1>1, <1>4, <1>6, <1>7 DEF IInv, Safe, CallsSeen, Seen
<1>13. \A d \in Calls : f[d].pc = "commit" => \A u \in f[d].locks : ActiveOf(u)' = {}
  <2> SUFFICES ASSUME NEW d \in Calls, f[d].pc = "commit", NEW u \in f[d].locks
               PROVE  ActiveOf(u)' = {}
    OBVIOUS
  <2>1. d # c /\ f[d] = call[d]
    BY <1>6, <1>7
  <2>2. u \in Users \ Pair(c) /\ ActiveOf(u) = {}
    BY <1>8, <2>1 DEF IInv, Safe, CallsSeen, Seen
  <2>3. QED
    BY <1>1, <2>2
<1>14. QED
  BY <1>1, <1>5, <1>9, <1>10, <1>11, <1>12, <1>13, QueueStep

\* A commit, heard of or not, keeps the invariant.
LEMMA CommitKeeps ==
  ASSUME IInv, NEW c \in Calls, Commit(c) \/ CommitUnheard(c)  PROVE IInv'
<1>1. At(c, "commit") /\ Matched(c) /\ call[c].pc \in InTransaction
  BY DEF Commit, CommitUnheard, At, InTransaction
<1>2. TypeOK /\ call[c].todo # <<>>
  BY <1>1, InsideTransaction
<1>3. Safe' /\ call' \in [Calls -> CallDocs]
  <2>1. CASE call' = Touch(Closed(c), Pair(c))
    <3>1. PICK r \in CallDocs : Closed(c) = [call EXCEPT ![c] = r] /\ Freed(c, "done", r)
      BY <1>2, ClosedIs
    <3>2. QED
      BY <1>1, <2>1, <3>1, MatchStep
  <2>2. CASE call' = Touch(NextCandidate(c), Pair(c))
    <3>1. PICK r \in CallDocs : NextCandidate(c) = [call EXCEPT ![c] = r] /\ Freed(c, "pick", r)
      BY <1>2, NextCandidateIs
    <3>2. QED
      BY <1>1, <2>2, <3>1, MatchStep
  <2>3. QED
    BY <2>1, <2>2 DEF Commit, CommitUnheard
<1>4. answer' \in Answers
  <2>1. CASE answer' = answer
    BY <1>2, <2>1 DEF TypeOK, Answers
  <2>2. CASE Reply(c, "matched", {c})
    BY <1>2, <2>2, ReplyIs
  <2>3. QED
    BY <2>1, <2>2 DEF Commit, CommitUnheard
<1>5. /\ queue' \in Seq(Users)
      /\ sessions' \in [Calls -> [who : SUBSET Users, status : {"none", "matched", "ended"}]]
  BY <1>1, MatchIs
<1>6. TypeOK'
  BY <1>2, <1>3, <1>4, <1>5 DEF Commit, CommitUnheard, TypeOK, CallDocs, Answers
<1>7. QED
  BY <1>3, <1>6 DEF IInv
-----------------------------------------------------------------------------
(***************************************************************************)
(* The theorems.                                                           *)
(***************************************************************************)
\* Before the first call nothing is locked, and the queue holds each user once.
LEMMA InitInv == Init => IInv
<1> SUFFICES ASSUME Init  PROVE IInv
  OBVIOUS
<1>1. PICK who \in [Calls -> Users], goal \in [Calls -> Goals] :
        call = [c \in Calls |-> [pc |-> "idle", user |-> who[c], goal |-> goal[c], target |-> c,
                                 todo |-> <<>>, unfit |-> {}, locks |-> {}, snap |-> "absent",
                                 made |-> FALSE]]
  BY DEF Init
<1>2. "idle" \in Labels /\ <<>> \in Seq(Users) /\ ToSet(<<>>) = {}
  BY DEF Labels, ToSet
<1>3. call \in [Calls -> CallDocs]
  <2>1. ASSUME NEW c \in Calls
        PROVE  [pc |-> "idle", user |-> who[c], goal |-> goal[c], target |-> c, todo |-> <<>>,
                unfit |-> {}, locks |-> {}, snap |-> "absent", made |-> FALSE] \in CallDocs
    BY <1>2 DEF CallDocs
  <2>2. QED
    BY <1>1, <2>1
<1>4. \A c \in Calls : call[c].pc = "idle" /\ call[c].todo = <<>> /\ call[c].locks = {}
  BY <1>1
<1>5. queue \in Seq(Users) /\ IsInjective(queue)
  BY DEF Init
<1>6. CallsSane /\ CallsSeen /\ LocksApart
  BY <1>2, <1>4 DEF CallsSane, CallSane, Held, InTransaction, CallsSeen, Seen, LocksApart
<1>7. sessions = [c \in Calls |-> NoSession]
  BY DEF Init
<1>8. OneActive
  BY <1>7 DEF OneActive, ActiveOf, NoSession
<1>9. sessions \in [Calls -> [who : SUBSET Users, status : {"none", "matched", "ended"}]]
  BY <1>7 DEF NoSession
<1>10. answer \in Answers
  BY DEF Init, NoAnswer, Answers
<1>11. TypeOK
  BY <1>3, <1>5, <1>9, <1>10 DEF Init, TypeOK, CallDocs, Answers
<1>12. QED
  BY <1>5, <1>6, <1>8, <1>11 DEF IInv, Safe

\* Every step of a call, a drop or the staff keeps the invariant.
LEMMA NextInv == IInv /\ [Next]_vars => IInv'
<1> SUFFICES ASSUME IInv, [Next]_vars  PROVE IInv'
  OBVIOUS
<1>1. ASSUME NEW c \in Calls, Start(c) \/ Find(c) \/ EndSession(c) \/ Dequeue(c) \/ Enqueue(c)
      PROVE  IInv'
  BY <1>1, StartKeeps, FindKeeps, EndKeeps, DequeueKeeps, EnqueueKeeps
<1>2. ASSUME NEW c \in Calls, Attempt(c)  PROVE IInv'
  BY <1>2, ScanKeeps, LoadKeeps, PickKeeps, ClaimOtherKeeps, ClaimSelfKeeps, CreateKeeps,
     CommitKeeps, RollbackKeeps DEF Attempt
<1>3. ASSUME NEW c \in Calls, Abandon(c)  PROVE IInv'
  BY <1>3, AbandonKeeps
<1>4. ASSUME NEW u \in Users, Drop(u) \/ DropLost(u) \/ Moderate(u)  PROVE IInv'
  BY <1>4, DropKeeps, AsideKeeps
<1>5. CASE UNCHANGED vars
  BY <1>5 DEF vars, IInv, TypeOK, Safe, CallsSane, CallsSeen, Seen, LocksApart, OneActive,
              ActiveOf, Queued
<1>6. QED
  BY <1>1, <1>2, <1>3, <1>4, <1>5 DEF Next

\* The invariant the theorems rest on holds in every reachable state.
THEOREM MatchInvariant == Spec => []IInv
<1>1. QED
  BY InitInv, NextInv, PTL DEF Spec

\* The variables keep their types.
THEOREM MatchTypes == Spec => []TypeOK
<1>1. IInv => TypeOK
  BY DEF IInv
<1>2. QED
  BY <1>1, MatchInvariant, PTL

\* A user is in one live session at most, whatever joins, nexts, reruns of
\* transactions and unawaited deletions are under way, and queued once at most.
THEOREM NobodyIsInTwoSessions == Spec => []OneSessionPerUser
<1>1. IInv => OneSessionPerUser
  <2> SUFFICES ASSUME IInv  PROVE OneSessionPerUser
    OBVIOUS
  <2>1. ASSUME NEW u \in Users  PROVE Cardinality(ActiveOf(u)) <= 1
    <3>1. CASE ActiveOf(u) = {}
      BY <3>1, FS_EmptySet
    <3>2. CASE ActiveOf(u) # {}
      <4>1. PICK s \in ActiveOf(u) : ActiveOf(u) = {s}
        BY <3>2 DEF IInv, Safe, OneActive
      <4>2. Cardinality(ActiveOf(u)) = 1
        BY <4>1, FS_Singleton
      <4>3. QED
        BY <4>2
    <3>3. QED
      BY <3>1, <3>2
  <2>2. Cardinality(Queued) = Len(queue)
    BY QueueCounts DEF IInv, TypeOK, Safe, Queued
  <2>3. QED
    BY <2>1, <2>2 DEF OneSessionPerUser
<1>2. QED
  BY <1>1, MatchInvariant, PTL

\* What a commit takes out of the queue, and puts into the session.
LEMMA CommitTakes ==
  ASSUME IInv, NEW c \in Calls, Commit(c) \/ CommitUnheard(c)
  PROVE  (\A d \in Calls : SessionTakesTwo(d)) /\ \A u \in Queued \ Queued' : EntryIsTaken(u)
<1>1. At(c, "commit") /\ Matched(c) /\ call[c].pc \in InTransaction
  BY DEF Commit, CommitUnheard, At, InTransaction
<1>2. Pair(c) \subseteq Queued /\ Queued' = Queued \ Pair(c)
  BY <1>1, MatchIs
<1>3. sessions \in [Calls -> [who : SUBSET Users, status : {"none", "matched", "ended"}]]
  BY DEF IInv, TypeOK
<1>4. /\ sessions'[c].who = Pair(c) /\ sessions'[c].status = "matched" /\ sessions[c].status = "none"
      /\ \A d \in Calls \ {c} : sessions'[d] = sessions[d]
  BY <1>1, <1>3 DEF Matched, NoSession
<1>5. Cardinality(Pair(c)) = 2
  <2>1. Candidate(c) # Self(c)
    BY <1>1, InsideTransaction
  <2>2. IsFiniteSet({Self(c)}) /\ Cardinality({Self(c)}) = 1
    BY FS_Singleton
  <2>3. Cardinality({Self(c)} \cup {Candidate(c)}) = 2
    <3>1. Candidate(c) \notin {Self(c)}
      BY <2>1
    <3>2. Cardinality({Self(c)} \cup {Candidate(c)}) =
            IF Candidate(c) \in {Self(c)} THEN Cardinality({Self(c)}) ELSE Cardinality({Self(c)}) + 1
      BY <2>2, FS_AddElement
    <3>3. QED
      BY <2>2, <3>1, <3>2
  <2>4. Pair(c) = {Self(c)} \cup {Candidate(c)}
    BY DEF Pair
  <2>5. QED
    BY <2>3, <2>4
<1>6. SessionTakesTwo(c)
  BY <1>2, <1>4, <1>5 DEF SessionTakesTwo
<1>7. \A d \in Calls \ {c} : SessionTakesTwo(d)
  BY <1>4 DEF SessionTakesTwo
<1>8. \A u \in Queued \ Queued' : EntryIsTaken(u)
  <2>1. sessions'[c] # sessions[c]
    BY <1>4
  <2>2. QED
    BY <1>2, <1>4, <2>1 DEF EntryIsTaken
<1>9. QED
  BY <1>6, <1>7, <1>8

\* A step that neither matches nor takes anybody out of the queue.
LEMMA NothingTaken ==
  ASSUME sessions' = sessions, Queued \subseteq Queued'
  PROVE  (\A c \in Calls : SessionTakesTwo(c)) /\ \A u \in Queued \ Queued' : EntryIsTaken(u)
BY DEF SessionTakesTwo

\* Every step is a match of two queued users, or takes an entry that its user's
\* leave or a drop takes.
LEMMA StepTakes ==
  ASSUME IInv, [Next]_vars
  PROVE  (\A c \in Calls : SessionTakesTwo(c)) /\ \A u \in Queued \ Queued' : EntryIsTaken(u)
<1>1. queue \in Seq(Users) /\ IsInjective(queue)
  BY DEF IInv, TypeOK, Safe
<1>2. ASSUME queue' = queue, sessions' = sessions
      PROVE  (\A c \in Calls : SessionTakesTwo(c)) /\ \A u \in Queued \ Queued' : EntryIsTaken(u)
  BY <1>2, NothingTaken DEF Queued
<1>3. ASSUME NEW c \in Calls, Start(c) \/ Find(c) \/ Abandon(c)
      PROVE  queue' = queue /\ sessions' = sessions
  BY <1>3 DEF Start, Find, Abandon
<1>4. ASSUME NEW c \in Calls, EndSession(c)
      PROVE  (\A d \in Calls : SessionTakesTwo(d)) /\ \A u \in Queued \ Queued' : EntryIsTaken(u)
  <2>1. sessions \in [Calls -> [who : SUBSET Users, status : {"none", "matched", "ended"}]]
        /\ call[c].target \in Calls
    BY CallFields DEF IInv, TypeOK
  <2>2. sessions' = [sessions EXCEPT ![call[c].target].status = "ended"] /\ queue' = queue
    BY <1>4 DEF EndSession
  <2>3. \A d \in Calls : sessions'[d].status \in {sessions[d].status, "ended"}
    BY <2>1, <2>2
  <2>4. QED
    BY <2>2, <2>3 DEF SessionTakesTwo, Queued
<1>5. ASSUME NEW c \in Calls, Dequeue(c)
      PROVE  (\A d \in Calls : SessionTakesTwo(d)) /\ \A u \in Queued \ Queued' : EntryIsTaken(u)
  <2>1. sessions' = sessions /\ At(c, "dequeue") /\ Queued' = Queued \ {Self(c)}
    BY <1>1, <1>5, UserTaken DEF Dequeue, Queued
  <2>2. QED
    BY <2>1 DEF SessionTakesTwo, EntryIsTaken
<1>6. ASSUME NEW c \in Calls, Enqueue(c)
      PROVE  (\A d \in Calls : SessionTakesTwo(d)) /\ \A u \in Queued \ Queued' : EntryIsTaken(u)
  <2>1. sessions' = sessions /\ (queue' = queue \/ queue' = Append(queue, Self(c))) /\ Self(c) \in Users
    BY <1>6, CallFields DEF Enqueue, IInv, Self
  <2>2. \A i \in DOMAIN queue : i \in DOMAIN queue' /\ queue'[i] = queue[i]
    BY <1>1, <2>1
  <2>3. Queued \subseteq Queued'
    BY <2>2 DEF Queued, ToSet
  <2>4. QED
    BY <2>1, <2>3, NothingTaken
<1>7. ASSUME NEW c \in Calls, Attempt(c), ~Commit(c), ~CommitUnheard(c)
      PROVE  queue' = queue /\ sessions' = sessions
  BY <1>7 DEF Attempt, Scan, Load, Pick, ClaimOther, ClaimSelf, Create, CommitAborted, TransactionFails
<1>8. ASSUME NEW u \in Users, Drop(u)
      PROVE  (\A c \in Calls : SessionTakesTwo(c)) /\ \A v \in Queued \ Queued' : EntryIsTaken(v)
  <2>1. sessions' = sessions /\ u \in drops /\ Queued' = Queued \ {u}
    BY <1>1, <1>8, UserTaken DEF Drop, Queued
  <2>2. QED
    BY <2>1 DEF SessionTakesTwo, EntryIsTaken
<1>9. ASSUME NEW u \in Users, DropLost(u) \/ Moderate(u)
      PROVE  queue' = queue /\ sessions' = sessions
  BY <1>9 DEF DropLost, Moderate
<1>10. CASE UNCHANGED vars
  BY <1>2, <1>10 DEF vars
<1>11. CASE Next
  <2>1. ASSUME NEW c \in Calls, Attempt(c)
        PROVE  (\A d \in Calls : SessionTakesTwo(d)) /\ \A u \in Queued \ Queued' : EntryIsTaken(u)
    BY <1>2, <1>7, <2>1, CommitTakes
  <2>2. QED
    BY <1>2, <1>3, <1>4, <1>5, <1>6, <1>8, <1>9, <1>11, <2>1 DEF Next
<1>12. QED
  BY <1>10, <1>11

\* A session takes exactly two queued users out of the queue in the step that
\* creates it; only the user's own leave or a drop takes an entry otherwise.
THEOREM MatchesConsumeBoth == Spec => MatchConsumesBoth
<1>1. IInv /\ [Next]_vars =>
        [(\A c \in Calls : SessionTakesTwo(c)) /\ \A u \in Queued \ Queued' : EntryIsTaken(u)]_vars
  BY StepTakes
<1>2. QED
  BY <1>1, MatchInvariant, PTL DEF Spec, MatchConsumesBoth
-----------------------------------------------------------------------------
(***************************************************************************)
(* Nobody is forgotten: two waiting users who could be matched are on the  *)
(* list of a call that has still to try them, unless something failed.     *)
(***************************************************************************)
\* The first candidate and the others are all there are.
LEMMA HeadOrTail ==
  ASSUME NEW s \in Seq(Users), s # <<>>, NEW v \in ToSet(s)
  PROVE  v = Head(s) \/ v \in ToSet(Tail(s))
<1>1. PICK i \in DOMAIN s : s[i] = v
  BY DEF ToSet
<1>2. CASE i = 1
  BY <1>1, <1>2
<1>3. CASE i # 1
  <2>1. i - 1 \in DOMAIN Tail(s) /\ Tail(s)[i - 1] = s[i]
    BY <1>1, <1>3
  <2>2. QED
    BY <1>1, <2>1 DEF ToSet
<1>4. QED
  BY <1>2, <1>3
\* A commit, which changes how an open call sees its own entry, makes it give up
\* no candidate.
LEMMA TouchKeepsOn ==
  ASSUME NEW f \in [Calls -> CallDocs], NEW us, NEW d \in Calls, NEW v
  PROVE  /\ On(Touch(f, us)[d], v) <=> On(f[d], v)
         /\ Touch(f, us)[d].goal = f[d].goal
<1>1. f[d] \in CallDocs
  OBVIOUS
<1>2. CASE f[d].pc = "self" /\ f[d].user \in us /\ f[d].snap = "queued"
  <2>1. Touch(f, us)[d] = [f[d] EXCEPT !.snap = "changed"]
    BY <1>2 DEF Touch
  <2>2. /\ Touch(f, us)[d].pc = "self" /\ Touch(f, us)[d].todo = f[d].todo
        /\ Touch(f, us)[d].snap = "changed" /\ Touch(f, us)[d].goal = f[d].goal
    BY <1>1, <1>2, <2>1 DEF CallDocs
  <2>3. QED
    BY <1>2, <2>2 DEF On
<1>3. CASE ~(f[d].pc = "self" /\ f[d].user \in us /\ f[d].snap = "queued")
  BY <1>3 DEF Touch
<1>4. QED
  BY <1>2, <1>3

\* A step keeps the pairs together when it queues nobody, forgets no error and no
\* drop of a queued user, and no call gives up a queued candidate it could take.
LEMMA PairsKept ==
  ASSUME Paired, Queued' \subseteq Queued, Settled \cap Queued' \subseteq Settled',
         \A d \in Calls : call'[d].user = call[d].user,
         \A d \in Calls, v \in Queued' :
           /\ Self(d) \in Queued' /\ Self(d) # v /\ {Self(d), v} \notin Blocked /\ On(call[d], v)
           => On(call'[d], v) \/ {Self(d), v} \cap Settled' # {}
  PROVE  Paired'
<1> SUFFICES ASSUME NEW u \in Queued', NEW v \in Queued', u # v, {u, v} \notin Blocked
             PROVE  Tried(u, v)'
  BY DEF Paired
<1>1. u \in Queued /\ v \in Queued /\ {v, u} \notin Blocked
  <2>1. {v, u} = {u, v}
    OBVIOUS
  <2>2. QED
    BY <2>1
<1>2. Tried(u, v)
  BY <1>1 DEF Paired
<1>3. CASE {u, v} \cap Settled # {}
  BY <1>3 DEF Tried
<1>4. ASSUME NEW c \in Calls, Self(c) = u, On(call[c], v)  PROVE Tried(u, v)'
  <2>1. On(call'[c], v) \/ {u, v} \cap Settled' # {}
    BY <1>4
  <2>2. call'[c].user = u
    BY <1>4 DEF Self
  <2>3. QED
    BY <2>1, <2>2 DEF Tried, Self, On
<1>5. ASSUME NEW c \in Calls, Self(c) = v, On(call[c], u)  PROVE Tried(u, v)'
  <2>1. On(call'[c], u) \/ {u, v} \cap Settled' # {}
    BY <1>1, <1>5
  <2>2. call'[c].user = v
    BY <1>5 DEF Self
  <2>3. QED
    BY <2>1, <2>2 DEF Tried, Self, On
<1>6. QED
  BY <1>2, <1>3, <1>4, <1>5 DEF Tried

\* The same for a step of the call c, which becomes r, with a commit or without.
LEMMA PairsKeptBy ==
  ASSUME TypeOK, PInv, NEW c \in Calls, NEW r \in CallDocs, r.user = Self(c),
         NEW us, call' = [call EXCEPT ![c] = r] \/ call' = Touch([call EXCEPT ![c] = r], us),
         r.pc \in {"enqueue", "scan", "load", "pick"} \cup InTransaction => r.goal = "join",
         Queued' \subseteq Queued, Settled \cap Queued' \subseteq Settled',
         \A v \in Queued' :
           /\ Self(c) \in Queued' /\ Self(c) # v /\ {Self(c), v} \notin Blocked /\ On(call[c], v)
           => On(r, v) \/ {Self(c), v} \cap Settled' # {}
  PROVE  PInv'
<1>1. call \in [Calls -> CallDocs]
  BY CallFields DEF TypeOK, CallDocs
<1>2. PICK f \in [Calls -> CallDocs] : f = [call EXCEPT ![c] = r]
  BY <1>1
<1>3. \A d \in Calls : f[d] = IF d = c THEN r ELSE call[d]
  BY <1>1, <1>2
<1>4. /\ \A d \in Calls : call'[d].user = f[d].user /\ call'[d].pc = f[d].pc /\ call'[d].goal = f[d].goal
      /\ \A d \in Calls : \A v : On(call'[d], v) <=> On(f[d], v)
  <2>1. CASE call' = f
    BY <2>1
  <2>2. CASE call' = Touch(f, us)
    <3>1. \A d \in Calls : call'[d].user = f[d].user /\ call'[d].pc = f[d].pc
      BY <2>2, TouchIs
    <3>2. ASSUME NEW d \in Calls, NEW v
          PROVE  (On(Touch(f, us)[d], v) <=> On(f[d], v)) /\ Touch(f, us)[d].goal = f[d].goal
      BY TouchKeepsOn
    <3>3. QED
      BY <2>2, <3>1, <3>2
  <2>3. QED
    BY <1>2, <2>1, <2>2
<1>5. Joining'
  BY <1>3, <1>4 DEF PInv, Joining
<1>6. \A d \in Calls : call'[d].user = call[d].user
  BY <1>3, <1>4 DEF Self
<1>7. \A d \in Calls, v \in Queued' :
        /\ Self(d) \in Queued' /\ Self(d) # v /\ {Self(d), v} \notin Blocked /\ On(call[d], v)
        => On(call'[d], v) \/ {Self(d), v} \cap Settled' # {}
  BY <1>3, <1>4
<1>8. Paired'
  BY <1>6, <1>7, PairsKept DEF PInv
<1>9. QED
  BY <1>5, <1>8 DEF PInv
\* Before its scan a call has nobody to try.
LEMMA NotTrying ==
  ASSUME NEW c \in Calls, call[c].pc \in {"idle", "find", "end", "dequeue", "enqueue"}
  PROVE  \A v : ~On(call[c], v)
BY DEF On

\* The start of a call gives up nobody.
LEMMA StartPairs == ASSUME IInv, PInv, NEW c \in Calls, Start(c)  PROVE PInv'
<1>1. /\ TypeOK /\ call[c].locks = {} /\ "find" \in Labels /\ call[c].pc = "idle"
      /\ \A v : ~On(call[c], v)
  BY NothingHeld, NotTrying DEF IInv, Start, At, Labels
<1>2. Queued' = Queued /\ Settled' = Settled
  BY DEF Start, Queued, Settled
<1>3. CASE Goto(c, "find")
  <2>1. PICK r \in CallDocs : call' = [call EXCEPT ![c] = r] /\ Freed(c, "find", r)
    BY <1>1, <1>3, GotoIs
  <2>2. r.user = Self(c) /\ r.pc = "find"
    BY <2>1 DEF Freed
  <2>3. QED
    BY <1>1, <1>2, <2>1, <2>2, PairsKeptBy DEF InTransaction
<1>4. CASE call' = Closed(c)
  <2>1. PICK r \in CallDocs : call' = [call EXCEPT ![c] = r] /\ Freed(c, "done", r)
    BY <1>1, <1>4, ClosedIs
  <2>2. r.user = Self(c) /\ r.pc = "done"
    BY <2>1 DEF Freed
  <2>3. QED
    BY <1>1, <1>2, <2>1, <2>2, PairsKeptBy DEF InTransaction
<1>5. QED
  BY <1>3, <1>4 DEF Start

\* findActiveSession gives up nobody, and only join goes on to enqueue.
LEMMA FindPairs == ASSUME IInv, PInv, NEW c \in Calls, Find(c)  PROVE PInv'
<1>1. /\ TypeOK /\ call[c].locks = {} /\ {"enqueue", "dequeue", "end"} \subseteq Labels
      /\ call[c].pc = "find" /\ \A v : ~On(call[c], v)
  BY NothingHeld, NotTrying DEF IInv, Find, At, Labels
<1>2. Queued' = Queued /\ Settled' = Settled
  BY DEF Find, Queued, Settled
<1>3. call[c] \in CallDocs /\ call \in [Calls -> CallDocs]
  BY <1>1, CallFields
<1>4. \E r \in CallDocs : /\ call' = [call EXCEPT ![c] = r] /\ r.user = Self(c)
                          /\ r.pc \in {"done", "end", "dequeue", "find"} \/ r.goal = "join"
  <2>1. CASE call' = Closed(c)
    <3>1. PICK r \in CallDocs : Closed(c) = [call EXCEPT ![c] = r] /\ Freed(c, "done", r)
      BY <1>1, ClosedIs
    <3>2. QED
      BY <2>1, <3>1 DEF Freed
  <2>2. ASSUME NEW s \in Calls, call' = [call EXCEPT ![c].pc = "end", ![c].target = s]
        PROVE  \E r \in CallDocs : /\ call' = [call EXCEPT ![c] = r] /\ r.user = Self(c)
                                   /\ r.pc \in {"done", "end", "dequeue", "find"} \/ r.goal = "join"
    <3> DEFINE r == [call[c] EXCEPT !.pc = "end", !.target = s]
    <3>1. r \in CallDocs /\ r.pc = "end" /\ r.user = call[c].user
      BY <1>1, <1>3 DEF CallDocs
    <3>2. call' = [call EXCEPT ![c] = r]
      BY <1>3, <2>2
    <3> HIDE DEF r
    <3>3. QED
      BY <3>1, <3>2 DEF Self
  <2>3. CASE call[c].goal = "join" /\ Goto(c, "enqueue")
    <3>1. PICK r \in CallDocs : /\ call' = [call EXCEPT ![c] = r] /\ Freed(c, "enqueue", r)
                                /\ r.goal = call[c].goal
      BY <1>1, <2>3, GotoIs
    <3>2. QED
      BY <2>3, <3>1 DEF Freed
  <2>4. CASE Goto(c, "dequeue")
    <3>1. PICK r \in CallDocs : call' = [call EXCEPT ![c] = r] /\ Freed(c, "dequeue", r)
      BY <1>1, <2>4, GotoIs
    <3>2. QED
      BY <3>1 DEF Freed
  <2>5. CASE call' = [call EXCEPT ![c].goal = "join"]
    <3> DEFINE r == [call[c] EXCEPT !.goal = "join"]
    <3>1. r \in CallDocs /\ r.pc = "find" /\ r.user = call[c].user
      BY <1>1, <1>3 DEF CallDocs, Goals
    <3>2. call' = [call EXCEPT ![c] = r]
      BY <1>3, <2>5
    <3> HIDE DEF r
    <3>3. QED
      BY <3>1, <3>2 DEF Self
  <2>6. QED
    BY <2>1, <2>2, <2>3, <2>4, <2>5 DEF Find, ActiveOf
<1>5. PICK r \in CallDocs : /\ call' = [call EXCEPT ![c] = r] /\ r.user = Self(c)
                            /\ r.pc \in {"done", "end", "dequeue", "find"} \/ r.goal = "join"
  BY <1>4
<1>6. r.pc \in {"enqueue", "scan", "load", "pick"} \cup InTransaction => r.goal = "join"
  BY <1>5 DEF InTransaction
<1>7. QED
  BY <1>1, <1>2, <1>5, <1>6, PairsKeptBy

\* Ending a session gives up nobody.
LEMMA EndPairs == ASSUME IInv, PInv, NEW c \in Calls, EndSession(c)  PROVE PInv'
<1>1. /\ TypeOK /\ call[c].locks = {} /\ {"dequeue", "find"} \subseteq Labels
      /\ call[c].pc = "end" /\ \A v : ~On(call[c], v)
  BY NothingHeld, NotTrying DEF IInv, EndSession, At, Labels
<1>2. Queued' = Queued /\ Settled' = Settled
  BY DEF EndSession, Queued, Settled
<1>3. call[c] \in CallDocs /\ call \in [Calls -> CallDocs]
  BY <1>1, CallFields
<1>4. CASE Goto(c, "dequeue")
  <2>1. PICK r \in CallDocs : call' = [call EXCEPT ![c] = r] /\ Freed(c, "dequeue", r)
    BY <1>1, <1>4, GotoIs
  <2>2. r.user = Self(c) /\ r.pc = "dequeue"
    BY <2>1 DEF Freed
  <2>3. QED
    BY <1>1, <1>2, <2>1, <2>2, PairsKeptBy DEF InTransaction
<1>5. CASE call' = [call EXCEPT ![c].goal = "join", ![c].pc = "find"]
  <2> DEFINE r == [call[c] EXCEPT !.goal = "join", !.pc = "find"]
  <2>1. r \in CallDocs /\ r.pc = "find" /\ r.user = Self(c)
    BY <1>1, <1>3 DEF CallDocs, Goals, Self
  <2>2. call' = [call EXCEPT ![c] = r]
    BY <1>3, <1>5
  <2> HIDE DEF r
  <2>3. QED
    BY <1>1, <1>2, <2>1, <2>2, PairsKeptBy DEF InTransaction
<1>6. QED
  BY <1>4, <1>5 DEF EndSession

\* leave's deletion takes one user out of every pair.
LEMMA DequeuePairs == ASSUME IInv, PInv, NEW c \in Calls, Dequeue(c)  PROVE PInv'
<1>1. /\ TypeOK /\ call[c].pc = "dequeue" /\ \A v : ~On(call[c], v)
      /\ queue \in Seq(Users) /\ IsInjective(queue)
  BY NotTrying DEF IInv, Safe, TypeOK, Dequeue, At
<1>2. Queued' \subseteq Queued /\ Settled' = Settled
  <2>1. ToSet(Without(queue, Self(c))) = ToSet(queue) \ {Self(c)}
    BY <1>1, UserTaken
  <2>2. QED
    BY <2>1 DEF Dequeue, Queued, Settled
<1>3. PICK r \in CallDocs : Closed(c) = [call EXCEPT ![c] = r] /\ Freed(c, "done", r)
  BY <1>1, ClosedIs
<1>4. r.user = Self(c) /\ r.pc = "done"
  BY <1>3 DEF Freed
<1>5. PICK us : us = {Self(c)}
  OBVIOUS
<1>6. call' = Touch([call EXCEPT ![c] = r], us)
  BY <1>3, <1>5 DEF Dequeue
<1>7. QED
  BY <1>1, <1>2, <1>4, <1>6, PairsKeptBy DEF InTransaction

\* A drop takes one user out of every pair.
LEMMA DropPairs == ASSUME IInv, PInv, NEW u \in Users, Drop(u)  PROVE PInv'
<1>1. /\ TypeOK /\ call \in [Calls -> CallDocs] /\ queue \in Seq(Users) /\ IsInjective(queue)
  BY DEF IInv, Safe, TypeOK, CallDocs
<1>2. Queued' = Queued \ {u}
  BY <1>1, UserTaken DEF Drop, Queued
<1>3. Settled \cap Queued' \subseteq Settled'
  BY <1>2 DEF Drop, Settled
<1>4. PICK us : us = {u}
  OBVIOUS
<1>5. call' = Touch(call, us)
  BY <1>4 DEF Drop
<1>6. \A d \in Calls : call'[d].user = call[d].user /\ call'[d].pc = call[d].pc
  BY <1>1, <1>5, TouchIs
<1>7. ASSUME NEW d \in Calls, NEW v
      PROVE  (On(call'[d], v) <=> On(call[d], v)) /\ call'[d].goal = call[d].goal
  <2>1. PICK f \in [Calls -> CallDocs] : f = call
    BY <1>1
  <2>2. (On(Touch(f, us)[d], v) <=> On(f[d], v)) /\ Touch(f, us)[d].goal = f[d].goal
    BY TouchKeepsOn
  <2>3. QED
    BY <1>5, <2>1, <2>2
<1>8. Paired'
  BY <1>2, <1>3, <1>6, <1>7, PairsKept DEF PInv
<1>9. Joining'
  BY <1>6, <1>7 DEF PInv, Joining
<1>10. QED
  BY <1>8, <1>9 DEF PInv

\* A lost drop is an error of its user; the staff's action changes no pair.
LEMMA AsidePairs ==
  ASSUME IInv, PInv, NEW u \in Users, DropLost(u) \/ Moderate(u)  PROVE PInv'
<1>1. Queued' = Queued /\ call' = call /\ Settled \subseteq Settled'
  BY DEF DropLost, Moderate, Queued, Settled
<1>2. Joining'
  BY <1>1 DEF PInv, Joining
<1>3. \A d \in Calls, v \in Queued' :
        /\ Self(d) \in Queued' /\ Self(d) # v /\ {Self(d), v} \notin Blocked /\ On(call[d], v)
        => On(call'[d], v) \/ {Self(d), v} \cap Settled' # {}
  BY <1>1
<1>4. Paired'
  BY <1>1, <1>3, PairsKept DEF PInv
<1>5. QED
  BY <1>2, <1>4 DEF PInv

\* A call that dies before it has tried everybody is an error of its user.
LEMMA AbandonPairs == ASSUME IInv, PInv, NEW c \in Calls, Abandon(c)  PROVE PInv'
<1>1. TypeOK
  BY DEF IInv
<1>2. PICK r \in CallDocs : call' = [call EXCEPT ![c] = r] /\ Freed(c, "done", r)
  BY <1>1, ClosedIs DEF Abandon
<1>3. r.user = Self(c) /\ r.pc = "done"
  BY <1>2 DEF Freed
<1>4. Queued' = Queued /\ Settled \subseteq Settled'
  BY DEF Abandon, Queued, Settled
<1>5. ASSUME NEW v \in Queued', On(call[c], v)  PROVE Self(c) \in Settled'
  <2>1. call[c].goal = "join"
    BY <1>5 DEF PInv, Joining, On, InTransaction
  <2>2. QED
    BY <2>1 DEF Abandon, Settled
<1>6. QED
  BY <1>1, <1>2, <1>3, <1>4, <1>5, PairsKeptBy DEF InTransaction
\* enqueue: a user who is new in the queue has a call that will try everybody.
LEMMA EnqueuePairs == ASSUME IInv, PInv, NEW c \in Calls, Enqueue(c)  PROVE PInv'
<1>1. /\ TypeOK /\ call[c].locks = {} /\ call[c].pc = "enqueue" /\ "scan" \in Labels
      /\ call \in [Calls -> CallDocs] /\ queue \in Seq(Users) /\ Self(c) \in Users
      /\ \A v : ~On(call[c], v)
  BY NothingHeld, NotTrying, CallFields DEF IInv, Enqueue, At, Labels, TypeOK, Self
<1>2. call[c].goal = "join"
  BY <1>1 DEF PInv, Joining
<1>3. Settled' = Settled
  BY DEF Enqueue, Settled
<1>4. CASE Goto(c, "scan") /\ queue' = queue
  <2>1. PICK r \in CallDocs : /\ call' = [call EXCEPT ![c] = r] /\ Freed(c, "scan", r)
                              /\ r.goal = call[c].goal
    BY <1>1, <1>4, GotoIs
  <2>2. r.user = Self(c) /\ r.goal = "join"
    BY <1>2, <2>1 DEF Freed
  <2>3. Queued' = Queued
    BY <1>4 DEF Queued
  <2>4. QED
    BY <1>1, <1>3, <2>1, <2>2, <2>3, PairsKeptBy
<1>5. CASE /\ queue' = Append(queue, Self(c))
           /\ call' = Touch([call EXCEPT ![c].pc = "scan"], {Self(c)})
  <2>1. PICK f \in [Calls -> CallDocs] : f = [call EXCEPT ![c].pc = "scan"]
    <3>1. call[c] \in CallDocs
      BY <1>1
    <3>2. [call[c] EXCEPT !.pc = "scan"] \in CallDocs
      BY <1>1, <3>1 DEF CallDocs
    <3>3. QED
      BY <1>1, <3>2
  <2>2. PICK us : us = {Self(c)}
    OBVIOUS
  <2>3. call' = Touch(f, us)
    BY <1>5, <2>1, <2>2
  <2>4. /\ f[c].pc = "scan" /\ f[c].user = Self(c) /\ f[c].goal = "join"
        /\ \A d \in Calls \ {c} : f[d] = call[d]
    <3>1. call[c] \in CallDocs /\ f[c] = [call[c] EXCEPT !.pc = "scan"]
      BY <1>1, <2>1
    <3>2. f[c].pc = "scan" /\ f[c].user = Self(c) /\ f[c].goal = "join"
      BY <1>2, <3>1 DEF CallDocs, Self
    <3>3. QED
      BY <1>1, <2>1, <3>2
  <2>5. \A d \in Calls : call'[d].user = f[d].user /\ call'[d].pc = f[d].pc
    BY <2>3, TouchIs
  <2>6. ASSUME NEW d \in Calls, NEW v
        PROVE  (On(call'[d], v) <=> On(f[d], v)) /\ call'[d].goal = f[d].goal
    BY <2>3, TouchKeepsOn
  <2>7. Joining'
    BY <2>4, <2>5, <2>6 DEF PInv, Joining
  <2>8. \A d \in Calls : Self(d)' = Self(d)
    BY <2>4, <2>5 DEF Self
  <2>9. Queued' = Queued \cup {Self(c)}
    <3>1. /\ DOMAIN queue' = DOMAIN queue \cup {Len(queue) + 1}
          /\ \A i \in DOMAIN queue : queue'[i] = queue[i]
          /\ queue'[Len(queue) + 1] = Self(c)
      BY <1>1, <1>5
    <3>2. QED
      BY <3>1 DEF Queued, ToSet
  <2>10. \A v : On(call'[c], v)
    BY <2>4, <2>5 DEF On
  <2>11. \A d \in Calls : \A v : On(call[d], v) => On(call'[d], v)
    BY <1>1, <2>4, <2>6
  <2>12. Paired'
    <3> SUFFICES ASSUME NEW u \in Queued', NEW v \in Queued', u # v, {u, v} \notin Blocked
                 PROVE  Tried(u, v)'
      BY DEF Paired
    <3>1. CASE u = Self(c) \/ v = Self(c)
      BY <2>8, <2>10, <3>1 DEF Tried, On
    <3>2. CASE u \in Queued /\ v \in Queued
      <4>1. Tried(u, v)
        BY <3>2 DEF PInv, Paired
      <4>2. \A d \in Calls : \A w : On(call[d], w) => On(call[d], w)'
        BY <2>11 DEF On
      <4>3. QED
        BY <1>3, <2>8, <4>1, <4>2 DEF Tried
    <3>3. QED
      BY <2>9, <3>1, <3>2
  <2>13. QED
    BY <2>7, <2>12 DEF PInv
<1>6. QED
  BY <1>4, <1>5 DEF Enqueue

\* A whole queue that is no longer than the limit is scanned.
LEMMA WholeQueue ==
  ASSUME NEW q \in Seq(Users), IsInjective(q), NEW u \in ToSet(q), Len(q) <= MaxScan + 1,
         NEW v \in ToSet(q), v # u
  PROVE  v \in ToSet(SubSeq(Without(q, u), 1, IF Len(Without(q, u)) < MaxScan
                                               THEN Len(Without(q, u)) ELSE MaxScan))
<1>1. PICK w \in Seq(Users) : w = Without(q, u) /\ ToSet(w) = ToSet(q) \ {u}
  BY UserTaken
<1>2. Len(w) = Len(q) - 1
  <2> DEFINE i == CHOOSE j \in DOMAIN q : q[j] = u
  <2>1. i \in DOMAIN q /\ w = RemoveAt(q, i)
    BY <1>1 DEF ToSet, Without
  <2> HIDE DEF i
  <2>2. DOMAIN w = 1..(Len(q) - 1)
    BY <2>1, EntryTaken
  <2>3. i \in 1..Len(q) /\ Len(q) \in Nat /\ DOMAIN w = 1..Len(w) /\ Len(w) \in Nat
    BY <1>1, <2>1
  <2>4. QED
    BY <2>2, <2>3
<1>3. (IF Len(w) < MaxScan THEN Len(w) ELSE MaxScan) = Len(w)
  <2>1. Len(q) \in Nat /\ MaxScan \in Nat /\ Len(w) \in Nat
    BY <1>1
  <2>2. QED
    BY <1>2, <2>1
<1>4. PICK i \in DOMAIN w : w[i] = v
  <2>1. v \in ToSet(w)
    BY <1>1
  <2>2. QED
    BY <2>1 DEF ToSet
<1>5. i \in DOMAIN SubSeq(w, 1, Len(w)) /\ SubSeq(w, 1, Len(w))[i] = v
  BY <1>1, <1>4
<1>6. QED
  BY <1>1, <1>3, <1>5 DEF ToSet

\* The scan puts everybody who waits on the call's list.
LEMMA ScanPairs == ASSUME IInv, PInv, ShortQueue, NEW c \in Calls, Scan(c)  PROVE PInv'
<1>1. /\ TypeOK /\ call[c].pc = "scan" /\ "load" \in Labels /\ call[c] \in CallDocs
      /\ queue \in Seq(Users) /\ IsInjective(queue)
  BY CallFields DEF IInv, Safe, Scan, At, Labels, TypeOK
<1>2. Queued' = Queued /\ Settled' = Settled
  BY DEF Scan, Queued, Settled
<1>3. PICK some : some = SubSeq(Others(c), 1, IF Len(Others(c)) < MaxScan
                                              THEN Len(Others(c)) ELSE MaxScan)
  OBVIOUS
<1> DEFINE r == [call[c] EXCEPT !.pc = "load", !.todo = some]
<1>4. call' = [call EXCEPT ![c] = r]
  <2>1. call \in [Calls -> CallDocs]
    BY <1>1, CallFields
  <2>2. QED
    BY <1>3, <2>1 DEF Scan
<1>5. r \in CallDocs
  <2>1. IInv' /\ call' \in [Calls -> CallDocs]
    BY ScanKeeps, CallFields DEF IInv, TypeOK, CallDocs
  <2>2. call'[c] = r
    BY <1>1, <1>4 DEF TypeOK
  <2>3. QED
    BY <2>1, <2>2
<1>6. r.pc = "load" /\ r.user = Self(c) /\ r.goal = call[c].goal /\ r.todo = some
  BY <1>1 DEF CallDocs, Self
<1> HIDE DEF r
<1>7. call[c].goal = "join"
  BY <1>1 DEF PInv, Joining
<1>8. ASSUME Self(c) \in Queued', NEW v \in Queued', Self(c) # v  PROVE On(r, v)
  <2>1. v \in ToSet(some)
    BY <1>1, <1>2, <1>3, <1>8, WholeQueue DEF ShortQueue, Queued, Others
  <2>2. QED
    BY <1>6, <2>1 DEF On
<1>9. QED
  BY <1>1, <1>2, <1>4, <1>5, <1>6, <1>7, <1>8, PairsKeptBy

\* Reading who is eligible changes nobody's place on the list.
LEMMA LoadPairs == ASSUME IInv, PInv, NEW c \in Calls, Load(c)  PROVE PInv'
<1>1. TypeOK /\ call[c].pc = "load" /\ call[c] \in CallDocs /\ call \in [Calls -> CallDocs]
  BY CallFields DEF IInv, Load, At
<1>2. Queued' = Queued /\ Settled' = Settled
  BY DEF Load, Queued, Settled
<1>3. PICK gone : gone = {u \in ToSet(call[c].todo) : standing[u] = "barred"}
  OBVIOUS
<1> DEFINE r == [call[c] EXCEPT !.pc = "pick", !.unfit = gone]
<1>4. call' = [call EXCEPT ![c] = r]
  BY <1>1, <1>3 DEF Load
<1>5. r \in CallDocs
  <2>1. IInv' /\ call' \in [Calls -> CallDocs]
    BY LoadKeeps, CallFields DEF IInv, TypeOK, CallDocs
  <2>2. call'[c] = r
    BY <1>1, <1>4
  <2>3. QED
    BY <2>1, <2>2
<1>6. r.pc = "pick" /\ r.user = Self(c) /\ r.goal = call[c].goal /\ r.todo = call[c].todo
  BY <1>1 DEF CallDocs, Self
<1> HIDE DEF r
<1>7. call[c].goal = "join"
  BY <1>1 DEF PInv, Joining
<1>8. \A v : On(call[c], v) => On(r, v)
  BY <1>1, <1>6 DEF On
<1>9. QED
  BY <1>1, <1>2, <1>4, <1>5, <1>6, <1>7, <1>8, PairsKeptBy
\* A call that goes on to its next candidate gives up the first one alone.
LEMMA NextPairs ==
  ASSUME IInv, PInv, NEW c \in Calls, call[c].todo # <<>>, call[c].pc \in {"pick"} \cup InTransaction,
         NEW us, call' = NextCandidate(c) \/ call' = Touch(NextCandidate(c), us),
         Queued' \subseteq Queued, Settled \cap Queued' \subseteq Settled',
         Pair(c) \subseteq Queued' /\ Pair(c) \notin Blocked /\ On(call[c], Candidate(c)) =>
           Pair(c) \cap Settled' # {}
  PROVE  PInv'
<1>1. TypeOK /\ call[c].todo \in Seq(Users)
  BY CallFields DEF IInv
<1>2. PICK r \in CallDocs : /\ NextCandidate(c) = [call EXCEPT ![c] = r] /\ Freed(c, "pick", r)
                            /\ r.todo = Tail(call[c].todo) /\ r.goal = call[c].goal
  BY <1>1, NextCandidateIs
<1>3. r.user = Self(c) /\ r.pc = "pick"
  BY <1>2 DEF Freed
<1>4. r.goal = "join"
  BY <1>2 DEF PInv, Joining
<1>5. call' = [call EXCEPT ![c] = r] \/ call' = Touch([call EXCEPT ![c] = r], us)
  BY <1>2
<1>6. ASSUME NEW v \in Queued', Self(c) \in Queued', {Self(c), v} \notin Blocked, On(call[c], v)
      PROVE  On(r, v) \/ {Self(c), v} \cap Settled' # {}
  <2>1. CASE v = Candidate(c)
    BY <1>6, <2>1 DEF Pair
  <2>2. CASE v # Candidate(c)
    <3>1. v \in ToSet(call[c].todo)
      BY <1>6 DEF On, InTransaction
    <3>2. v \in ToSet(Tail(call[c].todo))
      BY <1>1, <2>2, <3>1, HeadOrTail DEF Candidate
    <3>3. QED
      BY <1>2, <1>3, <3>2 DEF On
  <2>3. QED
    BY <2>1, <2>2
<1>7. QED
  BY <1>1, <1>3, <1>4, <1>5, <1>6, PairsKeptBy

\* A transaction that runs again gives up nobody.
LEMMA AgainPairs ==
  ASSUME IInv, PInv, NEW c \in Calls, call[c].pc \in InTransaction, call' = Released(c, "claim"),
         queue' = queue, spoiled' = spoiled, drops' = drops
  PROVE  PInv'
<1>1. TypeOK /\ "claim" \in Labels
  BY DEF IInv, Labels
<1>2. PICK r \in CallDocs : /\ Released(c, "claim") = [call EXCEPT ![c] = r] /\ Freed(c, "claim", r)
                            /\ r.todo = call[c].todo /\ r.goal = call[c].goal
  BY <1>1, ReleasedIs
<1>3. r.user = Self(c) /\ r.pc = "claim"
  BY <1>2 DEF Freed
<1>4. r.goal = "join"
  BY <1>2 DEF PInv, Joining
<1>5. \A v : On(call[c], v) => On(r, v)
  BY <1>2, <1>3 DEF On, InTransaction
<1>6. Queued' = Queued /\ Settled' = Settled
  BY DEF Queued, Settled
<1>7. QED
  BY <1>1, <1>2, <1>3, <1>4, <1>5, <1>6, PairsKeptBy

\* One turn of the loop: a candidate is passed over only when it is to be dropped
\* or blocked.
LEMMA PickPairs == ASSUME IInv, PInv, NEW c \in Calls, Pick(c)  PROVE PInv'
<1>1. TypeOK /\ call[c].pc = "pick" /\ call[c].locks = {} /\ "claim" \in Labels
  BY NothingHeld DEF IInv, Pick, At, Labels
<1>2. Queued' = Queued /\ spoiled' = spoiled
  BY DEF Pick, Queued
<1>3. PICK us : us = {}
  OBVIOUS
<1>4. CASE call[c].todo = <<>> /\ call' = Closed(c) /\ drops' = drops
  <2>1. PICK r \in CallDocs : call' = [call EXCEPT ![c] = r] /\ Freed(c, "done", r)
    BY <1>1, <1>4, ClosedIs
  <2>2. r.user = Self(c) /\ r.pc = "done"
    BY <2>1 DEF Freed
  <2>3. \A v : ~On(call[c], v)
    BY <1>1, <1>4 DEF On, ToSet
  <2>4. Settled' = Settled
    BY <1>2, <1>4 DEF Settled
  <2>5. QED
    BY <1>1, <1>2, <2>1, <2>2, <2>3, <2>4, PairsKeptBy DEF InTransaction
<1>5. CASE call[c].todo # <<>> /\ call' = NextCandidate(c) /\ drops' = drops \cup {Candidate(c)}
  <2>1. Settled \subseteq Settled' /\ Candidate(c) \in Settled'
    BY <1>2, <1>5 DEF Settled
  <2>2. Pair(c) \cap Settled' # {}
    BY <2>1 DEF Pair
  <2>3. QED
    BY <1>1, <1>2, <1>5, <2>1, <2>2, NextPairs
<1>6. CASE call[c].todo # <<>> /\ call' = NextCandidate(c) /\ Pair(c) \in Blocked /\ drops' = drops
  <2>1. Settled' = Settled
    BY <1>2, <1>6 DEF Settled
  <2>2. QED
    BY <1>1, <1>2, <1>6, <2>1, NextPairs
<1>7. CASE Goto(c, "claim") /\ drops' = drops
  <2>1. PICK r \in CallDocs : /\ call' = [call EXCEPT ![c] = r] /\ Freed(c, "claim", r)
                              /\ r.todo = call[c].todo /\ r.goal = call[c].goal
    BY <1>1, <1>7, GotoIs
  <2>2. r.user = Self(c) /\ r.pc = "claim"
    BY <2>1 DEF Freed
  <2>3. r.goal = "join"
    BY <1>1, <2>1 DEF PInv, Joining
  <2>4. \A v : On(call[c], v) => On(r, v)
    BY <1>1, <2>1, <2>2 DEF On
  <2>5. Settled' = Settled
    BY <1>2, <1>7 DEF Settled
  <2>6. QED
    BY <1>1, <1>2, <2>1, <2>2, <2>3, <2>4, <2>5, PairsKeptBy
<1>8. QED
  BY <1>4, <1>5, <1>6, <1>7 DEF Pick

\* The first deletion: a candidate who is gone is not waiting any more, and a
\* queued caller sees their own entry in the snapshot.
LEMMA ClaimOtherPairs == ASSUME IInv, PInv, NEW c \in Calls, ClaimOther(c)  PROVE PInv'
<1>1. call[c].pc = "claim" /\ call[c].pc \in InTransaction
  BY DEF ClaimOther, At, InTransaction
<1>2. /\ TypeOK /\ call[c].todo # <<>> /\ call[c] \in CallDocs /\ call \in [Calls -> CallDocs]
      /\ Candidate(c) \in Users
  BY <1>1, InsideTransaction
<1>3. Queued' = Queued /\ Settled \subseteq Settled'
  BY DEF ClaimOther, Queued, Settled
<1>4. PICK us : us = {}
  OBVIOUS
<1>5. CASE Candidate(c) \notin Queued /\ call' = NextCandidate(c)
  <2>1. ~(Pair(c) \subseteq Queued')
    BY <1>3, <1>5 DEF Pair
  <2>2. QED
    BY <1>1, <1>2, <1>3, <1>5, <2>1, NextPairs
<1>6. CASE call' = Closed(c) /\ spoiled' = spoiled \cup {Self(c)}
  <2>1. PICK r \in CallDocs : call' = [call EXCEPT ![c] = r] /\ Freed(c, "done", r)
    BY <1>2, <1>6, ClosedIs
  <2>2. r.user = Self(c) /\ r.pc = "done"
    BY <2>1 DEF Freed
  <2>3. Self(c) \in Settled'
    BY <1>6 DEF Settled
  <2>4. QED
    BY <1>2, <1>3, <2>1, <2>2, <2>3, PairsKeptBy DEF InTransaction
<1>7. CASE call' = [call EXCEPT ![c].pc = "self", ![c].locks = {Candidate(c)},
                                ![c].snap = IF Self(c) \in Queued THEN "queued" ELSE "absent"]
  <2> DEFINE r == [call[c] EXCEPT !.pc = "self", !.locks = {Candidate(c)},
                                  !.snap = IF Self(c) \in Queued THEN "queued" ELSE "absent"]
  <2>1. /\ r \in CallDocs /\ r.pc = "self" /\ r.user = Self(c) /\ r.todo = call[c].todo
        /\ r.goal = call[c].goal /\ (Self(c) \in Queued => r.snap = "queued")
    <3>1. "self" \in Labels
      BY DEF Labels
    <3>2. QED
      BY <1>2, <3>1 DEF CallDocs, Self
  <2>2. call' = [call EXCEPT ![c] = r]
    BY <1>2, <1>7
  <2> HIDE DEF r
  <2>3. r.goal = "join"
    BY <1>1, <2>1 DEF PInv, Joining
  <2>4. \A v : Self(c) \in Queued' /\ On(call[c], v) => On(r, v)
    BY <1>1, <1>3, <2>1 DEF On
  <2>5. QED
    BY <1>2, <1>3, <2>1, <2>2, <2>3, <2>4, PairsKeptBy
<1>8. QED
  BY <1>5, <1>6, <1>7 DEF ClaimOther
\* The second deletion gives the candidate up only for a caller who was not queued
\* at the snapshot.
LEMMA ClaimSelfPairs == ASSUME IInv, PInv, NEW c \in Calls, ClaimSelf(c)  PROVE PInv'
<1>1. call[c].pc = "self" /\ call[c].pc \in InTransaction
  BY DEF ClaimSelf, At, InTransaction
<1>2. /\ TypeOK /\ call[c].todo # <<>> /\ call[c] \in CallDocs /\ call \in [Calls -> CallDocs]
      /\ Pair(c) \subseteq Users
  BY <1>1, InsideTransaction
<1>3. queue' = queue /\ spoiled' = spoiled /\ drops' = drops
  BY DEF ClaimSelf
<1>4. Queued' = Queued /\ Settled' = Settled
  BY <1>3 DEF Queued, Settled
<1>5. PICK us : us = {}
  OBVIOUS
<1>6. CASE call[c].snap = "absent" /\ call' = NextCandidate(c)
  <2>1. ~On(call[c], Candidate(c))
    BY <1>1, <1>6 DEF On, Candidate
  <2>2. QED
    BY <1>1, <1>2, <1>4, <1>6, <2>1, NextPairs
<1>7. CASE call' = Released(c, "claim")
  BY <1>1, <1>3, <1>7, AgainPairs
<1>8. CASE call' = [call EXCEPT ![c].pc = "create", ![c].locks = Pair(c)]
  <2> DEFINE r == [call[c] EXCEPT !.pc = "create", !.locks = Pair(c)]
  <2>1. /\ r \in CallDocs /\ r.pc = "create" /\ r.user = Self(c) /\ r.todo = call[c].todo
        /\ r.goal = call[c].goal
    <3>1. "create" \in Labels
      BY DEF Labels
    <3>2. QED
      BY <1>2, <3>1 DEF CallDocs, Self
  <2>2. call' = [call EXCEPT ![c] = r]
    BY <1>2, <1>8
  <2> HIDE DEF r
  <2>3. r.goal = "join"
    BY <1>1, <2>1 DEF PInv, Joining
  <2>4. \A v : On(call[c], v) => On(r, v)
    BY <1>1, <2>1 DEF On
  <2>5. QED
    BY <1>2, <1>4, <2>1, <2>2, <2>3, <2>4, PairsKeptBy
<1>9. QED
  BY <1>6, <1>7, <1>8 DEF ClaimSelf

\* A pair whose session the index refuses has met an error, or is tried again.
LEMMA CreatePairs == ASSUME IInv, PInv, NEW c \in Calls, Create(c)  PROVE PInv'
<1>1. call[c].pc = "create" /\ call[c].pc \in InTransaction
  BY DEF Create, At, InTransaction
<1>2. /\ TypeOK /\ call[c].todo # <<>> /\ call[c] \in CallDocs /\ call \in [Calls -> CallDocs]
  BY <1>1, InsideTransaction
<1>3. queue' = queue /\ drops' = drops
  BY DEF Create
<1>4. Queued' = Queued /\ Settled \subseteq Settled'
  BY <1>3 DEF Create, Queued, Settled
<1>5. PICK us : us = {}
  OBVIOUS
<1>6. CASE call' = NextCandidate(c) /\ spoiled' = spoiled \cup Pair(c)
  <2>1. Pair(c) \cap Settled' # {}
    BY <1>6 DEF Settled, Pair
  <2>2. QED
    BY <1>1, <1>2, <1>4, <1>6, <2>1, NextPairs
<1>7. CASE call' = Released(c, "claim") /\ spoiled' = spoiled
  BY <1>1, <1>3, <1>7, AgainPairs
<1>8. CASE call' = [call EXCEPT ![c].pc = "commit", ![c].made = TRUE]
  <2> DEFINE r == [call[c] EXCEPT !.pc = "commit", !.made = TRUE]
  <2>1. /\ r \in CallDocs /\ r.pc = "commit" /\ r.user = Self(c) /\ r.todo = call[c].todo
        /\ r.goal = call[c].goal
    <3>1. "commit" \in Labels
      BY DEF Labels
    <3>2. QED
      BY <1>2, <3>1 DEF CallDocs, Self
  <2>2. call' = [call EXCEPT ![c] = r]
    BY <1>2, <1>8
  <2> HIDE DEF r
  <2>3. r.goal = "join"
    BY <1>1, <2>1 DEF PInv, Joining
  <2>4. \A v : On(call[c], v) => On(r, v)
    BY <1>1, <2>1 DEF On
  <2>5. QED
    BY <1>2, <1>4, <2>1, <2>2, <2>3, <2>4, PairsKeptBy
<1>9. QED
  BY <1>6, <1>7, <1>8 DEF Create

\* A commit takes its two users out of every pair.
LEMMA CommitPairs ==
  ASSUME IInv, PInv, NEW c \in Calls, Commit(c) \/ CommitUnheard(c)  PROVE PInv'
<1>1. At(c, "commit") /\ Matched(c) /\ call[c].pc \in InTransaction
  BY DEF Commit, CommitUnheard, At, InTransaction
<1>2. TypeOK /\ call[c].todo # <<>>
  BY <1>1, InsideTransaction
<1>3. Queued' = Queued \ Pair(c)
  BY <1>1, MatchIs
<1>4. Self(c) \notin Queued' /\ Queued' \subseteq Queued /\ Settled' = Settled
  BY <1>3 DEF Pair, Commit, CommitUnheard, Settled
<1>5. PICK us : us = Pair(c)
  OBVIOUS
<1>6. CASE call' = Touch(Closed(c), Pair(c))
  <2>1. PICK r \in CallDocs : Closed(c) = [call EXCEPT ![c] = r] /\ Freed(c, "done", r)
    BY <1>2, ClosedIs
  <2>2. r.user = Self(c) /\ r.pc = "done"
    BY <2>1 DEF Freed
  <2>3. call' = Touch([call EXCEPT ![c] = r], us)
    BY <1>5, <1>6, <2>1
  <2>4. QED
    BY <1>2, <1>4, <2>2, <2>3, PairsKeptBy DEF InTransaction
<1>7. CASE call' = Touch(NextCandidate(c), Pair(c))
  <2>1. ~(Pair(c) \subseteq Queued')
    BY <1>4 DEF Pair
  <2>2. QED
    BY <1>1, <1>2, <1>4, <1>5, <1>7, <2>1, NextPairs
<1>8. QED
  BY <1>6, <1>7 DEF Commit, CommitUnheard

\* A transaction that is rolled back is run again, or is an error of its pair.
LEMMA RollbackPairs ==
  ASSUME IInv, PInv, NEW c \in Calls, CommitAborted(c) \/ TransactionFails(c)  PROVE PInv'
<1>1. call[c].pc \in InTransaction /\ queue' = queue /\ drops' = drops
  BY DEF CommitAborted, TransactionFails, At, InTransaction
<1>2. call[c].todo # <<>>
  BY <1>1, InsideTransaction
<1>3. PICK us : us = {}
  OBVIOUS
<1>4. CASE CommitAborted(c)
  BY <1>1, <1>4, AgainPairs DEF CommitAborted
<1>5. CASE TransactionFails(c)
  <2>1. Settled \subseteq Settled' /\ Pair(c) \cap Settled' # {} /\ Queued' = Queued
    BY <1>1, <1>5 DEF TransactionFails, Settled, Pair, Queued
  <2>2. QED
    BY <1>1, <1>2, <1>5, <2>1, NextPairs DEF TransactionFails
<1>6. QED
  BY <1>4, <1>5

\* Those who wait before the first call are blocked from each other.
LEMMA InitPairs == Init => PInv
<1> SUFFICES ASSUME Init  PROVE PInv
  OBVIOUS
<1>1. \A c \in Calls : call[c].pc = "idle"
  BY DEF Init
<1>2. Paired
  BY DEF Init, Paired, Queued
<1>3. Joining
  BY <1>1 DEF Joining, InTransaction
<1>4. QED
  BY <1>2, <1>3 DEF PInv

\* While no more users wait than a call scans, every step keeps the pairs.
LEMMA NextPairsInv == IInv /\ PInv /\ ShortQueue /\ [Next]_vars => PInv'
<1> SUFFICES ASSUME IInv, PInv, ShortQueue, [Next]_vars  PROVE PInv'
  OBVIOUS
<1>1. ASSUME NEW c \in Calls, Start(c) \/ Find(c) \/ EndSession(c) \/ Dequeue(c) \/ Enqueue(c)
      PROVE  PInv'
  BY <1>1, StartPairs, FindPairs, EndPairs, DequeuePairs, EnqueuePairs
<1>2. ASSUME NEW c \in Calls, Attempt(c)  PROVE PInv'
  BY <1>2, ScanPairs, LoadPairs, PickPairs, ClaimOtherPairs, ClaimSelfPairs, CreatePairs,
     CommitPairs, RollbackPairs DEF Attempt
<1>3. ASSUME NEW c \in Calls, Abandon(c)  PROVE PInv'
  BY <1>3, AbandonPairs
<1>4. ASSUME NEW u \in Users, Drop(u) \/ DropLost(u) \/ Moderate(u)  PROVE PInv'
  BY <1>4, DropPairs, AsidePairs
<1>5. CASE UNCHANGED vars
  BY <1>5 DEF vars, PInv, Joining, Paired, Tried, Settled, On, Self, Queued
<1>6. QED
  BY <1>1, <1>2, <1>3, <1>4, <1>5 DEF Next

\* As long as no more users wait than a call scans (its own entry and MaxScan
\* others), two waiting users who could be matched are not left behind when all
\* calls are answered, unless an attempt, a call or a drop of one of them failed.
THEOREM NoPairIsForgotten == Spec /\ []ShortQueue => []NoPairLeftWaiting
<1>1. IInv /\ PInv => NoPairLeftWaiting
  <2> SUFFICES ASSUME PInv, Quiet, NEW u \in Queued, NEW v \in Queued, Compatible(u, v)
               PROVE  {u, v} \cap spoiled # {}
    BY DEF NoPairLeftWaiting
  <2>1. Tried(u, v)
    BY DEF PInv, Paired, Compatible
  <2>2. \A c \in Calls : \A w : ~On(call[c], w)
    BY DEF Quiet, On
  <2>3. Settled = spoiled
    BY DEF Quiet, Settled
  <2>4. QED
    BY <2>1, <2>2, <2>3 DEF Tried
<1>2. QED
  BY <1>1, InitInv, NextInv, InitPairs, NextPairsInv, PTL DEF Spec
\* So with no more users than a call scans, whatever they do, nobody is forgotten.
THEOREM FewUsersAreNeverForgotten ==
  ASSUME IsFiniteSet(Users), Cardinality(Users) <= MaxScan + 1
  PROVE  Spec => []NoPairLeftWaiting
<1>1. IInv => ShortQueue
  <2> SUFFICES ASSUME IInv  PROVE ShortQueue
    OBVIOUS
  <2>1. queue \in Seq(Users) /\ IsInjective(queue)
    BY DEF IInv, TypeOK, Safe
  <2>2. ToSet(queue) \subseteq Users /\ Cardinality(ToSet(queue)) = Len(queue)
    BY <2>1, QueueCounts DEF ToSet
  <2>3. Len(queue) <= Cardinality(Users) /\ Len(queue) \in Nat /\ Cardinality(Users) \in Nat
    BY <2>1, <2>2, FS_Subset, FS_CardinalityType
  <2>4. QED
    BY <2>3 DEF ShortQueue
<1>2. QED
  BY <1>1, MatchInvariant, NoPairIsForgotten, PTL
=============================================================================
