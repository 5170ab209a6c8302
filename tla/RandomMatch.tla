----------------------------- MODULE RandomMatch -----------------------------
(***************************************************************************)
(* The Random 1:1 matchmaker (services/random.service.js): a queue of      *)
(* waiting users, sessions of two, and the calls join, next and leave that *)
(* any number of backend instances run at once.  There is no background    *)
(* matcher: a user is paired by a call of their own or of another user.    *)
(*                                                                         *)
(* attemptMatch deletes both queue entries and creates the session in one  *)
(* MongoDB transaction.  A delete locks its entry until the transaction    *)
(* ends; one that meets a newer or locked entry is a transient error, and  *)
(* withTransaction runs the callback again with the variables of its       *)
(* closure as the previous run left them.                                  *)
(***************************************************************************)
EXTENDS Naturals, FiniteSets, SequencesExt

CONSTANTS
  Users,
  Calls,        \* HTTP calls; a session is named by the call that creates it
  Blocked,      \* pairs {u, v} with a block between them
  MaxScan,      \* MAX_CANDIDATE_SCAN
  Suspendable,  \* users whom staff may suspend and reinstate, once each
  Waiting       \* the queue that earlier calls have left

ASSUME MatchAssumption ==
  /\ Blocked \subseteq SUBSET Users
  /\ MaxScan \in Nat \ {0}
  /\ Suspendable \subseteq Users
  /\ Waiting \in Seq(Users) /\ IsInjective(Waiting)
  /\ \A u, v \in ToSet(Waiting) : u # v => {u, v} \in Blocked

VARIABLES
  queue,     \* RandomQueueEntry documents, oldest first
  sessions,  \* RandomSession documents
  call,      \* the handlers' local state
  drops,     \* entries whose deletion attemptMatch fired and did not await
  standing,  \* isSuspended of each user
  answer,    \* the answer of each call
  spoiled,   \* history: users one of whose attempts ended in an error or a false match
  left       \* history: users whose last finished call is a leave

vars == <<queue, sessions, call, drops, standing, answer, spoiled, left>>

Goals == {"join", "next", "leave"}
Labels == {"idle", "find", "end", "dequeue", "enqueue", "scan", "load", "pick",
           "claim", "self", "create", "commit", "done"}
NoSession == [who |-> {}, status |-> "none"]
NoAnswer == [state |-> "none", session |-> {}]

Queued == ToSet(queue)
\* A queue less the entry of u; a user has one entry at most.
Without(q, u) == IF u \in ToSet(q) THEN RemoveAt(q, CHOOSE i \in DOMAIN q : q[i] = u) ELSE q
ActiveOf(u) == {s \in Calls : sessions[s].status = "matched" /\ u \in sessions[s].who}
Unlocked(u) == \A c \in Calls : u \notin call[c].locks
Self(c) == call[c].user
Candidate(c) == Head(call[c].todo)
Pair(c) == {Self(c), Candidate(c)}

\* What a committed change of the entries of `us' does to open snapshots.
Touch(f, us) ==
  [d \in Calls |-> IF f[d].pc = "self" /\ f[d].user \in us /\ f[d].snap = "queued"
                   THEN [f[d] EXCEPT !.snap = "changed"] ELSE f[d]]

At(c, label) == call[c].pc = label
Goto(c, label) == call' = [call EXCEPT ![c].pc = label]
Released(c, label) == [call EXCEPT ![c].pc = label, ![c].locks = {}]
Closed(c) == [Released(c, "done") EXCEPT ![c].todo = <<>>, ![c].unfit = {}, ![c].snap = "absent",
                                         ![c].target = c, ![c].made = FALSE]
Reply(c, state, s) == answer' = [answer EXCEPT ![c] = [state |-> state, session |-> s]]
\* attemptMatch's catch: forget the session, go on to the next candidate.
NextCandidate(c) ==
  [Released(c, "pick") EXCEPT ![c].todo = Tail(@), ![c].made = FALSE, ![c].snap = "absent"]

\* Some calls of the same user are still running.
Busy(c) == \E d \in Calls \ {c} : Self(d) = Self(c) /\ call[d].pc \notin {"idle", "done"}
-----------------------------------------------------------------------------
Init ==
  /\ queue = Waiting
  /\ sessions = [c \in Calls |-> NoSession]
  /\ \E who \in [Calls -> Users], goal \in [Calls -> Goals] :
       call = [c \in Calls |-> [pc |-> "idle", user |-> who[c], goal |-> goal[c], target |-> c,
                                todo |-> <<>>, unfit |-> {}, locks |-> {}, snap |-> "absent",
                                made |-> FALSE]]
  /\ drops = {}
  /\ standing = [u \in Users |-> "good"]
  /\ answer = [c \in Calls |-> NoAnswer]
  /\ spoiled = {}
  /\ left = {}

\* The controller: join and next are refused to a suspended user, leave is not.
Start(c) ==
  /\ At(c, "idle")
  /\ \/ /\ call[c].goal = "leave" \/ standing[Self(c)] # "barred"
        /\ Goto(c, "find") /\ UNCHANGED answer
     \/ /\ call[c].goal # "leave" /\ standing[Self(c)] = "barred"
        /\ call' = Closed(c) /\ Reply(c, "refused", {})
  /\ left' = left \ {Self(c)}
  /\ UNCHANGED <<queue, sessions, drops, standing, spoiled>>

\* findActiveSession.  next, once it has found none, goes on as join.
Find(c) ==
  /\ At(c, "find")
  /\ \/ \E s \in ActiveOf(Self(c)) :
          \/ call[c].goal = "join" /\ call' = Closed(c) /\ Reply(c, "matched", {s})
          \/ /\ call[c].goal # "join" /\ UNCHANGED answer
             /\ call' = [call EXCEPT ![c].pc = "end", ![c].target = s]
     \/ /\ ActiveOf(Self(c)) = {} /\ UNCHANGED answer
        /\ \/ call[c].goal = "join" /\ Goto(c, "enqueue")
           \/ call[c].goal = "next" /\ call' = [call EXCEPT ![c].goal = "join"]
           \/ call[c].goal = "leave" /\ Goto(c, "dequeue")
  /\ UNCHANGED <<queue, sessions, drops, standing, spoiled, left>>

\* (Mutant: the reason is written into the status.)
EndSessionByReason(c) ==
  /\ At(c, "end")
  /\ sessions' = [sessions EXCEPT ![call[c].target].status = call[c].goal]
  /\ \/ call[c].goal = "leave" /\ Goto(c, "dequeue")
     \/ call[c].goal = "next" /\ call' = [call EXCEPT ![c].goal = "join", ![c].pc = "find"]
  /\ UNCHANGED <<queue, drops, standing, answer, spoiled, left>>

\* endSession ends the session it found unless someone else already did.
EndSession(c) ==
  /\ At(c, "end")
  /\ sessions' = [sessions EXCEPT ![call[c].target].status = "ended"]
  /\ \/ call[c].goal = "leave" /\ Goto(c, "dequeue")
     \/ call[c].goal = "next" /\ call' = [call EXCEPT ![c].goal = "join", ![c].pc = "find"]
  /\ UNCHANGED <<queue, drops, standing, answer, spoiled, left>>

\* dequeue at the end of leave; it waits for a transaction that holds the entry.
Dequeue(c) ==
  /\ At(c, "dequeue") /\ Unlocked(Self(c))
  /\ queue' = Without(queue, Self(c))
  /\ call' = Touch(Closed(c), {Self(c)}) /\ Reply(c, "idle", {})
  /\ left' = IF Busy(c) THEN left ELSE left \cup {Self(c)}
  /\ UNCHANGED <<sessions, drops, standing, spoiled>>

\* An upsert; an entry that an open transaction is deleting is still there.
Enqueue(c) ==
  /\ At(c, "enqueue")
  /\ \/ /\ Self(c) \in Queued /\ Goto(c, "scan") /\ UNCHANGED queue
     \/ /\ Self(c) \notin Queued
        /\ queue' = Append(queue, Self(c))
        /\ call' = Touch([call EXCEPT ![c].pc = "scan"], {Self(c)})
  /\ UNCHANGED <<sessions, drops, standing, answer, spoiled, left>>
-----------------------------------------------------------------------------
(***************************************************************************)
(* attemptMatch                                                            *)
(***************************************************************************)
Others(c) == Without(queue, Self(c))
Scan(c) ==
  /\ At(c, "scan")
  /\ call' = [call EXCEPT ![c].pc = "load",
                          ![c].todo = SubSeq(Others(c), 1, IF Len(Others(c)) < MaxScan
                                                           THEN Len(Others(c)) ELSE MaxScan)]
  /\ UNCHANGED <<queue, sessions, drops, standing, answer, spoiled, left>>

\* Which candidates are eligible, read once for the whole loop.
Load(c) ==
  /\ At(c, "load")
  /\ call' = [call EXCEPT ![c].pc = "pick",
                          ![c].unfit = {u \in ToSet(call[c].todo) : standing[u] = "barred"}]
  /\ UNCHANGED <<queue, sessions, drops, standing, answer, spoiled, left>>

\* One turn of the loop: an ineligible candidate is dropped without waiting, a
\* blocked one skipped; after the last one the user stays in the queue.
Pick(c) ==
  /\ At(c, "pick")
  /\ \/ /\ call[c].todo = <<>>
        /\ call' = Closed(c) /\ Reply(c, "waiting", {}) /\ UNCHANGED drops
     \/ /\ call[c].todo # <<>> /\ Candidate(c) \in call[c].unfit
        /\ call' = NextCandidate(c) /\ drops' = drops \cup {Candidate(c)} /\ UNCHANGED answer
     \/ /\ call[c].todo # <<>> /\ Candidate(c) \notin call[c].unfit /\ Pair(c) \in Blocked
        /\ call' = NextCandidate(c) /\ UNCHANGED <<drops, answer>>
     \/ /\ call[c].todo # <<>> /\ Candidate(c) \notin call[c].unfit /\ Pair(c) \notin Blocked
        /\ Goto(c, "claim") /\ UNCHANGED <<drops, answer>>
  /\ UNCHANGED <<queue, sessions, standing, spoiled, left>>

\* First statement of the transaction, which takes its snapshot.  A callback that
\* runs again and finds the candidate gone returns early, and withTransaction
\* succeeds: the session of the rolled back run is then still in matchedSession.
ClaimOther(c) ==
  /\ At(c, "claim")
  /\ \/ /\ Candidate(c) \notin Queued /\ ~call[c].made
        /\ call' = NextCandidate(c) /\ UNCHANGED <<answer, spoiled>>
     \/ /\ Candidate(c) \notin Queued /\ call[c].made
        /\ call' = Closed(c) /\ Reply(c, "matched", {c}) /\ spoiled' = spoiled \cup {Self(c)}
     \/ /\ Candidate(c) \in Queued /\ Unlocked(Candidate(c))
        /\ call' = [call EXCEPT ![c].pc = "self", ![c].locks = {Candidate(c)},
                                ![c].snap = IF Self(c) \in Queued THEN "queued" ELSE "absent"]
        /\ UNCHANGED <<answer, spoiled>>
  /\ UNCHANGED <<queue, sessions, drops, standing, left>>

\* (Mutant: a caller who is no longer queued is matched all the same.)
ClaimSelfOptional(c) ==
  /\ At(c, "self")
  /\ call' = [call EXCEPT ![c].pc = "create", ![c].locks = Pair(c)]
  /\ UNCHANGED <<queue, sessions, drops, standing, answer, spoiled, left>>

\* (Mutant: a write conflict ends the attempt instead of running it again.)
ClaimSelfOnce(c) ==
  /\ At(c, "self")
  /\ IF call[c].snap = "queued" /\ Unlocked(Self(c))
     THEN call' = [call EXCEPT ![c].pc = "create", ![c].locks = Pair(c)]
     ELSE call' = NextCandidate(c)
  /\ UNCHANGED <<queue, sessions, drops, standing, answer, spoiled, left>>

\* Second delete: RANDOM_SELF_NOT_QUEUED, a write conflict, or both are claimed.
ClaimSelf(c) ==
  /\ At(c, "self")
  /\ \/ call[c].snap = "absent" /\ call' = NextCandidate(c)
     \/ /\ call[c].snap = "changed" \/ (call[c].snap = "queued" /\ ~Unlocked(Self(c)))
        /\ call' = Released(c, "claim")
     \/ /\ call[c].snap = "queued" /\ Unlocked(Self(c))
        /\ call' = [call EXCEPT ![c].pc = "create", ![c].locks = Pair(c)]
  /\ UNCHANGED <<queue, sessions, drops, standing, answer, spoiled, left>>

\* (Mutant: no unique index over the participants of matched sessions.)
CreateWithoutIndex(c) ==
  /\ At(c, "create")
  /\ call' = [call EXCEPT ![c].pc = "commit", ![c].made = TRUE]
  /\ UNCHANGED <<queue, sessions, drops, standing, answer, spoiled, left>>

\* RandomSession.create under the partial unique index on participants.
Create(c) ==
  /\ At(c, "create")
  /\ \/ /\ \A u \in Pair(c) : ActiveOf(u) = {}
        /\ call' = [call EXCEPT ![c].pc = "commit", ![c].made = TRUE] /\ UNCHANGED spoiled
     \/ /\ \E u \in Pair(c) : ActiveOf(u) # {}
        /\ \/ call' = NextCandidate(c) /\ spoiled' = spoiled \cup Pair(c)
           \/ call' = Released(c, "claim") /\ UNCHANGED spoiled
  /\ UNCHANGED <<queue, sessions, drops, standing, answer, left>>

\* (Bound: a call creates one session.)
Matched(c) ==
  /\ sessions[c] = NoSession
  /\ queue' = Without(Without(queue, Candidate(c)), Self(c))
  /\ sessions' = [sessions EXCEPT ![c] = [who |-> Pair(c), status |-> "matched"]]

Commit(c) ==
  /\ At(c, "commit") /\ Matched(c)
  /\ call' = Touch(Closed(c), Pair(c)) /\ Reply(c, "matched", {c})
  /\ UNCHANGED <<drops, standing, spoiled, left>>

\* The commit is applied, but withTransaction throws (its time ran out).
CommitUnheard(c) ==
  /\ At(c, "commit") /\ Matched(c)
  /\ call' = Touch(NextCandidate(c), Pair(c))
  /\ UNCHANGED <<drops, standing, answer, spoiled, left>>

\* The commit is rolled back with a transient error: the callback runs again.
CommitAborted(c) ==
  /\ At(c, "commit") /\ call' = Released(c, "claim")
  /\ UNCHANGED <<queue, sessions, drops, standing, answer, spoiled, left>>

\* Any other error of the transaction, or its time limit: rolled back and caught.
TransactionFails(c) ==
  /\ call[c].pc \in {"claim", "self", "create", "commit"}
  /\ call' = NextCandidate(c) /\ spoiled' = spoiled \cup Pair(c)
  /\ UNCHANGED <<queue, sessions, drops, standing, answer, left>>
-----------------------------------------------------------------------------
\* An error outside the transaction (500), or the process dies.
Abandon(c) ==
  /\ ~At(c, "idle") /\ ~At(c, "done")
  /\ call' = Closed(c) /\ Reply(c, "error", {})
  /\ spoiled' = IF call[c].goal = "leave" THEN spoiled ELSE spoiled \cup {Self(c)}
  /\ UNCHANGED <<queue, sessions, drops, standing, left>>

\* A deletion that attemptMatch fired takes effect, or fails unnoticed.
Drop(u) ==
  /\ u \in drops /\ Unlocked(u)
  /\ queue' = Without(queue, u) /\ call' = Touch(call, {u}) /\ drops' = drops \ {u}
  /\ UNCHANGED <<sessions, standing, answer, spoiled, left>>

DropLost(u) ==
  /\ u \in drops /\ drops' = drops \ {u} /\ spoiled' = spoiled \cup {u}
  /\ UNCHANGED <<queue, sessions, call, standing, answer, left>>

\* Staff suspends and reinstates a user.
Moderate(u) ==
  /\ u \in Suspendable /\ standing[u] # "restored"
  /\ standing' = [standing EXCEPT ![u] = IF @ = "good" THEN "barred" ELSE "restored"]
  /\ UNCHANGED <<queue, sessions, call, drops, answer, spoiled, left>>

Attempt(c) ==
  \/ Scan(c) \/ Load(c) \/ Pick(c) \/ ClaimOther(c) \/ ClaimSelf(c) \/ Create(c)
  \/ Commit(c) \/ CommitUnheard(c) \/ CommitAborted(c) \/ TransactionFails(c)

Next ==
  \/ \E c \in Calls : Start(c) \/ Find(c) \/ EndSession(c) \/ Dequeue(c) \/ Enqueue(c)
                      \/ Attempt(c) \/ Abandon(c)
  \/ \E u \in Users : Drop(u) \/ DropLost(u) \/ Moderate(u)

Spec == Init /\ [][Next]_vars
-----------------------------------------------------------------------------
(***************************************************************************)
(* Properties.                                                             *)
(***************************************************************************)
TypeOK ==
  /\ queue \in Seq(Users)
  /\ sessions \in [Calls -> [who : SUBSET Users, status : {"none", "matched", "ended"}]]
  /\ call \in [Calls -> [pc : Labels, user : Users, goal : Goals, target : Calls,
                         todo : Seq(Users), unfit : SUBSET Users, locks : SUBSET Users,
                         snap : {"queued", "absent", "changed"}, made : BOOLEAN]]
  /\ drops \subseteq Users
  /\ standing \in [Users -> {"good", "barred", "restored"}]
  /\ answer \in [Calls -> [state : {"none", "waiting", "matched", "idle", "refused", "error"},
                           session : SUBSET Calls]]
  /\ spoiled \subseteq Users
  /\ left \subseteq Users

\* Nobody talks to two people at once, and nobody is queued twice.  The queue alone
\* does not give it: a late upsert can queue a user whom another call has just
\* matched, and then only the index stands in the way.
OneSessionPerUser ==
  /\ \A u \in Users : Cardinality(ActiveOf(u)) <= 1
  /\ Cardinality(Queued) = Len(queue)

\* A session takes exactly two users out of the queue, in the step that creates it;
\* nothing else takes an entry but the user's own leave or a drop.
SessionTakesTwo(c) ==
  sessions[c].status = "none" /\ sessions'[c].status = "matched" =>
    /\ Cardinality(sessions'[c].who) = 2
    /\ sessions'[c].who \subseteq Queued
    /\ sessions'[c].who \cap Queued' = {}
EntryIsTaken(u) ==
  \/ u \in drops
  \/ \E c \in Calls : At(c, "dequeue") /\ Self(c) = u
  \/ \E c \in Calls : sessions'[c] # sessions[c] /\ u \in sessions'[c].who
MatchConsumesBoth ==
  [][(\A c \in Calls : SessionTakesTwo(c)) /\ \A u \in Queued \ Queued' : EntryIsTaken(u)]_vars

\* When all calls are answered, two users who could be matched are not both left
\* waiting, since nothing would ever pair them; only an error (of a transaction, a
\* call or a drop) or an answer that names no session can have left them there.
Quiet == drops = {} /\ \A c \in Calls : call[c].pc \in {"idle", "done"}
Compatible(u, v) ==
  /\ u # v /\ {u, v} \notin Blocked
  /\ \A w \in {u, v} : standing[w] # "barred" /\ ActiveOf(w) = {}
NoPairLeftWaiting ==
  Quiet => \A u, v \in Queued : Compatible(u, v) => {u, v} \cap spoiled # {}

\* (Refuted.)  A user whose leave was answered, and who did nothing since, is out:
\* neither queued nor in a live session.
LeaveMeansOut == \A u \in left : u \notin Queued /\ ActiveOf(u) = {}

\* (Refuted.)  Whoever loses a race is told to wait: an answer `matched' names a
\* session that was created.
MatchedAnswerIsReal ==
  \A c \in Calls : \A s \in answer[c].session :
    sessions[s].status # "none" /\ Self(c) \in sessions[s].who
=============================================================================
