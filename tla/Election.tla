------------------------------ MODULE Election ------------------------------
(***************************************************************************)
(* Quorum-gated election of a primary: reddb-server,                       *)
(* replication/election.rs, with the vote-only members of witness.rs.      *)
(*                                                                         *)
(* A candidate (ElectionCoordinator::run) asks the voters one after the    *)
(* other, first in a dry run and then for real; a voter (Voter::consider)  *)
(* answers from its durable last vote.  The calls behind ElectionTransport *)
(* are a network: a request reaches its voter late, twice or never, and an *)
(* answer may be lost.  A candidate may crash at any step; what a voter    *)
(* has persisted survives.  A voter handles one request at a time: its     *)
(* store offers load and persist but no compare-and-swap, so this is what  *)
(* the vote rule needs of whoever routes requests to it.                   *)
(*                                                                         *)
(* bump_term belongs to the transport, which the repository leaves to its  *)
(* caller: "Durably advance this node's current term".  RecordsSelfVote    *)
(* says whether it also records the candidate's vote for itself in the     *)
(* candidate's own last-vote store, as its Voter would.                    *)
(***************************************************************************)
EXTENDS Integers, FiniteSets

CONSTANTS
    Data,              \* healthy members that hold data: they vote and stand
    Witnesses,         \* vote-only members
    CatchingUp,        \* replicas still syncing: they neither vote nor stand
    RecordsSelfVote,   \* does bump_term record the candidate's own vote?
    MaxTerm,           \* bound: terms
    MaxLsn             \* bound: log positions

ASSUME MembersAssumption ==
    /\ IsFiniteSet(Data) /\ IsFiniteSet(Witnesses)
    /\ Data \cap CatchingUp = {} /\ Witnesses \cap CatchingUp = {}
ASSUME RecordsAssumption == RecordsSelfVote \in BOOLEAN
ASSUME BoundsAssumption == MaxTerm \in Nat /\ MaxLsn \in Nat

VARIABLES
    \* Durable.
    last_vote,      \* LastVoteStore of each voter: [term, voted_for]
    current_term,   \* the term each member thinks the cluster is serving
    log,            \* highest LSN in each member's log
    watermark,      \* the commit watermark each member knows of
    \* The election each member is running, if any.
    phase,          \* "idle", "probe" or "ballot"
    term, lsn,      \* VoteRequest.term and last_log_lsn of its requests
    unasked,        \* peers it has still to ask
    votes,          \* who has granted, itself included
    callee,         \* the peer it waits for
    answer,         \* what that peer has decided
    \* The network and history.
    ballots,        \* the real VoteRequests sent, each with its destination
    granted,        \* real grants: voter, term and candidate
    elected,        \* promotions: node, term, lsn and what was known then
    known           \* the watermark a majority knew when the member stood

durableVars == <<last_vote, current_term, log, watermark>>
coordinatorVars == <<phase, term, lsn, unasked, votes, callee, answer>>
vars == <<durableVars, coordinatorVars, ballots, granted, elected, known>>

-----------------------------------------------------------------------------
NoOne == "no one"

\* Member::is_voter and is_electable.
Voters == Data \cup Witnesses
Members == Voters \cup CatchingUp
ASSUME NoOneAssumption == NoOne \notin Members
is_electable(n) == n \in Data

Term == 0..MaxTerm
Lsn == 0..MaxLsn
LastVote == [term : Term, voted_for : Members \cup {NoOne}]
VoteRequest == [candidate : Data, term : Term, lsn : Lsn, dry_run : BOOLEAN, to : Voters]

\* Mutant: half of the voters is enough.
bug_quorum_threshold == Cardinality(Voters) \div 2

quorum_threshold == Cardinality(Voters) \div 2 + 1
is_quorum(S) == Cardinality(S) >= quorum_threshold

\* Mutant: a candidate also asks the members that do not vote.
bug_peers(n) == Members \ {n}

peers(n) == Voters \ {n}

\* The request the member is asking its peers with.
request(n, v) == [candidate |-> n, term |-> term[n], lsn |-> lsn[n],
                  dry_run |-> phase[n] = "probe", to |-> v]

\* Mutant: the voter forgets the watermark rule.
bug_grants_uncovered(v, c, t, l) ==
    \/ t > last_vote[v].term
    \/ t = last_vote[v].term /\ last_vote[v].voted_for \in {c, NoOne}

\* Mutant: the voter forgets whom it has voted for in this term.
bug_grants_twice(v, c, t, l) == l >= watermark[v] /\ t >= last_vote[v].term

\* Voter::consider: the candidate's log covers the watermark, its term is not
\* stale, and the voter has not voted for another in that term.
grants(v, c, t, l) ==
    /\ l >= watermark[v]
    /\ \/ t > last_vote[v].term
       \/ t = last_vote[v].term /\ last_vote[v].voted_for \in {c, NoOne}

\* History: w is the highest watermark that a majority of the voters knows.
majority_knows(w) ==
    /\ is_quorum({v \in Voters : watermark[v] >= w})
    /\ \A u \in Lsn : is_quorum({v \in Voters : watermark[v] >= u}) => u <= w

-----------------------------------------------------------------------------
Init ==
    /\ last_vote = [n \in Members |-> [term |-> 0, voted_for |-> NoOne]]
    /\ current_term = [n \in Members |-> 0]
    /\ log = [n \in Members |-> 0]
    /\ watermark = [n \in Members |-> 0]
    /\ phase = [n \in Members |-> "idle"]
    /\ term = [n \in Members |-> 0] /\ lsn = [n \in Members |-> 0]
    /\ unasked = [n \in Members |-> {}]
    /\ votes = [n \in Members |-> {}]
    /\ callee = [n \in Members |-> NoOne]
    /\ answer = [n \in Members |-> "none"]
    /\ ballots = {} /\ granted = {} /\ elected = {}
    /\ known = [n \in Members |-> 0]

\* ElectionCoordinator::run begins: the electability guard, then the probe.
\* known records, for the properties, the watermark that a majority knows.
Stand(n) ==
    /\ phase[n] = "idle"
    /\ is_electable(n) /\ log[n] >= watermark[n]
    /\ current_term[n] < MaxTerm
    /\ phase' = [phase EXCEPT ![n] = "probe"]
    /\ term' = [term EXCEPT ![n] = current_term[n] + 1]
    /\ lsn' = [lsn EXCEPT ![n] = log[n]]
    /\ unasked' = [unasked EXCEPT ![n] = peers(n)]
    /\ votes' = [votes EXCEPT ![n] = {n}]
    /\ \E w \in Lsn : majority_knows(w) /\ known' = [known EXCEPT ![n] = w]
    /\ UNCHANGED <<durableVars, callee, answer, ballots, granted, elected>>

\* One turn of the loop of collect, while the votes do not suffice.
Ask(n) ==
    /\ phase[n] # "idle" /\ callee[n] = NoOne
    /\ ~ is_quorum(votes[n])
    /\ \E v \in unasked[n] :
          /\ unasked' = [unasked EXCEPT ![n] = @ \ {v}]
          /\ callee' = [callee EXCEPT ![n] = v]
          /\ ballots' = IF phase[n] = "ballot" THEN ballots \cup {request(n, v)} ELSE ballots
    /\ answer' = [answer EXCEPT ![n] = "none"]
    /\ UNCHANGED <<durableVars, phase, term, lsn, votes, granted, elected, known>>

\* The requests a voter may receive: those of the calls that wait, and real
\* ones of any age.  (A dry run leaves no trace, so a late one is nothing.)
under_way == ballots \cup {request(n, callee[n]) : n \in {c \in Data : callee[c] # NoOne}}

\* Mutant: the voter persists what it was only asked in a dry run.
bug_Consider(m) ==
    LET decision == IF grants(m.to, m.candidate, m.term, m.lsn) THEN "granted" ELSE "refused"
    IN  /\ answer' = IF callee[m.candidate] = m.to /\ request(m.candidate, m.to) = m
                     THEN [answer EXCEPT ![m.candidate] = decision] ELSE answer
        /\ decision = "granted"
        /\ last_vote' = [last_vote EXCEPT ![m.to] = [term |-> m.term, voted_for |-> m.candidate]]
        /\ UNCHANGED <<current_term, log, watermark, phase, term, lsn, unasked, votes, callee,
                       ballots, granted, elected, known>>

\* The voter persists a real grant before it answers; an answer to a candidate
\* that no longer waits for it is lost.
Consider(m) ==
    LET decision == IF grants(m.to, m.candidate, m.term, m.lsn) THEN "granted" ELSE "refused"
        c == m.candidate
    IN  /\ answer' = IF callee[c] = m.to /\ request(c, m.to) = m
                     THEN [answer EXCEPT ![c] = decision] ELSE answer
        /\ IF decision = "granted" /\ ~ m.dry_run
           THEN /\ last_vote' = [last_vote EXCEPT ![m.to] = [term |-> m.term, voted_for |-> c]]
                /\ granted' = granted \cup {[voter |-> m.to, term |-> m.term, candidate |-> c]}
           ELSE UNCHANGED <<last_vote, granted>>
        /\ UNCHANGED <<current_term, log, watermark, phase, term, lsn, unasked, votes, callee,
                       ballots, elected, known>>

\* The call returns: the voter's decision, or none (the transport's refusal).
Return(n) ==
    /\ callee[n] # NoOne
    /\ votes' = [votes EXCEPT ![n] = IF answer[n] = "granted" THEN @ \cup {callee[n]} ELSE @]
    /\ callee' = [callee EXCEPT ![n] = NoOne]
    /\ UNCHANGED <<durableVars, phase, term, lsn, unasked, answer, ballots, granted, elected, known>>

Unreachable(n) ==
    /\ callee[n] # NoOne
    /\ callee' = [callee EXCEPT ![n] = NoOne]
    /\ UNCHANGED <<durableVars, phase, term, lsn, unasked, votes, answer, ballots,
                   granted, elected, known>>

\* The probe reached a quorum: bump_term, then collect for real.  A transport
\* that records the self-vote goes on only if the candidate's own Voter grants.
BumpTerm(n) ==
    /\ phase[n] = "probe" /\ callee[n] = NoOne
    /\ is_quorum(votes[n])
    /\ RecordsSelfVote => grants(n, n, term[n], lsn[n])
    /\ IF RecordsSelfVote
       THEN /\ last_vote' = [last_vote EXCEPT ![n] = [term |-> term[n], voted_for |-> n]]
            /\ granted' = granted \cup {[voter |-> n, term |-> term[n], candidate |-> n]}
       ELSE UNCHANGED <<last_vote, granted>>
    /\ current_term' = [current_term EXCEPT ![n] = IF @ < term[n] THEN term[n] ELSE @]
    /\ phase' = [phase EXCEPT ![n] = "ballot"]
    /\ unasked' = [unasked EXCEPT ![n] = peers(n)]
    /\ votes' = [votes EXCEPT ![n] = {n}]
    /\ UNCHANGED <<log, watermark, term, lsn, callee, answer, ballots, elected, known>>

\* run returns; nothing of the election stays in memory.
Leave(n) ==
    /\ phase' = [phase EXCEPT ![n] = "idle"]
    /\ term' = [term EXCEPT ![n] = 0] /\ lsn' = [lsn EXCEPT ![n] = 0]
    /\ unasked' = [unasked EXCEPT ![n] = {}]
    /\ votes' = [votes EXCEPT ![n] = {}]
    /\ callee' = [callee EXCEPT ![n] = NoOne]
    /\ answer' = [answer EXCEPT ![n] = "none"]
    /\ known' = [known EXCEPT ![n] = 0]
    /\ UNCHANGED <<durableVars, ballots, granted>>

\* The ballot reached a quorum: promote.
Promote(n) ==
    /\ phase[n] = "ballot" /\ callee[n] = NoOne
    /\ is_quorum(votes[n])
    /\ elected' = elected \cup {[node |-> n, term |-> term[n], lsn |-> lsn[n], known |-> known[n]]}
    /\ Leave(n)

\* The peers are exhausted: ProbeFailed or Lost.
Exhausted(n) ==
    /\ phase[n] # "idle" /\ callee[n] = NoOne
    /\ unasked[n] = {} /\ ~ is_quorum(votes[n])
    /\ Leave(n)
    /\ UNCHANGED elected

\* The randomized timeout has elapsed before the next peer is asked.
TimedOut(n) ==
    /\ phase[n] # "idle" /\ callee[n] = NoOne
    /\ unasked[n] # {} /\ ~ is_quorum(votes[n])
    /\ Leave(n)
    /\ UNCHANGED elected

\* The candidate's process stops, or its bump_term does not return.
Crash(n) ==
    /\ phase[n] # "idle"
    /\ Leave(n)
    /\ UNCHANGED elected

-----------------------------------------------------------------------------
(* What happens around the elections (external to election.rs).            *)

\* A member hears of a primary of a newer term.
LearnTerm(n) ==
    /\ \E e \in elected : /\ current_term[n] < e.term
                          /\ current_term' = [current_term EXCEPT ![n] = e.term]
    /\ UNCHANGED <<last_vote, log, watermark, coordinatorVars, ballots, granted, elected, known>>

\* Replication reaches a member that may stand.
Replicate(n) ==
    /\ n \in Data /\ log[n] < MaxLsn
    /\ log' = [log EXCEPT ![n] = @ + 1]
    /\ UNCHANGED <<last_vote, current_term, watermark, coordinatorVars, ballots, granted,
                   elected, known>>

\* A member hears of a higher commit watermark: a position some log has.
LearnWatermark(n) ==
    /\ n \in Voters
    /\ \E m \in Members : /\ watermark[n] < log[m]
                          /\ watermark' = [watermark EXCEPT ![n] = log[m]]
    /\ UNCHANGED <<last_vote, current_term, log, coordinatorVars, ballots, granted, elected, known>>

-----------------------------------------------------------------------------
Next ==
    \/ \E n \in Members : \/ Stand(n) \/ Ask(n) \/ Return(n) \/ Unreachable(n)
                          \/ BumpTerm(n) \/ Promote(n)
                          \/ Exhausted(n) \/ TimedOut(n) \/ Crash(n)
                          \/ LearnTerm(n) \/ Replicate(n) \/ LearnWatermark(n)
    \/ \E m \in under_way : Consider(m)

Spec == Init /\ [][Next]_vars

-----------------------------------------------------------------------------
(* Properties.                                                             *)

\* Every variable keeps its type; in particular a candidate only ever asks
\* the voting members (election.rs: "every other voting member").
TypeOK ==
    /\ last_vote \in [Members -> LastVote]
    /\ current_term \in [Members -> Term]
    /\ log \in [Members -> Lsn] /\ watermark \in [Members -> Lsn]
    /\ phase \in [Members -> {"idle", "probe", "ballot"}]
    /\ term \in [Members -> Term] /\ lsn \in [Members -> Lsn]
    /\ unasked \in [Members -> SUBSET Voters] /\ votes \in [Members -> SUBSET Voters]
    /\ callee \in [Members -> Voters \cup {NoOne}]
    /\ answer \in [Members -> {"none", "granted", "refused"}]
    /\ ballots \subseteq VoteRequest
    /\ granted \subseteq [voter : Voters, term : Term, candidate : Data]
    /\ elected \subseteq [node : Data, term : Term, lsn : Lsn, known : Lsn]
    /\ known \in [Members -> Lsn]

\* Durable last-vote: no voter grants one term to two candidates, whatever is
\* delayed or repeated and whoever crashes.
VotesOncePerTerm ==
    \A g, h \in granted : g.voter = h.voter /\ g.term = h.term => g.candidate = h.candidate

\* election.rs, "No two primaries in a term": at most one candidate is
\* promoted in a term.
OnePrimaryPerTerm ==
    \A e, f \in elected : e.term = f.term => e.node = f.node

\* The watermark vote rule: who is promoted has every write at or below the
\* watermark that a majority of the voters knew of when it stood, however
\* little it knew itself.
CoversKnownWatermark == \A e \in elected : e.known <= e.lsn

\* The dry run burns no terms: no voter's durable term runs ahead of the terms
\* for which somebody has won a probe.
ProbesBurnNoTerms == \A v \in Voters : last_vote[v].term > 0 =>
                        \E n \in Data : last_vote[v].term <= current_term[n]
=============================================================================
