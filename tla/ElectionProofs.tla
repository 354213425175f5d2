--------------------------- MODULE ElectionProofs ---------------------------
(***************************************************************************)
(* Proofs about Election, for any members and any bounds.                  *)
(***************************************************************************)
EXTENDS Election, FiniteSetTheorems, TLAPS

\* A candidate is a data member that counts itself; the votes of a ballot, and
\* the one that is on its way back, are grants its voters have persisted.
Candidates ==
    \A n \in Members : phase[n] # "idle" =>
        /\ n \in Data /\ n \in votes[n]
        /\ phase[n] = "ballot" =>
              /\ term[n] <= current_term[n]
              /\ \A v \in votes[n] :
                    v = n \/ [voter |-> v, term |-> term[n], candidate |-> n] \in granted
              /\ callee[n] # NoOne /\ answer[n] = "granted" =>
                    [voter |-> callee[n], term |-> term[n], candidate |-> n] \in granted
              /\ RecordsSelfVote =>
                    [voter |-> n, term |-> term[n], candidate |-> n] \in granted

\* Only a member that runs an election waits for an answer.
Waiting == \A n \in Members : callee[n] # NoOne => phase[n] # "idle"

\* A voter's last vote is not older than any grant, and it is the grant of its
\* own term.
LastVotes ==
    \A g \in granted :
        /\ g.term <= last_vote[g.voter].term
        /\ g.term = last_vote[g.voter].term => last_vote[g.voter].voted_for = g.candidate

\* A ballot is a real request, of a term its candidate has bumped to.
Ballots == \A m \in ballots : ~ m.dry_run /\ m.term <= current_term[m.candidate]

\* Behind every primary stands a quorum of grants.
Mandates ==
    RecordsSelfVote =>
        \A e \in elected : \E S \in SUBSET Voters :
            /\ is_quorum(S)
            /\ \A v \in S : [voter |-> v, term |-> e.term, candidate |-> e.node] \in granted

\* A candidate that lacks a write that a majority knows to be committed faces
\* a quorum of voters that have not granted and will not.
Blocked(n) ==
    \E K \in SUBSET Voters :
        /\ is_quorum(K)
        /\ \A v \in K : /\ watermark[v] >= known[n]
                        /\ v \notin votes[n]
                        /\ ~ (callee[n] = v /\ answer[n] = "granted")
WatermarkRule ==
    \A n \in Members : phase[n] # "idle" => known[n] <= lsn[n] \/ Blocked(n)

Inv == /\ TypeOK /\ Candidates /\ Waiting /\ LastVotes /\ VotesOncePerTerm /\ Ballots
       /\ ProbesBurnNoTerms /\ Mandates /\ WatermarkRule /\ CoversKnownWatermark

-----------------------------------------------------------------------------
\* Two quorums of voters share a voter.
LEMMA QuorumsIntersect ==
    ASSUME NEW S \in SUBSET Voters, NEW T \in SUBSET Voters, is_quorum(S), is_quorum(T)
    PROVE  S \cap T # {}
<1>1. IsFiniteSet(Voters)
    BY FS_Union, MembersAssumption DEF Voters
<1>2. IsFiniteSet(S) /\ IsFiniteSet(T) /\ IsFiniteSet(S \cup T) /\ S \cup T \subseteq Voters
    BY <1>1, FS_Subset, FS_Union
<1>3. /\ Cardinality(S \cup T) = Cardinality(S) + Cardinality(T) - Cardinality(S \cap T)
      /\ Cardinality(S \cup T) <= Cardinality(Voters)
    BY <1>1, <1>2, FS_Union, FS_Subset
<1>4. /\ Cardinality(S) \in Nat /\ Cardinality(T) \in Nat /\ Cardinality(Voters) \in Nat
      /\ Cardinality(S \cup T) \in Nat
    BY <1>1, <1>2, FS_CardinalityType
<1>5. SUFFICES ASSUME S \cap T = {} PROVE FALSE
    OBVIOUS
<1>6. Cardinality(S \cap T) = 0
    BY <1>5, FS_EmptySet
<1>7. Cardinality(S) >= Cardinality(Voters) \div 2 + 1 /\ Cardinality(T) >= Cardinality(Voters) \div 2 + 1
    BY DEF is_quorum, quorum_threshold
<1>8. Cardinality(S) + Cardinality(T) <= Cardinality(Voters)
    BY <1>3, <1>4, <1>6
<1> QED
    BY <1>4, <1>7, <1>8

\* The initial states satisfy the invariant.
LEMMA InitInv == Init => Inv
<1> SUFFICES ASSUME Init PROVE Inv
    OBVIOUS
<1>1. TypeOK
    BY BoundsAssumption DEF Init, TypeOK, Term, Lsn, LastVote, Members
<1> QED
    BY <1>1 DEF Init, Inv, Candidates, Waiting, LastVotes, VotesOncePerTerm, Ballots,
                ProbesBurnNoTerms, Mandates, WatermarkRule, CoversKnownWatermark, Members, Voters
\* The requests a voter can receive are well formed; the real ones are of a
\* term their candidate has bumped to.
LEMMA UnderWayType ==
    ASSUME Inv, NEW m \in under_way
    PROVE  /\ m \in VoteRequest
           /\ ~ m.dry_run => m.term <= current_term[m.candidate]
<1>1. CASE m \in ballots
    BY <1>1 DEF Inv, TypeOK, Ballots
<1>2. CASE m \notin ballots
    <2>1. PICK n \in Data : callee[n] # NoOne /\ m = request(n, callee[n])
        BY <1>2 DEF under_way
    <2>2. n \in Members /\ phase[n] # "idle"
        BY <2>1 DEF Inv, Waiting, Members, Voters
    <2>3. m \in VoteRequest
        BY <2>1, <2>2 DEF Inv, TypeOK, request, VoteRequest
    <2>4. ASSUME ~ m.dry_run PROVE m.term <= current_term[m.candidate]
        <3>1. phase[n] = "ballot" /\ m.term = term[n] /\ m.candidate = n
            BY <2>1, <2>2, <2>4 DEF request, Inv, TypeOK
        <3> QED
            BY <2>2, <3>1 DEF Inv, Candidates
    <2> QED
        BY <2>3, <2>4
<1> QED
    BY <1>1, <1>2

\* What a request that a voter receives is made of.
LEMMA RequestFields ==
    ASSUME NEW m \in VoteRequest
    PROVE  /\ m.candidate \in Data /\ m.candidate \in Members
           /\ m.to \in Voters /\ m.to \in Members
           /\ m.term \in Term /\ m.lsn \in Lsn /\ m.dry_run \in BOOLEAN
BY DEF VoteRequest, Members, Voters

\* Every step preserves the types.
LEMMA TypeStep == Inv /\ [Next]_vars => TypeOK'
<1> SUFFICES ASSUME Inv, [Next]_vars PROVE TypeOK'
    OBVIOUS
<1>t. TypeOK
    BY DEF Inv
<1>v. Voters \subseteq Members /\ Data \subseteq Voters
    BY DEF Members, Voters
<1>1. ASSUME NEW n \in Members, Stand(n) PROVE TypeOK'
    <2>1. current_term[n] + 1 \in Term /\ log[n] \in Lsn /\ n \in Voters
        BY <1>t, <1>v, <1>1, BoundsAssumption DEF Stand, TypeOK, Term, is_electable
    <2>2. PICK w \in Lsn : known' = [known EXCEPT ![n] = w]
        BY <1>1 DEF Stand
    <2> QED
        BY <1>t, <1>v, <1>1, <2>1, <2>2 DEF Stand, TypeOK, durableVars, peers
<1>2. ASSUME NEW n \in Members, Ask(n) PROVE TypeOK'
    <2>1. PICK v \in unasked[n] :
              /\ unasked' = [unasked EXCEPT ![n] = @ \ {v}]
              /\ callee' = [callee EXCEPT ![n] = v]
              /\ ballots' = IF phase[n] = "ballot" THEN ballots \cup {request(n, v)} ELSE ballots
        BY <1>2 DEF Ask
    <2>2. v \in Voters /\ n \in Data
        BY <1>t, <1>2, <2>1 DEF TypeOK, Ask, Inv, Candidates
    <2>3. request(n, v) \in VoteRequest
        BY <1>t, <2>2 DEF request, VoteRequest, TypeOK
    <2> QED
        BY <1>t, <1>2, <2>1, <2>2, <2>3 DEF Ask, TypeOK, durableVars
<1>3. ASSUME NEW n \in Members, Return(n) PROVE TypeOK'
    BY <1>t, <1>3 DEF Return, TypeOK, durableVars
<1>4. ASSUME NEW n \in Members, Unreachable(n) PROVE TypeOK'
    BY <1>t, <1>4 DEF Unreachable, TypeOK, durableVars
<1>5. ASSUME NEW n \in Members, BumpTerm(n) PROVE TypeOK'
    <2>1. n \in Data /\ n \in Voters /\ term[n] \in Term /\ n \in Members \cup {NoOne}
        BY <1>t, <1>v, <1>5 DEF BumpTerm, Inv, Candidates, TypeOK
    <2>2. [voter |-> n, term |-> term[n], candidate |-> n] \in [voter : Voters, term : Term, candidate : Data]
        BY <2>1
    <2>3. last_vote' \in [Members -> LastVote]
        BY <1>t, <1>5, <2>1 DEF BumpTerm, TypeOK, LastVote
    <2>4. granted' \subseteq [voter : Voters, term : Term, candidate : Data]
        BY <1>t, <1>5, <2>2 DEF BumpTerm, TypeOK
    <2>5. current_term' \in [Members -> Term]
        BY <1>t, <1>5, <2>1 DEF BumpTerm, TypeOK
    <2> QED
        BY <1>t, <1>5, <2>1, <2>3, <2>4, <2>5 DEF BumpTerm, TypeOK, peers
<1>6. ASSUME NEW n \in Members, Leave(n), elected' \subseteq [node : Data, term : Term, lsn : Lsn, known : Lsn]
      PROVE  TypeOK'
    BY <1>t, <1>6, BoundsAssumption DEF Leave, TypeOK, durableVars, Term, Lsn
<1>7. ASSUME NEW n \in Members, Promote(n) PROVE TypeOK'
    <2>1. [node |-> n, term |-> term[n], lsn |-> lsn[n], known |-> known[n]]
             \in [node : Data, term : Term, lsn : Lsn, known : Lsn]
        BY <1>t, <1>7 DEF Promote, Inv, Candidates, TypeOK
    <2> QED
        BY <1>t, <1>6, <1>7, <2>1 DEF Promote, TypeOK
<1>8. ASSUME NEW n \in Members, Exhausted(n) \/ TimedOut(n) \/ Crash(n) PROVE TypeOK'
    BY <1>t, <1>6, <1>8 DEF Exhausted, TimedOut, Crash, TypeOK
<1>9. ASSUME NEW n \in Members, LearnTerm(n) PROVE TypeOK'
    <2>1. PICK e \in elected : current_term' = [current_term EXCEPT ![n] = e.term]
        BY <1>9 DEF LearnTerm
    <2>2. e.term \in Term
        BY <1>t DEF TypeOK
    <2> QED
        BY <1>t, <1>9, <2>1, <2>2 DEF LearnTerm, TypeOK, coordinatorVars
<1>10. ASSUME NEW n \in Members, Replicate(n) PROVE TypeOK'
    <2>1. log[n] + 1 \in Lsn
        BY <1>t, <1>10, BoundsAssumption DEF Replicate, TypeOK, Lsn
    <2> QED
        BY <1>t, <1>10, <2>1 DEF Replicate, TypeOK, coordinatorVars
<1>11. ASSUME NEW n \in Members, LearnWatermark(n) PROVE TypeOK'
    <2>1. PICK m \in Members : watermark' = [watermark EXCEPT ![n] = log[m]]
        BY <1>11 DEF LearnWatermark
    <2> QED
        BY <1>t, <1>11, <2>1 DEF LearnWatermark, TypeOK, coordinatorVars
<1>12. ASSUME NEW m \in under_way, Consider(m) PROVE TypeOK'
    <2>1. m \in VoteRequest
        BY UnderWayType
    <2>2. m.to \in Members /\ m.to \in Voters /\ m.term \in Term /\ m.candidate \in Data
            /\ m.candidate \in Members \cup {NoOne}
        BY <2>1, RequestFields
    <2>3. last_vote' \in [Members -> LastVote]
        BY <1>t, <1>12, <2>2 DEF Consider, TypeOK, LastVote
    <2>4. granted' \subseteq [voter : Voters, term : Term, candidate : Data]
        BY <1>t, <1>12, <2>2 DEF Consider, TypeOK
    <2>5. answer' \in [Members -> {"none", "granted", "refused"}]
        BY <1>t, <1>12 DEF Consider, TypeOK
    <2> QED
        BY <1>t, <1>12, <2>3, <2>4, <2>5 DEF Consider, TypeOK
<1>13. ASSUME UNCHANGED vars PROVE TypeOK'
    BY <1>t, <1>13 DEF vars, durableVars, coordinatorVars, TypeOK
<1> QED
    BY <1>1, <1>2, <1>3, <1>4, <1>5, <1>7, <1>8, <1>9, <1>10, <1>11, <1>12, <1>13 DEF Next

-----------------------------------------------------------------------------
\* What a step may do, in few cases: the steps around the elections and the
\* stutters leave the elections alone.
Outside == UNCHANGED <<last_vote, coordinatorVars, ballots, granted, elected, known>>

\* Grants are never withdrawn; terms and watermarks never go back.
LEMMA Monotone ==
    ASSUME Inv, [Next]_vars
    PROVE  /\ granted \subseteq granted'
           /\ \A k \in Members : current_term[k] <= current_term'[k] /\ watermark[k] <= watermark'[k]
<1>t. TypeOK
    BY DEF Inv
<1>n. \A k \in Members : current_term[k] \in Int /\ watermark[k] \in Int /\ term[k] \in Int
    BY <1>t DEF TypeOK, Term, Lsn
<1> DEFINE P == /\ granted \subseteq granted'
                /\ \A k \in Members : current_term[k] <= current_term'[k] /\ watermark[k] <= watermark'[k]
<1>1. ASSUME UNCHANGED <<granted, current_term, watermark>> PROVE P
    BY <1>n, <1>1
<1>2. ASSUME NEW n \in Members, BumpTerm(n) PROVE P
    BY <1>n, <1>t, <1>2 DEF BumpTerm, TypeOK
<1>3. ASSUME NEW n \in Members, LearnTerm(n) PROVE P
    <2>1. PICK e \in elected : current_term[n] < e.term /\ current_term' = [current_term EXCEPT ![n] = e.term]
        BY <1>3 DEF LearnTerm
    <2>2. e.term \in Int
        BY <1>t DEF TypeOK, Term
    <2> QED
        BY <1>n, <1>t, <1>3, <2>1, <2>2 DEF LearnTerm, TypeOK
<1>4. ASSUME NEW n \in Members, LearnWatermark(n) PROVE P
    <2>1. PICK m \in Members : watermark[n] < log[m] /\ watermark' = [watermark EXCEPT ![n] = log[m]]
        BY <1>4 DEF LearnWatermark
    <2>2. log[m] \in Int
        BY <1>t DEF TypeOK, Lsn
    <2> QED
        BY <1>n, <1>t, <1>4, <2>1, <2>2 DEF LearnWatermark, TypeOK
<1>5. ASSUME NEW m \in under_way, Consider(m) PROVE P
    BY <1>n, <1>5 DEF Consider
<1>6. ASSUME NEW n \in Members,
             Stand(n) \/ Ask(n) \/ Return(n) \/ Unreachable(n) \/ Promote(n) \/ Exhausted(n)
               \/ TimedOut(n) \/ Crash(n) \/ Replicate(n)
      PROVE  P
    BY <1>1, <1>6 DEF Stand, Ask, Return, Unreachable, Promote, Exhausted, TimedOut, Crash, Leave,
                      Replicate, durableVars
<1>7. ASSUME UNCHANGED vars PROVE P
    BY <1>1, <1>7 DEF vars, durableVars
<1> QED
    BY <1>2, <1>3, <1>4, <1>5, <1>6, <1>7 DEF Next

\* The steps, grouped by what the proofs have to look at.
LEMMA StepKinds ==
    ASSUME [Next]_vars
    PROVE  \/ \E n \in Members : \/ Stand(n) \/ Ask(n) \/ Return(n) \/ Unreachable(n)
                                 \/ BumpTerm(n) \/ Promote(n)
                                 \/ (Leave(n) /\ UNCHANGED elected)
           \/ \E m \in under_way : Consider(m)
           \/ Outside
<1>1. ASSUME NEW n \in Members, Exhausted(n) \/ TimedOut(n) \/ Crash(n)
      PROVE  Leave(n) /\ UNCHANGED elected
    BY <1>1 DEF Exhausted, TimedOut, Crash
<1>2. ASSUME NEW n \in Members, LearnTerm(n) \/ Replicate(n) \/ LearnWatermark(n) PROVE Outside
    BY <1>2 DEF LearnTerm, Replicate, LearnWatermark, Outside
<1>3. ASSUME UNCHANGED vars PROVE Outside
    BY <1>3 DEF vars, durableVars, Outside
<1> QED
    BY <1>1, <1>2, <1>3 DEF Next

\* A vote that the voter's rule allows agrees with every grant before it.
LEMMA GrantStep ==
    ASSUME Inv, NEW v \in Voters, NEW c \in Data, NEW t \in Term, NEW l, grants(v, c, t, l),
           last_vote' = [last_vote EXCEPT ![v] = [term |-> t, voted_for |-> c]],
           granted' = granted \cup {[voter |-> v, term |-> t, candidate |-> c]}
    PROVE  LastVotes' /\ VotesOncePerTerm'
<1>1. /\ v \in Members /\ last_vote \in [Members -> LastVote]
      /\ granted \subseteq [voter : Voters, term : Term, candidate : Data]
    BY DEF Inv, TypeOK, Members
<1>2. last_vote'[v] = [term |-> t, voted_for |-> c] /\ \A u \in Members \ {v} : last_vote'[u] = last_vote[u]
    BY <1>1
<1>n. t \in Int /\ last_vote[v].term \in Int /\ \A g \in granted : g.term \in Int
    BY <1>1 DEF LastVote, Term
<1>3. \A g \in granted : g.voter = v => g.term < t \/ (g.term = t /\ g.candidate = c)
    <2> SUFFICES ASSUME NEW g \in granted, g.voter = v PROVE g.term < t \/ (g.term = t /\ g.candidate = c)
        OBVIOUS
    <2>1. g.candidate # NoOne
        BY <1>1, NoOneAssumption DEF Members, Voters
    <2>2. /\ g.term <= last_vote[v].term
          /\ g.term = last_vote[v].term => last_vote[v].voted_for = g.candidate
        BY DEF Inv, LastVotes
    <2> QED
        BY <1>n, <2>1, <2>2 DEF grants
<1>4. LastVotes'
    <2> SUFFICES ASSUME NEW g \in granted'
                 PROVE  /\ g.term <= last_vote'[g.voter].term
                        /\ g.term = last_vote'[g.voter].term => last_vote'[g.voter].voted_for = g.candidate
        BY DEF LastVotes
    <2>1. CASE g \in granted /\ g.voter # v
        <3>1. g.voter \in Members \ {v}
            BY <1>1, <2>1 DEF Members
        <3> QED
            BY <1>2, <2>1, <3>1 DEF Inv, LastVotes
    <2>2. CASE g \in granted /\ g.voter = v
        BY <1>2, <1>3, <1>n, <2>2
    <2>3. CASE g = [voter |-> v, term |-> t, candidate |-> c]
        BY <1>2, <1>n, <2>3
    <2> QED
        BY <2>1, <2>2, <2>3
<1>5. VotesOncePerTerm'
    <2> SUFFICES ASSUME NEW g \in granted', NEW h \in granted', g.voter = h.voter, g.term = h.term
                 PROVE  g.candidate = h.candidate
        BY DEF VotesOncePerTerm
    <2>1. CASE g \in granted /\ h \in granted
        BY <2>1 DEF Inv, VotesOncePerTerm
    <2>2. CASE g \in granted /\ h \notin granted
        BY <1>3, <1>n, <2>2
    <2>3. CASE g \notin granted /\ h \in granted
        BY <1>3, <1>n, <2>3
    <2>4. CASE g \notin granted /\ h \notin granted
        BY <2>4
    <2> QED
        BY <2>1, <2>2, <2>3, <2>4
<1> QED
    BY <1>4, <1>5

\* Every step keeps the votes of a term to one candidate.
LEMMA VotesStep == Inv /\ [Next]_vars => LastVotes' /\ VotesOncePerTerm'
<1> SUFFICES ASSUME Inv, [Next]_vars PROVE LastVotes' /\ VotesOncePerTerm'
    OBVIOUS
<1>1. ASSUME UNCHANGED <<last_vote, granted>> PROVE LastVotes' /\ VotesOncePerTerm'
    BY <1>1 DEF Inv, LastVotes, VotesOncePerTerm
<1>2. ASSUME NEW n \in Members, BumpTerm(n) PROVE LastVotes' /\ VotesOncePerTerm'
    <2>1. CASE RecordsSelfVote
        <3>1. n \in Data /\ n \in Voters /\ term[n] \in Term
            BY <1>2 DEF BumpTerm, Inv, Candidates, TypeOK, Voters
        <3> QED
            BY <1>2, <2>1, <3>1, GrantStep DEF BumpTerm
    <2>2. CASE ~ RecordsSelfVote
        BY <1>1, <1>2, <2>2 DEF BumpTerm
    <2> QED
        BY <2>1, <2>2
<1>3. ASSUME NEW m \in under_way, Consider(m) PROVE LastVotes' /\ VotesOncePerTerm'
    <2>1. m \in VoteRequest
        BY UnderWayType
    <2>2. m.to \in Voters /\ m.candidate \in Data /\ m.term \in Term
        BY <2>1, RequestFields
    <2>3. CASE grants(m.to, m.candidate, m.term, m.lsn) /\ ~ m.dry_run
        BY <1>3, <2>2, <2>3, GrantStep DEF Consider
    <2>4. CASE ~ (grants(m.to, m.candidate, m.term, m.lsn) /\ ~ m.dry_run)
        BY <1>1, <1>3, <2>4 DEF Consider
    <2> QED
        BY <2>3, <2>4
<1>4. ASSUME NEW n \in Members,
             Stand(n) \/ Ask(n) \/ Return(n) \/ Unreachable(n) \/ Promote(n) \/ Leave(n)
      PROVE  LastVotes' /\ VotesOncePerTerm'
    BY <1>1, <1>4 DEF Stand, Ask, Return, Unreachable, Promote, Leave, durableVars
<1>5. ASSUME Outside PROVE LastVotes' /\ VotesOncePerTerm'
    BY <1>1, <1>5 DEF Outside
<1> QED
    BY <1>2, <1>3, <1>4, <1>5, StepKinds

\* Every step keeps the candidates' tallies honest.
LEMMA CandidatesStep == Inv /\ [Next]_vars => Candidates' /\ Waiting'
<1> SUFFICES ASSUME Inv, [Next]_vars PROVE Candidates' /\ Waiting'
    OBVIOUS
<1>t. TypeOK /\ Candidates /\ Waiting
    BY DEF Inv
<1>m. /\ granted \subseteq granted'
      /\ \A k \in Members : current_term[k] <= current_term'[k]
    BY Monotone
<1>n. \A k \in Members : current_term[k] \in Int /\ current_term'[k] \in Int /\ term[k] \in Int
    BY <1>t, TypeStep DEF TypeOK, Term
<1> DEFINE Good(k) ==
        /\ phase'[k] # "idle" =>
             /\ k \in Data /\ k \in votes'[k]
             /\ phase'[k] = "ballot" =>
                  /\ term'[k] <= current_term'[k]
                  /\ \A v \in votes'[k] :
                        v = k \/ [voter |-> v, term |-> term'[k], candidate |-> k] \in granted'
                  /\ callee'[k] # NoOne /\ answer'[k] = "granted" =>
                        [voter |-> callee'[k], term |-> term'[k], candidate |-> k] \in granted'
                  /\ RecordsSelfVote =>
                        [voter |-> k, term |-> term'[k], candidate |-> k] \in granted'
        /\ callee'[k] # NoOne => phase'[k] # "idle"
<1> SUFFICES ASSUME NEW k \in Members PROVE Good(k)
    BY DEF Candidates, Waiting
<1>c. phase[k] # "idle" => k \in Data /\ k \in votes[k]
    BY <1>t DEF Candidates
<1>b. phase[k] = "ballot" =>
          /\ term[k] <= current_term'[k]
          /\ \A v \in votes[k] :
                v = k \/ [voter |-> v, term |-> term[k], candidate |-> k] \in granted'
          /\ callee[k] # NoOne /\ answer[k] = "granted" =>
                [voter |-> callee[k], term |-> term[k], candidate |-> k] \in granted'
          /\ RecordsSelfVote => [voter |-> k, term |-> term[k], candidate |-> k] \in granted'
    <2> SUFFICES ASSUME phase[k] = "ballot" PROVE <1>b!2
        OBVIOUS
    <2>0. phase[k] # "idle"
        OBVIOUS
    <2>1. term[k] <= current_term[k]
        BY <1>t, <2>0 DEF Candidates
    <2>2. term[k] <= current_term'[k]
        BY <1>m, <1>n, <2>1
    <2> QED
        BY <1>t, <1>m, <2>0, <2>2, Zenon DEF Candidates
<1>0. ASSUME phase'[k] = phase[k], term'[k] = term[k], votes'[k] = votes[k], callee'[k] = callee[k],
             answer'[k] = answer[k]
      PROVE  Good(k)
    BY <1>0, <1>t, <1>c, <1>b DEF Waiting
<1>1. ASSUME NEW n \in Members, Stand(n) PROVE Good(k)
    <2>1. CASE k # n
        BY <1>0, <1>1, <1>t, <2>1 DEF Stand, TypeOK
    <2>2. CASE k = n
        BY <1>1, <1>t, <2>2 DEF Stand, TypeOK, Waiting, is_electable
    <2> QED
        BY <2>1, <2>2
<1>2. ASSUME NEW n \in Members, Ask(n) PROVE Good(k)
    <2>1. CASE k # n
        BY <1>0, <1>2, <1>t, <2>1 DEF Ask, TypeOK
    <2>2. CASE k = n
        <3>1. phase'[k] = phase[k] /\ term'[k] = term[k] /\ votes'[k] = votes[k] /\ answer'[k] = "none"
                /\ phase[k] # "idle"
            BY <1>2, <1>t, <2>2 DEF Ask, TypeOK
        <3> QED
            BY <1>t, <1>c, <1>b, <3>1 DEF Waiting
    <2> QED
        BY <2>1, <2>2
<1>3. ASSUME NEW n \in Members, Return(n) PROVE Good(k)
    <2>1. CASE k # n
        BY <1>0, <1>3, <1>t, <2>1 DEF Return, TypeOK
    <2>2. CASE k = n
        <3>1. /\ phase'[k] = phase[k] /\ term'[k] = term[k] /\ callee'[k] = NoOne /\ callee[k] # NoOne
              /\ votes'[k] = IF answer[k] = "granted" THEN votes[k] \cup {callee[k]} ELSE votes[k]
            BY <1>3, <1>t, <2>2 DEF Return, TypeOK
        <3> QED
            BY <1>t, <1>c, <1>b, <3>1 DEF Waiting
    <2> QED
        BY <2>1, <2>2
<1>4. ASSUME NEW n \in Members, Unreachable(n) PROVE Good(k)
    <2>1. CASE k # n
        BY <1>0, <1>4, <1>t, <2>1 DEF Unreachable, TypeOK
    <2>2. CASE k = n
        <3>1. phase'[k] = phase[k] /\ term'[k] = term[k] /\ callee'[k] = NoOne /\ votes'[k] = votes[k]
            BY <1>4, <1>t, <2>2 DEF Unreachable, TypeOK
        <3> QED
            BY <1>t, <1>c, <1>b, <3>1 DEF Waiting
    <2> QED
        BY <2>1, <2>2
<1>5. ASSUME NEW n \in Members, BumpTerm(n) PROVE Good(k)
    <2>1. CASE k # n
        BY <1>0, <1>5, <1>t, <2>1 DEF BumpTerm, TypeOK
    <2>2. CASE k = n
        <3>1. /\ phase'[k] = "ballot" /\ term'[k] = term[k] /\ votes'[k] = {k} /\ callee'[k] = NoOne
              /\ phase[k] # "idle"
            BY <1>5, <1>t, <2>2 DEF BumpTerm, TypeOK
        <3>2. term[k] <= current_term'[k]
            BY <1>5, <1>t, <1>n, <2>2 DEF BumpTerm, TypeOK
        <3>3. RecordsSelfVote => [voter |-> k, term |-> term[k], candidate |-> k] \in granted'
            BY <1>5, <2>2 DEF BumpTerm
        <3> QED
            BY <1>t, <3>1, <3>2, <3>3 DEF Candidates
    <2> QED
        BY <2>1, <2>2
<1>6. ASSUME NEW n \in Members, Leave(n) PROVE Good(k)
    <2>1. CASE k # n
        BY <1>0, <1>6, <1>t, <2>1 DEF Leave, TypeOK
    <2>2. CASE k = n
        BY <1>6, <1>t, <2>2 DEF Leave, TypeOK
    <2> QED
        BY <2>1, <2>2
<1>7. ASSUME NEW n \in Members, Promote(n) PROVE Good(k)
    BY <1>6, <1>7 DEF Promote
<1>8. ASSUME NEW m \in under_way, Consider(m) PROVE Good(k)
    <2>1. UNCHANGED <<phase, term, votes, callee>>
        BY <1>8 DEF Consider
    <2>2. CASE answer'[k] = answer[k]
        BY <1>0, <2>1, <2>2
    <2>3. CASE answer'[k] # answer[k]
        <3>1. m.candidate = k /\ callee[k] = m.to /\ request(k, m.to) = m
            BY <1>8, <1>t, <2>3 DEF Consider, TypeOK
        <3>2. m.term = term[k] /\ m.dry_run = (phase[k] = "probe")
            BY <3>1 DEF request
        <3>3. phase[k] = "ballot" /\ answer'[k] = "granted" =>
                  [voter |-> callee[k], term |-> term[k], candidate |-> k] \in granted'
            BY <1>8, <1>t, <3>1, <3>2 DEF Consider, TypeOK
        <3> QED
            BY <1>t, <1>c, <1>b, <2>1, <3>3 DEF Waiting
    <2> QED
        BY <2>2, <2>3
<1>9. ASSUME Outside PROVE Good(k)
    BY <1>0, <1>9 DEF Outside, coordinatorVars
<1> QED
    BY <1>1, <1>2, <1>3, <1>4, <1>5, <1>6, <1>7, <1>8, <1>9, StepKinds

\* Every step keeps the ballots, and what voters have recorded, within the
\* terms that candidates have bumped to.
LEMMA TermsStep == Inv /\ [Next]_vars => Ballots' /\ ProbesBurnNoTerms'
<1> SUFFICES ASSUME Inv, [Next]_vars PROVE Ballots' /\ ProbesBurnNoTerms'
    OBVIOUS
<1>t. TypeOK /\ Candidates /\ Ballots /\ ProbesBurnNoTerms
    BY DEF Inv
<1>v. Voters \subseteq Members /\ Data \subseteq Members
    BY DEF Members, Voters
<1>m. \A k \in Members : current_term[k] <= current_term'[k]
    BY Monotone
<1>n. /\ \A k \in Members : current_term[k] \in Int /\ current_term'[k] \in Int /\ term[k] \in Int
      /\ \A k \in Members : last_vote[k].term \in Int
    BY <1>t, TypeStep DEF TypeOK, Term, LastVote
<1>b. \A m \in ballots : m.candidate \in Members /\ m.term \in Int
    BY <1>t, <1>v DEF TypeOK, VoteRequest, Term
<1>1. ASSUME ballots' = ballots PROVE Ballots'
    BY <1>1, <1>t, <1>m, <1>n, <1>b DEF Ballots
<1>2. ASSUME last_vote' = last_vote PROVE ProbesBurnNoTerms'
    <2> SUFFICES ASSUME NEW v \in Voters, last_vote[v].term > 0
                 PROVE  \E n \in Data : last_vote[v].term <= current_term'[n]
        BY <1>2 DEF ProbesBurnNoTerms
    <2>1. PICK n \in Data : last_vote[v].term <= current_term[n]
        BY <1>t DEF ProbesBurnNoTerms
    <2> QED
        BY <1>v, <1>m, <1>n, <2>1
<1>3. ASSUME NEW v \in Voters, NEW c \in Data, NEW x \in Int, x <= current_term'[c],
             last_vote' = [last_vote EXCEPT ![v] = [term |-> x, voted_for |-> c]]
      PROVE  ProbesBurnNoTerms'
    <2> SUFFICES ASSUME NEW u \in Voters, last_vote'[u].term > 0
                 PROVE  \E n \in Data : last_vote'[u].term <= current_term'[n]
        BY DEF ProbesBurnNoTerms
    <2>1. CASE u = v
        BY <1>3, <1>t, <1>v, <2>1 DEF TypeOK
    <2>2. CASE u # v
        <3>1. last_vote'[u] = last_vote[u]
            BY <1>3, <1>t, <1>v, <2>2 DEF TypeOK
        <3>2. PICK n \in Data : last_vote[u].term <= current_term[n]
            BY <1>t, <3>1 DEF ProbesBurnNoTerms
        <3> QED
            BY <1>v, <1>m, <1>n, <3>1, <3>2
    <2> QED
        BY <2>1, <2>2
<1>4. ASSUME NEW n \in Members, Ask(n) PROVE Ballots' /\ ProbesBurnNoTerms'
    <2>1. PICK v \in unasked[n] :
              ballots' = IF phase[n] = "ballot" THEN ballots \cup {request(n, v)} ELSE ballots
        BY <1>4 DEF Ask
    <2>2. CASE phase[n] = "ballot"
        <3>1. ~ request(n, v).dry_run /\ request(n, v).candidate = n /\ request(n, v).term = term[n]
            BY <2>2 DEF request
        <3>2. term[n] <= current_term'[n]
            <4>1. term[n] <= current_term[n]
                BY <1>t, <2>2 DEF Candidates
            <4> QED
                BY <1>m, <1>n, <4>1
        <3>3. Ballots'
            BY <1>t, <1>m, <1>n, <1>b, <2>1, <2>2, <3>1, <3>2 DEF Ballots
        <3> QED
            BY <1>2, <1>4, <3>3 DEF Ask, durableVars
    <2>3. CASE phase[n] # "ballot"
        BY <1>1, <1>2, <1>4, <2>1, <2>3 DEF Ask, durableVars
    <2> QED
        BY <2>2, <2>3
<1>5. ASSUME NEW n \in Members, BumpTerm(n) PROVE Ballots' /\ ProbesBurnNoTerms'
    <2>1. n \in Data /\ n \in Voters
        BY <1>5, <1>t DEF BumpTerm, Candidates, Voters
    <2>2. term[n] <= current_term'[n]
        BY <1>5, <1>t, <1>n DEF BumpTerm, TypeOK
    <2>3. CASE RecordsSelfVote
        BY <1>1, <1>3, <1>5, <1>n, <2>1, <2>2, <2>3 DEF BumpTerm
    <2>4. CASE ~ RecordsSelfVote
        BY <1>1, <1>2, <1>5, <2>4 DEF BumpTerm
    <2> QED
        BY <2>3, <2>4
<1>6. ASSUME NEW m \in under_way, Consider(m) PROVE Ballots' /\ ProbesBurnNoTerms'
    <2>1. m \in VoteRequest /\ (~ m.dry_run => m.term <= current_term[m.candidate])
        BY UnderWayType
    <2>2. /\ m.to \in Voters /\ m.candidate \in Data /\ m.candidate \in Members
          /\ m.term \in Int /\ m.dry_run \in BOOLEAN
        BY <2>1, RequestFields DEF Term
    <2>3. Ballots'
        BY <1>1, <1>6 DEF Consider
    <2>4. CASE grants(m.to, m.candidate, m.term, m.lsn) /\ ~ m.dry_run
        <3>1. last_vote' = [last_vote EXCEPT ![m.to] = [term |-> m.term, voted_for |-> m.candidate]]
            BY <1>6, <2>4 DEF Consider
        <3>2. m.term <= current_term'[m.candidate]
            BY <1>m, <1>n, <2>1, <2>2, <2>4
        <3> QED
            BY <1>3, <2>2, <2>3, <3>1, <3>2
    <2>5. CASE ~ (grants(m.to, m.candidate, m.term, m.lsn) /\ ~ m.dry_run)
        BY <1>2, <1>6, <2>3, <2>5 DEF Consider
    <2> QED
        BY <2>4, <2>5
<1>7. ASSUME NEW n \in Members, Stand(n) \/ Return(n) \/ Unreachable(n) \/ Promote(n) \/ Leave(n)
      PROVE  Ballots' /\ ProbesBurnNoTerms'
    BY <1>1, <1>2, <1>7 DEF Stand, Return, Unreachable, Promote, Leave, durableVars
<1>8. ASSUME Outside PROVE Ballots' /\ ProbesBurnNoTerms'
    BY <1>1, <1>2, <1>8 DEF Outside
<1> QED
    BY <1>4, <1>5, <1>6, <1>7, <1>8, StepKinds

\* Every step keeps a quorum of grants behind every primary.
LEMMA MandatesStep == Inv /\ [Next]_vars => Mandates'
<1> SUFFICES ASSUME Inv, [Next]_vars, RecordsSelfVote, NEW e \in elected'
             PROVE  \E S \in SUBSET Voters :
                        /\ is_quorum(S)
                        /\ \A v \in S : [voter |-> v, term |-> e.term, candidate |-> e.node] \in granted'
    BY DEF Mandates, is_quorum, quorum_threshold
<1>m. granted \subseteq granted'
    BY Monotone
<1>1. CASE e \in elected
    BY <1>1, <1>m DEF Inv, Mandates
<1>2. CASE e \notin elected
    <2>1. PICK n \in Members : Promote(n)
        BY <1>2, StepKinds DEF Stand, Ask, Return, Unreachable, BumpTerm, Consider, Outside
    <2>2. e.node = n /\ e.term = term[n]
        BY <1>2, <2>1 DEF Promote
    <2>3. phase[n] # "idle" /\ phase[n] = "ballot" /\ is_quorum(votes[n])
        BY <2>1 DEF Promote
    <2>4. \A v \in votes[n] : [voter |-> v, term |-> term[n], candidate |-> n] \in granted
        BY <2>3 DEF Inv, Candidates
    <2>5. votes[n] \in SUBSET Voters
        BY DEF Inv, TypeOK
    <2> QED
        BY <1>m, <2>2, <2>3, <2>4, <2>5
<1> QED
    BY <1>1, <1>2

\* Every step keeps a candidate that lacks what a majority knows from a quorum.
LEMMA WatermarkStep == Inv /\ [Next]_vars => WatermarkRule'
<1> SUFFICES ASSUME Inv, [Next]_vars, NEW k \in Members, phase'[k] # "idle", ~ (known'[k] <= lsn'[k])
             PROVE  Blocked(k)'
    BY DEF WatermarkRule
<1>t. TypeOK /\ Candidates /\ WatermarkRule
    BY DEF Inv
<1>v. Voters \subseteq Members
    BY DEF Members
<1>m. \A v \in Members : watermark[v] <= watermark'[v]
    BY Monotone
<1>n. \A v \in Members : /\ watermark[v] \in Int /\ watermark'[v] \in Int
                         /\ known[v] \in Int /\ lsn[v] \in Int /\ log[v] \in Int
    BY <1>t, TypeStep DEF TypeOK, Lsn
\* When k goes on with the election it is in, the quorum that blocks it stays.
<1>0. ASSUME phase[k] # "idle", known'[k] = known[k], lsn'[k] = lsn[k],
             \A v \in Voters : /\ watermark[v] >= known[k]
                               /\ v \notin votes[k]
                               /\ ~ (callee[k] = v /\ answer[k] = "granted")
                               => /\ v \notin votes'[k]
                                  /\ ~ (callee'[k] = v /\ answer'[k] = "granted")
      PROVE  Blocked(k)'
    <2>1. Blocked(k)
        BY <1>0, <1>t DEF WatermarkRule
    <2>2. PICK K \in SUBSET Voters :
              /\ is_quorum(K)
              /\ \A v \in K : /\ watermark[v] >= known[k]
                              /\ v \notin votes[k]
                              /\ ~ (callee[k] = v /\ answer[k] = "granted")
        BY <2>1 DEF Blocked
    <2>3. \A v \in K : watermark'[v] >= known'[k]
        BY <1>0, <1>m, <1>n, <1>v, <2>2
    <2>4. \A v \in K : v \notin votes'[k] /\ ~ (callee'[k] = v /\ answer'[k] = "granted")
        BY <1>0, <2>2
    <2> QED
        BY <2>2, <2>3, <2>4 DEF Blocked, is_quorum, quorum_threshold
<1>s. ASSUME phase'[k] = phase[k], known'[k] = known[k], lsn'[k] = lsn[k], votes'[k] = votes[k],
             callee'[k] = callee[k], answer'[k] = answer[k]
      PROVE  Blocked(k)'
    BY <1>0, <1>s
<1>1. ASSUME NEW n \in Members, Stand(n) PROVE Blocked(k)'
    <2>1. CASE k # n
        <3>1. known'[k] = known[k]
            BY <1>1, <1>t, <2>1 DEF Stand, TypeOK
        <3> QED
            BY <1>s, <1>1, <1>t, <2>1, <3>1 DEF Stand, TypeOK
    <2>2. CASE k = n
        <3>1. PICK w \in Lsn : majority_knows(w) /\ known' = [known EXCEPT ![n] = w]
            BY <1>1 DEF Stand
        <3> DEFINE K == {v \in Voters : watermark[v] >= w}
        <3>2. known'[k] = w /\ lsn'[k] = log[k] /\ votes'[k] = {k} /\ callee'[k] = NoOne
                /\ log[k] >= watermark[k] /\ UNCHANGED watermark
            BY <1>1, <1>t, <2>2, <3>1 DEF Stand, TypeOK, durableVars, Inv, Waiting
        <3>3. w \in Int
            BY DEF Lsn
        <3>4. k \notin K
            BY <1>n, <3>2, <3>3
        <3>5. \A v \in K : v # NoOne /\ watermark'[v] >= known'[k]
            BY <1>v, <3>2, NoOneAssumption
        <3>6. is_quorum(K) /\ K \in SUBSET Voters
            BY <3>1 DEF majority_knows
        <3> QED
            BY <3>2, <3>4, <3>5, <3>6 DEF Blocked, is_quorum, quorum_threshold
    <2> QED
        BY <2>1, <2>2
<1>2. ASSUME NEW n \in Members, Ask(n) PROVE Blocked(k)'
    <2>1. CASE k # n
        BY <1>s, <1>2, <1>t, <2>1 DEF Ask, TypeOK
    <2>2. CASE k = n
        <3>1. /\ phase[k] # "idle" /\ known'[k] = known[k] /\ lsn'[k] = lsn[k] /\ votes'[k] = votes[k]
              /\ answer'[k] = "none"
            BY <1>2, <1>t, <2>2 DEF Ask, TypeOK
        <3> QED
            BY <1>0, <3>1
    <2> QED
        BY <2>1, <2>2
<1>3. ASSUME NEW n \in Members, Return(n) PROVE Blocked(k)'
    <2>1. CASE k # n
        BY <1>s, <1>3, <1>t, <2>1 DEF Return, TypeOK
    <2>2. CASE k = n
        <3>1. /\ phase[k] # "idle" /\ known'[k] = known[k] /\ lsn'[k] = lsn[k]
              /\ votes'[k] = IF answer[k] = "granted" THEN votes[k] \cup {callee[k]} ELSE votes[k]
              /\ callee'[k] = NoOne
            BY <1>3, <1>t, <2>2 DEF Return, TypeOK, Inv, Waiting
        <3> QED
            BY <1>0, <1>v, <3>1, NoOneAssumption
    <2> QED
        BY <2>1, <2>2
<1>4. ASSUME NEW n \in Members, Unreachable(n) PROVE Blocked(k)'
    <2>1. CASE k # n
        BY <1>s, <1>4, <1>t, <2>1 DEF Unreachable, TypeOK
    <2>2. CASE k = n
        <3>1. /\ phase[k] # "idle" /\ known'[k] = known[k] /\ lsn'[k] = lsn[k]
              /\ votes'[k] = votes[k] /\ callee'[k] = NoOne
            BY <1>4, <1>t, <2>2 DEF Unreachable, TypeOK, Inv, Waiting
        <3> QED
            BY <1>0, <1>v, <3>1, NoOneAssumption
    <2> QED
        BY <2>1, <2>2
<1>5. ASSUME NEW n \in Members, BumpTerm(n) PROVE Blocked(k)'
    <2>1. CASE k # n
        BY <1>s, <1>5, <1>t, <2>1 DEF BumpTerm, TypeOK
    <2>2. CASE k = n
        <3>1. /\ phase[k] # "idle" /\ known'[k] = known[k] /\ lsn'[k] = lsn[k]
              /\ votes'[k] = {k} /\ callee'[k] = NoOne /\ k \in votes[k]
            BY <1>5, <1>t, <2>2 DEF BumpTerm, TypeOK, Candidates
        <3> QED
            BY <1>0, <1>v, <3>1, NoOneAssumption
    <2> QED
        BY <2>1, <2>2
<1>6. ASSUME NEW n \in Members, Leave(n) PROVE Blocked(k)'
    <2>1. k # n
        BY <1>6, <1>t DEF Leave, TypeOK
    <2> QED
        BY <1>s, <1>6, <1>t, <2>1 DEF Leave, TypeOK
<1>7. ASSUME NEW n \in Members, Promote(n) PROVE Blocked(k)'
    BY <1>6, <1>7 DEF Promote
<1>8. ASSUME NEW m \in under_way, Consider(m) PROVE Blocked(k)'
    <2>1. UNCHANGED <<phase, lsn, votes, callee, known, watermark>>
        BY <1>8 DEF Consider
    <2>2. CASE answer'[k] = answer[k]
        BY <1>s, <2>1, <2>2
    <2>3. CASE answer'[k] # answer[k]
        <3>1. m.candidate = k /\ callee[k] = m.to /\ request(k, m.to) = m
            BY <1>8, <1>t, <2>3 DEF Consider, TypeOK
        <3>2. m.lsn = lsn[k]
            BY <3>1 DEF request
        <3>3. answer'[k] = "granted" => lsn[k] >= watermark[callee[k]]
            BY <1>8, <1>t, <3>1, <3>2 DEF Consider, TypeOK, grants
        <3>4. \A v \in Voters : watermark[v] >= known[k] =>
                  ~ (callee[k] = v /\ answer'[k] = "granted")
            BY <1>n, <1>v, <2>1, <3>3
        <3> QED
            BY <1>0, <2>1, <3>4
    <2> QED
        BY <2>2, <2>3
<1>9. ASSUME Outside PROVE Blocked(k)'
    BY <1>s, <1>9 DEF Outside, coordinatorVars
<1> QED
    BY <1>1, <1>2, <1>3, <1>4, <1>5, <1>6, <1>7, <1>8, <1>9, StepKinds

\* Every step promotes only candidates that cover what a majority knew.
LEMMA CoversStep == Inv /\ [Next]_vars => CoversKnownWatermark'
<1> SUFFICES ASSUME Inv, [Next]_vars, NEW e \in elected' PROVE e.known <= e.lsn
    BY DEF CoversKnownWatermark
<1>1. CASE e \in elected
    BY <1>1 DEF Inv, CoversKnownWatermark
<1>2. CASE e \notin elected
    <2>1. PICK n \in Members : Promote(n)
        BY <1>2, StepKinds DEF Stand, Ask, Return, Unreachable, BumpTerm, Consider, Outside
    <2>2. e.known = known[n] /\ e.lsn = lsn[n]
        BY <1>2, <2>1 DEF Promote
    <2>3. phase[n] # "idle" /\ is_quorum(votes[n]) /\ votes[n] \in SUBSET Voters
        BY <2>1 DEF Promote, Inv, TypeOK
    <2>4. ~ Blocked(n)
        BY <2>3, QuorumsIntersect DEF Blocked
    <2> QED
        BY <2>2, <2>3, <2>4 DEF Inv, WatermarkRule
<1> QED
    BY <1>1, <1>2

-----------------------------------------------------------------------------
\* The invariant holds in every reachable state.
THEOREM Invariance == Spec => []Inv
<1>1. Inv /\ [Next]_vars => Inv'
    BY TypeStep, VotesStep, CandidatesStep, TermsStep, MandatesStep, WatermarkStep, CoversStep DEF Inv
<1> QED
    BY InitInv, <1>1, PTL DEF Spec

\* The variables of voters and candidates keep their types, and a candidate
\* only ever asks and counts voting members (ElectionCoordinator::run).
THEOREM TypeCorrect == Spec => []TypeOK
<1>1. Inv => TypeOK
    BY DEF Inv
<1> QED
    BY Invariance, <1>1, PTL

\* Voter::consider never grants one term to two candidates, for any members,
\* however requests are delayed or repeated and whoever crashes.
THEOREM VotesAreFinal == Spec => []VotesOncePerTerm
<1>1. Inv => VotesOncePerTerm
    BY DEF Inv
<1> QED
    BY Invariance, <1>1, PTL

\* If bump_term records the candidate's own vote, at most one candidate is
\* promoted in a term, whatever the number of data members and witnesses.
THEOREM ElectionSafety ==
    ASSUME RecordsSelfVote PROVE Spec => []OnePrimaryPerTerm
<1>1. Inv => OnePrimaryPerTerm
    <2> SUFFICES ASSUME Inv, NEW e \in elected, NEW f \in elected, e.term = f.term
                 PROVE  e.node = f.node
        BY DEF OnePrimaryPerTerm
    <2>1. PICK S \in SUBSET Voters :
              /\ is_quorum(S)
              /\ \A v \in S : [voter |-> v, term |-> e.term, candidate |-> e.node] \in granted
        BY DEF Inv, Mandates
    <2>2. PICK T \in SUBSET Voters :
              /\ is_quorum(T)
              /\ \A v \in T : [voter |-> v, term |-> f.term, candidate |-> f.node] \in granted
        BY DEF Inv, Mandates
    <2>3. PICK v \in S \cap T : TRUE
        BY <2>1, <2>2, QuorumsIntersect
    <2> DEFINE g == [voter |-> v, term |-> e.term, candidate |-> e.node]
               h == [voter |-> v, term |-> f.term, candidate |-> f.node]
    <2>4. g \in granted /\ h \in granted
        BY <2>1, <2>2, <2>3
    <2>5. g.candidate = h.candidate
        BY <2>4 DEF Inv, VotesOncePerTerm
    <2> QED
        BY <2>5
<1> QED
    BY Invariance, <1>1, PTL

\* Whoever is promoted has every write at or below the watermark that a
\* majority of the voters knew of when it stood.
THEOREM WatermarkSafety == Spec => []CoversKnownWatermark
<1>1. Inv => CoversKnownWatermark
    BY DEF Inv
<1> QED
    BY Invariance, <1>1, PTL

\* A dry run never moves a voter's durable term past the terms for which some
\* candidate has won a probe.
THEOREM ProbesAreFree == Spec => []ProbesBurnNoTerms
<1>1. Inv => ProbesBurnNoTerms
    BY DEF Inv
<1> QED
    BY Invariance, <1>1, PTL

=============================================================================
