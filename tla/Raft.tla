-------------------------------- MODULE Raft --------------------------------
(***************************************************************************)
(* RaftNode, storage/src/raft/mod.rs.  Every handler runs on the node's own  *)
(* task, one message or timer tick at a time.  The code builds its requests  *)
(* and replies and leaves the sending to a comment; rnet stands for that     *)
(* transport: what was built may arrive, late, twice, out of order or never. *)
(* Requests are addressed, and a reply goes back to the asker.               *)
(***************************************************************************)
EXTENDS Integers, Sequences, FiniteSets, FiniteSetsExt, SequencesExt

CONSTANTS RNodes, MaxTerm, MaxRaftLog


VARIABLES rstate, rterm, voted_for, rlog, rcommit, next_index, match_index, rnet
raftVars == <<rstate, rterm, voted_for, rlog, rcommit, next_index, match_index, rnet>>

NoVote == "none"
ASSUME RaftAssumption == MaxTerm \in Nat /\ MaxRaftLog \in Nat /\ IsFiniteSet(RNodes) /\ NoVote \notin RNodes
Peers(n) == RNodes \ {n}

\* RaftNode::new on every node.
RaftInit ==
  /\ rstate = [n \in RNodes |-> "Follower"]
  /\ rterm = [n \in RNodes |-> 0]
  /\ voted_for = [n \in RNodes |-> NoVote]
  /\ rlog = [n \in RNodes |-> <<>>]
  /\ rcommit = [n \in RNodes |-> 0]
  /\ next_index = [n \in RNodes |-> [p \in Peers(n) |-> 1]]
  /\ match_index = [n \in RNodes |-> [p \in Peers(n) |-> 0]]
  /\ rnet = {}

LastTerm(log) == IF log = <<>> THEN 0 ELSE Last(log).term
Send(ms) == rnet' = rnet \cup ms

request_votes(n, term) ==
  {[type |-> "RequestVote", to |-> p, from |-> n, term |-> term,
    last_index |-> Len(rlog[n]), last_term |-> LastTerm(rlog[n])] : p \in Peers(n)}

\* The timer is an interval: it ticks whether or not a leader was heard from.
handle_election_timeout(n) ==
  /\ rstate[n] # "Leader"
  /\ rterm[n] < MaxTerm
  /\ rstate' = [rstate EXCEPT ![n] = "Candidate"]
  /\ rterm' = [rterm EXCEPT ![n] = @ + 1]
  /\ voted_for' = [voted_for EXCEPT ![n] = n]
  /\ Send(request_votes(n, rterm[n] + 1))
  /\ UNCHANGED <<rlog, rcommit, next_index, match_index>>

Heartbeats(n, log) ==
  {LET prev == next_index[n][p] - 1
   IN  [type |-> "AppendEntries", to |-> p, from |-> n, term |-> rterm[n],
        prev |-> prev,
        prev_term |-> IF prev > 0 /\ prev <= Len(log) THEN log[prev].term ELSE 0,
        entries |-> SubSeq(log, prev + 1, Len(log)),
        commit |-> rcommit[n]] : p \in Peers(n)}

send_heartbeats(n) ==
  /\ rstate[n] = "Leader"
  /\ Send(Heartbeats(n, rlog[n]))
  /\ UNCHANGED <<rstate, rterm, voted_for, rlog, rcommit, next_index, match_index>>

\* A message or a reply of a later term: follower of that term, without a vote.
StepDown(n, term) ==
  IF term > rterm[n]
  THEN /\ rterm' = [rterm EXCEPT ![n] = term]
       /\ rstate' = [rstate EXCEPT ![n] = "Follower"]
       /\ voted_for' = [voted_for EXCEPT ![n] = NoVote]
  ELSE UNCHANGED <<rterm, rstate, voted_for>>

UpToDate(m, log) ==
  \/ m.last_term > LastTerm(log)
  \/ m.last_term = LastTerm(log) /\ m.last_index >= Len(log)

VoteReply(m, term, granted) ==
  [type |-> "RequestVoteResponse", to |-> m.from, from |-> m.to, term |-> term, granted |-> granted]

\* Mutant: the vote is answered and not recorded.
MutHandleRequestVote(m) ==
  LET n == m.to
  IN  /\ m.term >= rterm[n] /\ UpToDate(m, rlog[n])
      /\ m.term > rterm[n] \/ voted_for[n] = NoVote
      /\ rterm' = [rterm EXCEPT ![n] = m.term]
      /\ rstate' = [rstate EXCEPT ![n] = IF m.term > rterm[n] THEN "Follower" ELSE @]
      /\ voted_for' = [voted_for EXCEPT ![n] = NoVote]
      /\ Send({VoteReply(m, m.term, TRUE)})
      /\ UNCHANGED <<rlog, rcommit, next_index, match_index>>

handle_request_vote(m) ==
  LET n == m.to
      free == m.term > rterm[n] \/ voted_for[n] \in {NoVote, m.from}
      grant == free /\ UpToDate(m, rlog[n])
  IN  /\ IF m.term < rterm[n]
         THEN /\ Send({VoteReply(m, rterm[n], FALSE)})
              /\ UNCHANGED <<rterm, rstate, voted_for>>
         ELSE IF grant
         THEN /\ rterm' = [rterm EXCEPT ![n] = m.term]
              /\ rstate' = [rstate EXCEPT ![n] = IF m.term > rterm[n] THEN "Follower" ELSE @]
              /\ voted_for' = [voted_for EXCEPT ![n] = m.from]
              /\ Send({VoteReply(m, m.term, TRUE)})
         ELSE StepDown(n, m.term) /\ UNCHANGED rnet
      /\ UNCHANGED <<rlog, rcommit, next_index, match_index>>

\* One granted vote is enough, and its term is only compared upwards.
handle_request_vote_response(m) ==
  LET n == m.to
      elected == m.term <= rterm[n] /\ m.granted /\ rstate[n] = "Candidate"
  IN  /\ IF elected
         THEN /\ rstate' = [rstate EXCEPT ![n] = "Leader"]
              /\ next_index' = [next_index EXCEPT ![n] = [p \in Peers(n) |-> Len(rlog[n]) + 1]]
              /\ match_index' = [match_index EXCEPT ![n] = [p \in Peers(n) |-> 0]]
              /\ UNCHANGED <<rterm, voted_for>>
         ELSE StepDown(n, m.term) /\ UNCHANGED <<next_index, match_index>>
      /\ UNCHANGED <<rlog, rcommit, rnet>>

\* An entry beyond the end is pushed, one that differs cuts the log first: the first
\* that the log does not have as it is, so that the ones behind it are pushed too.
Missing(log, entries) ==
  {i \in DOMAIN entries : \/ entries[i].index > Len(log)
                          \/ log[entries[i].index].term # entries[i].term}

AppendFrom(log, entries, k) ==
  LET keep == entries[k].index - 1
  IN  (IF keep < Len(log) THEN SubSeq(log, 1, keep) ELSE log) \o SubSeq(entries, k, Len(entries))

AppendAll(log, entries) ==
  IF Missing(log, entries) = {} THEN log
  ELSE AppendFrom(log, entries, Min(Missing(log, entries)))

AppendReply(m, success, match) ==
  [type |-> "AppendEntriesResponse", to |-> m.from, from |-> m.to, term |-> m.term,
   success |-> success, match |-> match]

\* A candidate or a leader of the same term stays what it is.
handle_append_entries(m) ==
  LET n == m.to
      log == rlog[n]
      stale == m.term < rterm[n]
      short == m.prev > Len(log)
      differs == m.prev > 0 /\ ~short /\ log[m.prev].term # m.prev_term
      new == IF stale \/ short THEN log
             ELSE IF differs THEN SubSeq(log, 1, m.prev - 1)
             ELSE AppendAll(log, m.entries)
      ok == ~stale /\ ~short /\ ~differs
  IN  /\ StepDown(n, m.term)
      /\ rlog' = [rlog EXCEPT ![n] = new]
      /\ rcommit' = [rcommit EXCEPT ![n] =
                       IF ok /\ m.commit > @
                       THEN IF m.commit < Len(new) THEN m.commit ELSE Len(new) ELSE @]
      /\ Send({IF stale THEN [AppendReply(m, FALSE, 0) EXCEPT !.term = rterm[n]]
               ELSE AppendReply(m, ok, IF ok THEN m.prev + Len(m.entries) ELSE 0)})
      /\ UNCHANGED <<next_index, match_index>>

IndexAt(n, p) == IF p = n THEN Len(rlog[n]) ELSE match_index[n][p]
majority == Cardinality(RNodes) \div 2 + 1

\* The indexes sorted, and the one that a majority has reached.
MajorityIndex(n) ==
  Max({v \in {IndexAt(n, p) : p \in RNodes} :
         Cardinality({p \in RNodes : IndexAt(n, p) >= v}) >= majority})

\* The peer is not known from the reply: neither index is moved.
handle_append_entries_response(m) ==
  LET n == m.to
      c == MajorityIndex(n)
      advance == m.term <= rterm[n] /\ c > rcommit[n] /\ c <= Len(rlog[n])
                   /\ rlog[n][c].term = rterm[n]
  IN  /\ StepDown(n, m.term)
      /\ rcommit' = [rcommit EXCEPT ![n] = IF advance THEN c ELSE @]
      /\ UNCHANGED <<rlog, next_index, match_index, rnet>>

handle_client_request(n) ==
  LET log == Append(rlog[n], [index |-> Len(rlog[n]) + 1, term |-> rterm[n], by |-> n])
  IN  /\ rstate[n] = "Leader"
      /\ Len(rlog[n]) < MaxRaftLog
      /\ rlog' = [rlog EXCEPT ![n] = log]
      /\ Send(Heartbeats(n, log))
      /\ UNCHANGED <<rstate, rterm, voted_for, rcommit, next_index, match_index>>

handle_message(m) ==
  CASE m.type = "RequestVote" -> handle_request_vote(m)
    [] m.type = "RequestVoteResponse" -> handle_request_vote_response(m)
    [] m.type = "AppendEntries" -> handle_append_entries(m)
    [] m.type = "AppendEntriesResponse" -> handle_append_entries_response(m)

RaftNext ==
  \/ \E n \in RNodes : \/ handle_election_timeout(n)
                       \/ send_heartbeats(n)
                       \/ handle_client_request(n)
  \/ \E m \in rnet : handle_message(m)
RaftSpec == RaftInit /\ [][RaftNext]_raftVars

-----------------------------------------------------------------------------
\* A log holds its entries at their own indexes and their terms never fall, up
\* to the term of the node, whatever late or repeated AppendEntries cut it back
\* (handle_append_entries pushes any entry beyond the end).
LogsWellFormed ==
  \A n \in RNodes : \A i \in DOMAIN rlog[n] :
    /\ rlog[n][i].index = i
    /\ rlog[n][i].term <= rterm[n]
    /\ i > 1 => rlog[n][i - 1].term <= rlog[n][i].term

\* A node never grants two candidates a vote in one term, however requests of
\* several terms overtake each other (handle_request_vote): the replies built
\* are evidence of all its votes.
OneVotePerTerm ==
  \A a, b \in {m \in rnet : m.type = "RequestVoteResponse" /\ m.granted} :
    a.from = b.from /\ a.term = b.term => a.to = b.to

\* What a node has committed is in its log, and some leader's match_index counted
\* it on a majority (handle_append_entries_response).  The code never raises a
\* match_index, so a node with peers commits nothing, whatever it is sent.
CommitBacked ==
  \A n \in RNodes :
    /\ rcommit[n] <= Len(rlog[n])
    /\ rcommit[n] > 0 =>
         \E l \in RNodes :
           2 * Cardinality({p \in Peers(l) : match_index[l][p] >= rcommit[n]} \cup {l})
             > Cardinality(RNodes)

\* What a node holds after any messages, late, lost, repeated or reordered:
\* a well-formed log, one vote per term, and no unbacked commit.
RaftSound == LogsWellFormed /\ OneVotePerTerm /\ CommitBacked
=============================================================================
