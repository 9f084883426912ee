----------------------------- MODULE RetryDlqInv -----------------------------
(***************************************************************************)
(* The inductive invariant behind RetryDlq's safety properties.            *)
(***************************************************************************)
EXTENDS RetryDlq

\* Positions and rows lie within the commits, ids are not shared, and who has
\* nothing holds nothing.
SubsOK ==
    /\ \A r \in log : r.at <= commits
    /\ \A c \in Consumers :
          /\ sub[c].last <= commits /\ sub[c].next <= commits
          /\ HasBatch(c) => Registered(c) /\ sub[c].last < sub[c].next
          /\ ~HasBatch(c) => nackedNow[c] = {}
          /\ ~Registered(c) => nacked[c] = {}
          /\ nacking[c].owner # 0 => /\ nacking[c].next # 0
                                     /\ nacking[c].owner \in idsOf[c]
          /\ Registered(c) => sub[c].id \in idsOf[c]
          /\ sub[c].id <= subSeq
    /\ \A c, d \in Consumers : Registered(c) /\ sub[c].id = sub[d].id => c = d

Known(owner, ev, retry) == retry > 0 => <<owner, ev, retry - 1>> \in nackers

\* Every retried row, wherever it is, has been nacked at the count before; nobody
\* skipped a count.
RetriesOK ==
    /\ \A r \in retryQueue \cup moving : Known(r.owner, r.ev, r.retry)
    /\ \A r \in log : Known(r.owner, r.ev, r.retry) /\ (r.owner = 0 => r.retry = 0)
    /\ \A c \in Consumers : Known(nacking[c].owner, nacking[c].ev, nacking[c].retry)
    /\ \A n \in nackers : \A k \in 0 .. n[3] : <<n[1], n[2], k>> \in nackers

\* What a consumer has nacked waits behind its position, and what it nacked in its
\* open batch behind the end of that batch.
Kept(c) ==
    /\ \A ev \in nacked[c] : Waits(c, ev, sub[c].last)
    /\ \A ev \in nackedNow[c] : Waits(c, ev, sub[c].next)

PromisesOK == \A c \in Consumers : ~nacking[c].twice /\ Kept(c)

CountsInv == TypeOK /\ SubsOK /\ RetriesOK /\ DeadAfterMaxRetries

IInv == CountsInv /\ PromisesOK
=============================================================================
