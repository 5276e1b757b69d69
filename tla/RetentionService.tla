-------------------------- MODULE RetentionService --------------------------
(***************************************************************************)
(* services/retention_service.py: hard deletion of one candidate on        *)
(* request, and of every expired candidate, one transaction each.          *)
(***************************************************************************)
EXTENDS TalentStore

Deleting == {"delete", "ttl"}

\* Variant: the candidate row is kept.
PurgingChildrenOnly(q, c) ==
  Flushing([q EXCEPT !.cand = c, !.queue = q.queue \ {c}], "flush",
           Purge \ {"delCand", "cascade"}, PurgeOrder[1])

\* Variant: the list is not consumed.
PurgingSameAgain(q, c) ==
  Flushing([q EXCEPT !.cand = c], "flush", Purge, PurgeOrder[1])

\* _purge_candidate_rows is about to send its first DELETE.
Purging(q, c) ==
  Flushing([q EXCEPT !.cand = c, !.queue = q.queue \ {c}], "flush", Purge, PurgeOrder[1])

DeleteGetCandidate(r) ==
  /\ At(r, {"delete"}, "begin")
  /\ IF Found(r) THEN Become(r, Purging(req[r], req[r].cand)) ELSE Answer(r, "404")
  /\ UNCHANGED <<tables, audit>>

\* The system starts delete_expired_candidates.
StartTtl(r) ==
  /\ req[r].pc = "idle"
  /\ "ttl" \in Kinds
  /\ Become(r, [req[r] EXCEPT !.kind = "ttl", !.pc = "begin"])
  /\ UNCHANGED <<tables, audit>>

\* Variant: a sweep that finds nobody expired does not return.
FindExpiredSomebody(r) ==
  /\ At(r, {"ttl"}, "begin")
  /\ \E expired \in SUBSET {c \in Candidate : Exists(c)} : \E c \in expired :
       Become(r, Purging([req[r] EXCEPT !.queue = expired, !.batch = expired], c))
  /\ UNCHANGED <<tables, audit>>

\* Any candidate may be old enough.  The list is read once.
FindExpired(r) ==
  /\ At(r, {"ttl"}, "begin")
  /\ \E expired \in SUBSET {c \in Candidate : Exists(c)} :
       LET q == [req[r] EXCEPT !.queue = expired, !.batch = expired]
       IN \/ expired = {} /\ Answer(r, "ok")
          \/ \E c \in expired : Become(r, Purging(q, c))
  /\ UNCHANGED <<tables, audit>>

\* Variant: no audit event.
DeleteCommitUnaudited(r) ==
  /\ At(r, Deleting, "flush")
  /\ req[r].todo = {} /\ req[r].queue = {}
  /\ CommitTables(r)
  /\ Answer(r, "ok")
  /\ UNCHANGED audit

\* The audit event counts what each DELETE matched.  The loop goes on with the
\* next of the list; db.get finds it in the session and sends no SELECT.
DeleteCommit(r) ==
  /\ At(r, Deleting, "flush")
  /\ LET rows == req[r].done \ {"delCand", "cascade"}
         rest == req[r].queue
     IN \/ /\ rest = {}
           /\ Commit(r, "candidate_deleted", NoRow, rows, Answered(req[r], "ok"))
        \/ \E c \in rest :
             Commit(r, "candidate_deleted", NoRow, rows,
                    Purging(Committed(req[r], "flush"), c))

DeleteCandidate(r) == DeleteGetCandidate(r) \/ FindExpired(r) \/ DeleteCommit(r)
=============================================================================
