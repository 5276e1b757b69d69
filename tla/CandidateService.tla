-------------------------- MODULE CandidateService --------------------------
(***************************************************************************)
(* candidate_service.create_candidate_with_cv: after the file was parsed,  *)
(* candidate, document and consent are written in one transaction.         *)
(***************************************************************************)
EXTENDS TalentStore

\* The vacancy must belong to the caller; a file that is too large or cannot be
\* parsed is refused before any row is written.
ParseCv(r) ==
  /\ At(r, {"upload"}, "begin")
  /\ \/ Owner[req[r].cand] # req[r].org /\ Answer(r, "404")
     \/ /\ Owner[req[r].cand] = req[r].org
        /\ \E code \in {"400", "413"} : Answer(r, code)
     \/ /\ Owner[req[r].cand] = req[r].org
        /\ Become(r, Flushing(req[r], "flush", {"insCand"}, "insCand"))
  /\ UNCHANGED <<tables, audit>>

CreateCandidateCommit(r) ==
  /\ At(r, {"upload"}, "flush")
  /\ Commit(r, "cv_parsed", NoRow, {}, Committed(req[r], "refresh"))

\* The committed rows are read back for the response.
CreateCandidateRefresh(r) ==
  /\ At(r, {"upload"}, "refresh")
  /\ Answer(r, IF Exists(req[r].cand) THEN "ok" ELSE "500")
  /\ UNCHANGED <<tables, audit>>

CreateCandidate(r) ==
  ParseCv(r) \/ CreateCandidateCommit(r) \/ CreateCandidateRefresh(r)
=============================================================================
