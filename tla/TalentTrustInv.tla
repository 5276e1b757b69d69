--------------------------- MODULE TalentTrustInv ---------------------------
(***************************************************************************)
(* The inductive invariant behind the safety properties of TalentTrust.    *)
(* It says what a request that is under way knows of its candidate, which  *)
(* is what makes its later writes safe, and which row locks exclude which. *)
(***************************************************************************)
EXTENDS TalentTrust

Planned(q) == q.todo \cup q.done

\* Row locks held on a candidate that others can know.
Held(q) == q.done \ {"vacancy", "insCand"}

Loose == {"idle", "begin", "done"}
OnCandidate(q) == q.pc \notin {"idle", "done"} /\ ~(q.kind = "ttl" /\ q.pc = "begin")

\* What the position of a handler says about the rest of its record.
Shape(q) ==
  /\ OnCandidate(q) => q.cand \in Candidate
  /\ q.kind = "upload" => q.cand \in Candidate
  /\ q.pc = "idle" => q.kind = "none"
  /\ q.kind = "none" => q.pc = "idle"
  /\ q.pc \notin {"score_flush", "flush"} => q.done = {} /\ q.todo \subseteq {"vacancy"}
  /\ q.pc \notin {"score_consent", "score_document", "narrate", "score_flush", "flush"}
       => q.todo = {}
  /\ q.pc = "score_flush" => /\ q.kind \in Scoring
                             /\ Planned(q) \subseteq {"vacancy", "insScore", "updScore"}
  /\ q.pc \in {"score_flush", "compose"} => q.draft \in Result
  /\ q.pc \in {"score_consent", "score_document", "narrate", "score_refresh"}
       => q.kind \in Scoring
  /\ q.pc \in {"consent", "document", "compose"} => q.kind = "dossier"
  /\ q.kind = "score" => q.pc \notin {"flush", "refresh"}
  /\ q.kind \in Deleting \cup {"export"} => q.pc # "refresh"
  /\ q.pc = "flush" =>
       /\ q.kind = "upload" => Planned(q) \subseteq {"insCand"}
       /\ q.kind = "dossier" =>
            /\ Planned(q) \subseteq {"insDossier", "updDossier", "updCand"}
            /\ q.status = "analyzed" \/ "updCand" \in Planned(q)
            /\ q.draft \in Result
       /\ q.kind = "decision" => /\ Planned(q) = {"insDecision"}
                                 /\ q.draft \in Grade
       /\ q.kind = "export" => Planned(q) = {}
       /\ q.kind \in Deleting => Planned(q) \subseteq Purge

TypeInv == TypeOK /\ \A r \in Req : Shape(req[r])

-----------------------------------------------------------------------------

\* A row of the candidate was committed once.
Known(c) == Exists(c) \/ Deleted(c)

\* A statement that ran stays possible until its transaction commits.
HeldRows(q, c) ==
  /\ "insScore" \in q.done => Exists(c) /\ score[c] = NoRow
  /\ "updScore" \in q.done => score[c] # NoRow
  /\ "insDossier" \in q.done => Exists(c) /\ dossier[c] = NoRow
  /\ "updDossier" \in q.done => dossier[c] # NoRow
  /\ q.done \cap ({"updCand", "insDecision"} \cup Purge) # {} => Exists(c)

\* What a handler has read is still so, or its candidate is gone.
Remembers(q, c) ==
  /\ q.kind \in Deleting /\ q.pc = "flush" =>
       \A w \in {"delCand", "cascade"} : w \notin Planned(q) => ~Exists(c)
  /\ Exists(c) =>
       /\ q.pc = "score_flush" /\ "insScore" \notin Planned(q) => score[c] # NoRow
       /\ q.pc = "score_refresh" => score[c] # NoRow
       /\ q.kind = "dossier" =>
            /\ q.pc \in {"compose", "flush", "refresh"} => score[c] # NoRow
            /\ q.pc # "begin" /\ q.status = "analyzed" => dossier[c] # NoRow
            /\ q.pc = "flush" /\ "insDossier" \notin Planned(q) => dossier[c] # NoRow
       /\ q.kind = "decision" /\ q.pc = "flush" => dossier[c] # NoRow

\* An id is known to others only after its upload committed.
Acquainted(q) ==
  /\ q.kind = "upload" /\ q.pc \in {"begin", "flush"} => ~Known(q.cand)
  /\ q.kind # "upload" /\ q.pc \notin Loose => Known(q.cand)
  /\ \A c \in q.queue : Known(c)

Fit(q) ==
  /\ OnCandidate(q) => HeldRows(q, q.cand) /\ Remembers(q, q.cand)
  /\ Acquainted(q)

RequestInv == \A r \in Req : Fit(req[r])

\* Which transactions exclude each other.
Excludes(p, q) ==
  /\ "cascade" \in p.done => Held(q) = {}
  /\ ~({"insScore"} \subseteq p.done \cap q.done)
  /\ ~({"insDossier"} \subseteq p.done \cap q.done)
  /\ ~(p.kind = "upload" /\ q.kind = "upload")

LockInv ==
  \A r, s \in Req : r # s /\ req[r].cand = req[s].cand => Excludes(req[r], req[s])

\* Ids are minted by uploads.
MintedInv ==
  \A c \in Candidate : Known(c) =>
    c \in Uploaded \/ \E r \in Req : req[r].kind = "upload" /\ req[r].cand = c

Integrity ==
  /\ NothingOutlivesCandidate
  /\ DossierHasScore
  /\ StatusMatchesDossier
  /\ DecisionHasDossier
  /\ DeletedStaysGone

\* The inductive invariant.
IInv == TypeInv /\ RequestInv /\ LockInv /\ MintedInv /\ Integrity

-----------------------------------------------------------------------------
(* Where the committed rows come from.                                      *)

\* A handler that went past its lookup works for the candidate's organization.
Admitted(q) == q.kind # "ttl" /\ q.pc \notin Loose => q.org = Owner[q.cand]

\* There is a consent, or a deletion took it along.
UnderConsent(c) == c \in consents \/ ~Exists(c)

\* A score is under way that was or will be computed with the vacancy's embedding.
Embedding(q) ==
  \/ q.kind \in Scoring /\ q.pc \in {"narrate", "score_flush"}
  \/ q.kind = "dossier" /\ q.pc \in {"score_consent", "score_document"}

\* The embedding of a score under way was stored, or will be by its own request r.
KeepsEmbedding(q, r) ==
  Embedding(q) => \/ q.basis = r /\ "vacancy" \in Planned(q)
                  \/ q.basis \in Embedders(VacancyOf[q.cand])

\* The embedding a vacancy's row holds is one that a request stored with its score.
EmbeddingsStored ==
  \A v \in Vacancy : embedding[v] # NoRow => embedding[v] \in Embedders(v)

\* A decision under way quotes a dossier that was generated.
Quotes(q) ==
  q.kind = "decision" /\ q.pc = "flush" =>
    \E a \in Recorded("dossier_generated", q.cand) : a.result.recommendation = q.draft

\* A handler past the checks has seen the consent, which only goes with the candidate.
Consented(q) ==
  /\ q.kind = "dossier" /\ q.pc \notin Loose \cup {"consent"} => UnderConsent(q.cand)
  /\ q.kind = "score" /\ q.pc \notin Loose \cup {"score_consent"} => UnderConsent(q.cand)

\* Only a sweep has more than one candidate to see to.
OneCandidate(q) == q.kind # "ttl" => q.queue = {}

Traced(q, r) ==
  /\ Admitted(q)
  /\ OneCandidate(q)
  /\ KeepsEmbedding(q, r)
  /\ Quotes(q)
  /\ Consented(q)

\* Whoever wrote an audit row or a decision worked for the candidate's organization.
Authors ==
  /\ \A a \in audit : a.by \in Req =>
       /\ req[a.by].kind # "none"
       /\ req[a.by].kind # "ttl" => req[a.by].org = Owner[a.cand]
  /\ \A d \in decisions :
       req[d.by].kind \notin {"none", "ttl"} /\ req[d.by].org = Owner[d.cand]

\* A document comes and goes with its candidate, and results need a consent.
RowsTogether ==
  \A c \in Candidate :
    /\ Exists(c) => c \in docs
    /\ score[c] # NoRow => c \in consents

\* Inductive relative to IInv.
TraceInv ==
  /\ \A r \in Req : Traced(req[r], r)
  /\ Authors
  /\ RowsTogether
  /\ EmbeddingsStored
  /\ ScoreUsesStoredEmbedding
  /\ RowsAreAudited
  /\ DecisionQuotesDossier
  /\ AuditedDecisionKept

-----------------------------------------------------------------------------
\* A handler is where its kind awaits something, and sends what it has planned.
Going(q) ==
  /\ q.pc \notin {"idle", "done"} => q.pc \in Awaits[q.kind]
  /\ q.pc \in {"score_flush", "flush"} /\ q.todo # {} => q.next \in q.todo

\* What is inductive, all of it.
SystemInv == IInv /\ TraceInv /\ \A r \in Req : Going(req[r])
=============================================================================
