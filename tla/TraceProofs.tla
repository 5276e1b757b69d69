---------------------------- MODULE TraceProofs ----------------------------
(***************************************************************************)
(* Where the committed rows come from: TraceInv is inductive relative to   *)
(* IInv, and with it the properties that relate rows, audit log and the    *)
(* requests that wrote them hold for any number of candidates, requests,   *)
(* organizations and results.                                              *)
(***************************************************************************)
EXTENDS IntegrityProofs

USE StoreAssumption

-----------------------------------------------------------------------------
(* Steps that leave the tables alone.                                       *)

\* A step that moves one request only, and keeps who it works for.
LEMMA LocalTrace ==
  ASSUME IInv, TypeInv', TraceInv, NEW r \in Req, NEW q \in Request, Become(r, q),
         UNCHANGED <<tables, audit>>, Traced(q, r),
         req[r].kind # "none" => q.kind = req[r].kind /\ q.org = req[r].org
  PROVE  TraceInv'
<1>1. /\ req'[r] = q
      /\ \A s \in Req \ {r} : req'[s] = req[s]
  BY DEF Become, IInv, TypeInv, TypeOK
<1>2. /\ cand' = cand /\ docs' = docs /\ consents' = consents /\ score' = score
      /\ dossier' = dossier /\ decisions' = decisions /\ embedding' = embedding
      /\ audit' = audit
  BY DEF tables
<1>3. ASSUME NEW s \in Req PROVE Traced(req[s], s)'
  <2>1. PICK p \in Request : p = req'[s]
    BY DEF TypeInv, TypeOK
  <2>2. Traced(p, s)
    BY <1>1, <2>1 DEF TraceInv
  <2>3. Traced(p, s)'
    BY <1>2, <2>2
    DEF Traced, Admitted, OneCandidate, KeepsEmbedding, Embedding, Embedders, Quotes, Consented,
        UnderConsent, Exists, Recorded
  <2>4. QED BY <2>1, <2>3 DEF Traced, Admitted, OneCandidate, KeepsEmbedding, Embedding,
     Quotes, Consented
<1>4. Authors'
  <2>1. ASSUME NEW a \in audit, a.by \in Req
        PROVE  /\ req'[a.by].kind # "none"
               /\ req'[a.by].kind # "ttl" => req'[a.by].org = Owner[a.cand]
    BY <1>1, <2>1 DEF TraceInv, Authors
  <2>2. ASSUME NEW d \in decisions
        PROVE  req'[d.by].kind \notin {"none", "ttl"} /\ req'[d.by].org = Owner[d.cand]
    <3>1. d.by \in Req
      BY DEF IInv, TypeInv, TypeOK, Decision
    <3>2. QED BY <1>1, <3>1 DEF TraceInv, Authors
  <2>3. QED BY <1>2, <2>1, <2>2 DEF Authors
<1>5. RowsTogether' /\ EmbeddingsStored' /\ ScoreUsesStoredEmbedding'
  BY <1>2 DEF TraceInv, RowsTogether, Exists, EmbeddingsStored, ScoreUsesStoredEmbedding,
     Embedders, Recorded
<1>6. RowsAreAudited' /\ DecisionQuotesDossier' /\ AuditedDecisionKept'
  BY <1>2 DEF TraceInv, RowsAreAudited, DecisionQuotesDossier, AuditedDecisionKept,
     Exists, Recorded, Deleted
<1>7. QED BY <1>3, <1>4, <1>5, <1>6 DEF TraceInv

\* An answer forgets what was traced.
LEMMA AnswerTrace ==
  ASSUME IInv, TypeInv', TraceInv, NEW r \in Req, NEW code, Answer(r, code),
         UNCHANGED <<tables, audit>>
  PROVE  TraceInv'
<1>1. PICK q : q = Answered(req[r], code)
  OBVIOUS
<1>2. Become(r, q) /\ q \in Request
  BY <1>1 DEF Answer, Become, IInv, TypeInv, TypeOK
<1>3. q.kind = req[r].kind /\ q.org = req[r].org /\ q.pc = "done" /\ q.queue = {}
  BY <1>1, AtInv DEF Answered, Request
<1>4. Traced(q, r)
  BY <1>3 DEF Traced, Admitted, OneCandidate, KeepsEmbedding, Embedding, Quotes, Consented, Loose
<1>5. QED BY <1>2, <1>3, <1>4, LocalTrace

\* A call that arrives and a sweep that starts have looked nothing up.
LEMMA StartTrace ==
  ASSUME IInv, TypeInv', TraceInv, NEW r \in Req, Arrive(r) \/ StartTtl(r)
  PROVE  TraceInv'
<1>1. UNCHANGED <<tables, audit>> /\ req[r].pc = "idle"
  BY DEF Arrive, StartTtl
<1>2. \E q : Become(r, q) /\ q.pc = "begin" /\ q.queue = req[r].queue
  <2>1. CASE Arrive(r)
    <3>1. PICK k, c, o :
            Become(r, [req[r] EXCEPT !.kind = k, !.cand = c, !.org = o, !.pc = "begin"])
      BY <2>1 DEF Arrive
    <3>2. PICK q : q = [req[r] EXCEPT !.kind = k, !.cand = c, !.org = o, !.pc = "begin"]
      OBVIOUS
    <3>3. q.pc = "begin" /\ q.queue = req[r].queue
      BY <3>2, AtInv DEF Request
    <3>4. QED BY <3>1, <3>2, <3>3
  <2>2. CASE StartTtl(r)
    <3>1. PICK q : q = [req[r] EXCEPT !.kind = "ttl", !.pc = "begin"]
      OBVIOUS
    <3>2. q.pc = "begin" /\ q.queue = req[r].queue
      BY <3>1, AtInv DEF Request
    <3>3. QED BY <2>2, <3>1, <3>2 DEF StartTtl
  <2>3. QED BY <2>1, <2>2
<1>3. PICK q : Become(r, q) /\ q.pc = "begin" /\ q.queue = req[r].queue
  BY <1>2
<1>4. q \in Request /\ req[r].kind = "none" /\ req[r].queue = {}
  BY <1>1, <1>3, AtInv
  DEF Become, IInv, TypeInv, TypeOK, Shape, TraceInv, Traced, OneCandidate
<1>6. Traced(q, r)
  BY <1>3, <1>4 DEF Traced, Admitted, OneCandidate, KeepsEmbedding, Embedding, Quotes, Consented, Loose
<1>7. QED BY <1>1, <1>3, <1>4, <1>6, LocalTrace

\* A step of a handler under way keeps the caller that was admitted.
LEMMA ForwardTrace ==
  ASSUME IInv, TypeInv', TraceInv, NEW r \in Req, NEW q, Become(r, q),
         UNCHANGED <<tables, audit>>, req[r].pc \notin Loose,
         q.kind = req[r].kind, q.org = req[r].org, q.cand = req[r].cand,
         q.queue = req[r].queue, KeepsEmbedding(q, r), Quotes(q), Consented(q)
  PROVE  TraceInv'
<1>1. q \in Request /\ Admitted(req[r]) /\ OneCandidate(req[r])
  BY DEF Become, IInv, TypeInv, TypeOK, TraceInv, Traced
<1>2. Traced(q, r)
  BY <1>1 DEF Traced, Admitted, OneCandidate
<1>3. QED BY <1>1, <1>2, LocalTrace

\* Looking a candidate up admits the caller.
LEMMA GetCandidateTrace ==
  ASSUME IInv, TypeInv', TraceInv, NEW r \in Req,
         \/ ScoreGetCandidate(r) \/ DecisionGetCandidate(r) \/ ExportGetCandidate(r)
         \/ DossierGetCandidate(r)
  PROVE  TraceInv'
<1>1. UNCHANGED <<tables, audit>> /\ req[r] \in Request
  BY AtInv DEF ScoreGetCandidate, DecisionGetCandidate, ExportGetCandidate, GetCandidate,
     DossierGetCandidate
<1>2. CASE Answer(r, "404")
  BY <1>1, <1>2, AnswerTrace
<1>3. CASE ~Answer(r, "404")
  <2>1. \E q : /\ Become(r, q) /\ Found(r)
               /\ q.kind = req[r].kind /\ q.org = req[r].org /\ q.cand = req[r].cand
               /\ q.queue = req[r].queue
               /\ q.pc \in {"score_consent", "decide", "export", "consent"}
               /\ q.kind = "dossier" => q.pc = "consent"
               /\ q.kind = "score" => q.pc = "score_consent"
    <3>3. CASE ScoreGetCandidate(r) \/ DecisionGetCandidate(r) \/ ExportGetCandidate(r)
      <4>1. PICK p \in {"score_consent", "decide", "export"} :
              /\ Found(r) /\ Become(r, [req[r] EXCEPT !.pc = p]) /\ req[r].kind # "dossier"
              /\ req[r].kind = "score" => p = "score_consent"
        BY <1>3, <3>3 DEF ScoreGetCandidate, DecisionGetCandidate, ExportGetCandidate,
           GetCandidate, Goto, At
      <4>2. PICK q : q = [req[r] EXCEPT !.pc = p]
        OBVIOUS
      <4>3. /\ q.kind = req[r].kind /\ q.org = req[r].org /\ q.cand = req[r].cand
            /\ q.queue = req[r].queue
            /\ q.pc = p
        BY <1>1, <4>2 DEF Request
      <4>4. QED BY <4>1, <4>2, <4>3
    <3>4. CASE DossierGetCandidate(r)
      <4>1. PICK q : q = [req[r] EXCEPT !.pc = "consent", !.status = cand[req[r].cand]]
        OBVIOUS
      <4>2. /\ q.kind = req[r].kind /\ q.org = req[r].org /\ q.cand = req[r].cand
            /\ q.queue = req[r].queue
            /\ q.pc = "consent"
        BY <1>1, <4>1 DEF Request
      <4>3. req[r].kind = "dossier"
        BY <3>4 DEF DossierGetCandidate, At
      <4>4. QED BY <1>3, <3>4, <4>1, <4>2, <4>3 DEF DossierGetCandidate
    <3>5. QED BY <3>3, <3>4
  <2>2. PICK q : /\ Become(r, q) /\ Found(r)
                 /\ q.kind = req[r].kind /\ q.org = req[r].org /\ q.cand = req[r].cand
                 /\ q.queue = req[r].queue
                 /\ q.pc \in {"score_consent", "decide", "export", "consent"}
                 /\ q.kind = "dossier" => q.pc = "consent"
                 /\ q.kind = "score" => q.pc = "score_consent"
    BY <2>1
  <2>3. Traced(q, r)
    BY <2>2
    DEF TraceInv, Found, Traced, Admitted, OneCandidate, KeepsEmbedding, Embedding, Quotes, Consented
  <2>4. q \in Request
    BY <2>2 DEF Become, IInv, TypeInv, TypeOK
  <2>5. QED BY <1>1, <2>2, <2>3, <2>4, LocalTrace
<1>4. QED BY <1>2, <1>3

\* Consent checks and the reads before a flush keep the plan for the embedding.
LEMMA CheckTrace ==
  ASSUME IInv, TypeInv', TraceInv, NEW r \in Req,
         \/ DossierCheckConsent(r) \/ ScoreCheckConsent(r)
         \/ ExportReadDossier(r) \/ ExportReadScore(r) \/ ExportReadDecision(r)
         \/ ScoreRefresh(r)
  PROVE  TraceInv'
<1>1. /\ UNCHANGED <<tables, audit>> /\ req[r] \in Request /\ req[r].pc \notin Loose
      /\ req[r].kind \in {"dossier", "score", "export"}
  BY AtInv DEF DossierCheckConsent, ScoreCheckConsent, ExportReadDossier, ExportReadScore,
     ExportReadDecision, ScoreRefresh, At, Loose, Scoring
<1>2. CASE \E code : Answer(r, code)
  BY <1>1, <1>2, AnswerTrace
<1>3. CASE ~ \E code : Answer(r, code)
  <2>1. PICK q :
          /\ Become(r, q)
          /\ q.kind = req[r].kind /\ q.org = req[r].org /\ q.cand = req[r].cand
          /\ q.queue = req[r].queue
          /\ \/ q.pc \in {"document", "export_score", "export_decision", "flush", "compose"}
             \/ /\ q.pc = "score_document" /\ req[r].pc = "score_consent"
                /\ q.todo = req[r].todo /\ q.done = req[r].done /\ q.basis = req[r].basis
          /\ q.kind = "export" \/ UnderConsent(q.cand)
    <3>1. CASE DossierCheckConsent(r)
      <4>1. /\ Become(r, [req[r] EXCEPT !.pc = "document"])
            /\ UnderConsent(req[r].cand)
        BY <1>3, <3>1 DEF DossierCheckConsent, Goto, UnderConsent
      <4>2. PICK q : q = [req[r] EXCEPT !.pc = "document"]
        OBVIOUS
      <4>3. /\ q.kind = req[r].kind /\ q.org = req[r].org /\ q.cand = req[r].cand
            /\ q.queue = req[r].queue
            /\ q.pc = "document" /\ q.todo = req[r].todo /\ q.done = req[r].done
        BY <1>1, <4>2 DEF Request
      <4>4. QED BY <4>1, <4>2, <4>3
    <3>2. CASE ScoreCheckConsent(r)
      <4>1. /\ Become(r, [req[r] EXCEPT !.pc = "score_document"])
            /\ req[r].pc = "score_consent" /\ UnderConsent(req[r].cand)
        BY <1>3, <3>2 DEF ScoreCheckConsent, Goto, Raise, At, UnderConsent
      <4>2. PICK q : q = [req[r] EXCEPT !.pc = "score_document"]
        OBVIOUS
      <4>3. /\ q.kind = req[r].kind /\ q.org = req[r].org /\ q.cand = req[r].cand
            /\ q.queue = req[r].queue
            /\ q.pc = "score_document" /\ q.todo = req[r].todo /\ q.done = req[r].done
            /\ q.basis = req[r].basis
        BY <1>1, <4>2 DEF Request
      <4>4. QED BY <4>1, <4>2, <4>3
    <3>3. CASE ExportReadDossier(r)
      <4>1. Become(r, [req[r] EXCEPT !.pc = "export_score"]) /\ req[r].kind = "export"
        BY <1>3, <3>3 DEF ExportReadDossier, Goto, At
      <4>2. PICK q : q = [req[r] EXCEPT !.pc = "export_score"]
        OBVIOUS
      <4>3. /\ q.kind = req[r].kind /\ q.org = req[r].org /\ q.cand = req[r].cand
            /\ q.queue = req[r].queue
            /\ q.pc = "export_score" /\ q.todo = req[r].todo /\ q.done = req[r].done
        BY <1>1, <4>2 DEF Request
      <4>4. QED BY <4>1, <4>2, <4>3
    <3>7. CASE ExportReadScore(r)
      <4>1. /\ Become(r, [req[r] EXCEPT !.pc = "export_decision", !.draft = score[req[r].cand]])
            /\ req[r].kind = "export"
        BY <1>3, <3>7 DEF ExportReadScore, At
      <4>2. PICK q : q = [req[r] EXCEPT !.pc = "export_decision", !.draft = score[req[r].cand]]
        OBVIOUS
      <4>3. /\ q.kind = req[r].kind /\ q.org = req[r].org /\ q.cand = req[r].cand
            /\ q.queue = req[r].queue /\ q.pc = "export_decision"
        BY <1>1, <4>2 DEF Request
      <4>4. QED BY <4>1, <4>2, <4>3
    <3>4. CASE ExportReadDecision(r)
      <4>1. Become(r, [req[r] EXCEPT !.pc = "flush"]) /\ req[r].kind = "export"
        BY <1>3, <3>4 DEF ExportReadDecision, Goto, At
      <4>2. PICK q : q = [req[r] EXCEPT !.pc = "flush"]
        OBVIOUS
      <4>3. /\ q.kind = req[r].kind /\ q.org = req[r].org /\ q.cand = req[r].cand
            /\ q.queue = req[r].queue
            /\ q.pc = "flush" /\ q.todo = req[r].todo /\ q.done = req[r].done
        BY <1>1, <4>2 DEF Request
      <4>4. QED BY <4>1, <4>2, <4>3
    <3>5. CASE ScoreRefresh(r)
      <4>1. /\ Become(r, [req[r] EXCEPT !.pc = "compose", !.draft = score[req[r].cand]])
            /\ UnderConsent(req[r].cand)
        <5>1. req[r].pc = "score_refresh" /\ req[r].kind \in {"score", "dossier"}
          BY <3>5 DEF ScoreRefresh, At, Scoring
        <5>2. Consented(req[r])
          BY DEF TraceInv, Traced
        <5>3. QED BY <1>3, <3>5, <5>1, <5>2 DEF ScoreRefresh, Consented, Loose
      <4>2. PICK q : q = [req[r] EXCEPT !.pc = "compose", !.draft = score[req[r].cand]]
        OBVIOUS
      <4>3. /\ q.kind = req[r].kind /\ q.org = req[r].org /\ q.cand = req[r].cand
            /\ q.queue = req[r].queue
            /\ q.pc = "compose" /\ q.todo = req[r].todo /\ q.done = req[r].done
        BY <1>1, <4>2 DEF Request
      <4>4. QED BY <4>1, <4>2, <4>3
    <3>6. QED BY <3>1, <3>2, <3>3, <3>4, <3>5, <3>7
  <2>2. KeepsEmbedding(req[r], r)
    BY DEF TraceInv, Traced
  <2>3. KeepsEmbedding(q, r)
    BY <2>1, <2>2 DEF KeepsEmbedding, Embedding, Planned
  <2>4. Quotes(q) /\ Consented(q)
    BY <1>1, <2>1 DEF Quotes, Consented
  <2>5. QED BY <1>1, <2>1, <2>3, <2>4, ForwardTrace
<1>4. QED BY <1>2, <1>3

\* A vacancy that was read without its embedding is one of those to be written.
LEMMA LoadDocumentTrace ==
  ASSUME IInv, TypeInv', TraceInv, NEW r \in Req,
         DossierLoadDocument(r) \/ ScoreLoadDocument(r)
  PROVE  TraceInv'
<1>1. /\ UNCHANGED <<tables, audit>> /\ req[r] \in Request /\ req[r].pc \notin Loose
      /\ req[r].kind \in Scoring /\ Shape(req[r]) /\ KeepsEmbedding(req[r], r)
  BY AtInv DEF DossierLoadDocument, ScoreLoadDocument, At, Loose, Scoring, TraceInv, Traced
<1>2. CASE \E code : Answer(r, code)
  BY <1>1, <1>2, AnswerTrace
<1>4. ASSUME NEW b \in Request, b.cand = req[r].cand, NEW q, q = Embedded(b, r)
      PROVE  /\ q.kind = b.kind /\ q.org = b.org /\ q.cand = b.cand
             /\ q.queue = b.queue /\ q.pc = b.pc
             /\ \/ q.basis = r /\ "vacancy" \in q.todo
                \/ q.basis \in Embedders(VacancyOf[q.cand])
  <2>1. req[r].cand \in Candidate
    BY <1>1 DEF Shape, OnCandidate, Loose, Scoring
  <2>2. /\ q.kind = b.kind /\ q.org = b.org /\ q.cand = b.cand
        /\ q.queue = b.queue /\ q.pc = b.pc
        /\ \/ q.todo = {"vacancy"} /\ q.basis = r
           \/ q.basis = embedding[VacancyOf[b.cand]] /\ q.basis \in Req
    BY <1>4, <2>1, EmbeddedType DEF IInv
  <2>3. q.basis = embedding[VacancyOf[b.cand]] /\ q.basis \in Req
          => q.basis \in Embedders(VacancyOf[b.cand])
    BY <1>4, <2>1 DEF TraceInv, EmbeddingsStored
  <2>4. QED BY <2>2, <2>3
<1>3. CASE ~ \E code : Answer(r, code)
  <2>1. PICK q :
          /\ Become(r, q)
          /\ q.kind = req[r].kind /\ q.org = req[r].org /\ q.cand = req[r].cand
          /\ q.queue = req[r].queue /\ q.pc \in {"score_consent", "narrate"}
          /\ \/ q.basis = r /\ "vacancy" \in q.todo
             \/ q.basis \in Embedders(VacancyOf[q.cand])
    <3>1. CASE DossierLoadDocument(r)
      <4>1. PICK b, q : /\ b = [req[r] EXCEPT !.pc = "score_consent"]
                        /\ q = Embedded(b, r) /\ Become(r, q)
        BY <1>3, <3>1 DEF DossierLoadDocument
      <4>2. /\ b \in Request /\ b.kind = req[r].kind /\ b.org = req[r].org
            /\ b.cand = req[r].cand /\ b.queue = req[r].queue /\ b.pc = "score_consent"
        BY <1>1, <4>1 DEF Request, Steps
      <4>3. /\ q.kind = b.kind /\ q.org = b.org /\ q.cand = b.cand
            /\ q.queue = b.queue /\ q.pc = b.pc
            /\ \/ q.basis = r /\ "vacancy" \in q.todo
               \/ q.basis \in Embedders(VacancyOf[q.cand])
        BY <1>4, <4>1, <4>2
      <4>4. QED BY <4>1, <4>2, <4>3
    <3>2. CASE ScoreLoadDocument(r) /\ req[r].kind = "score"
      <4>0. Become(r, Embedded([req[r] EXCEPT !.pc = "narrate"], r))
        BY <1>3, <3>2 DEF ScoreLoadDocument, Raise
      <4>1. PICK b, q : /\ b = [req[r] EXCEPT !.pc = "narrate"]
                        /\ q = Embedded(b, r) /\ Become(r, q)
        BY <4>0
      <4>2. /\ b \in Request /\ b.kind = req[r].kind /\ b.org = req[r].org
            /\ b.cand = req[r].cand /\ b.queue = req[r].queue /\ b.pc = "narrate"
        BY <1>1, <4>1 DEF Request, Steps
      <4>3. /\ q.kind = b.kind /\ q.org = b.org /\ q.cand = b.cand
            /\ q.queue = b.queue /\ q.pc = b.pc
            /\ \/ q.basis = r /\ "vacancy" \in q.todo
               \/ q.basis \in Embedders(VacancyOf[q.cand])
        BY <1>4, <4>1, <4>2
      <4>4. QED BY <4>1, <4>2, <4>3
    <3>3. CASE ScoreLoadDocument(r) /\ req[r].kind # "score"
      <4>0. Become(r, [req[r] EXCEPT !.pc = "narrate"])
        BY <1>3, <3>3 DEF ScoreLoadDocument, Raise
      <4>1. PICK q : q = [req[r] EXCEPT !.pc = "narrate"] /\ Become(r, q)
        BY <4>0
      <4>2. /\ q.kind = req[r].kind /\ q.org = req[r].org /\ q.cand = req[r].cand
            /\ q.queue = req[r].queue /\ q.pc = "narrate" /\ q.todo = req[r].todo
            /\ q.basis = req[r].basis
        BY <1>1, <4>1 DEF Request
      <4>3. req[r].pc = "score_document" /\ req[r].done = {} /\ req[r].kind = "dossier"
        BY <1>1, <3>3 DEF ScoreLoadDocument, At, Shape, Scoring
      <4>4. \/ q.basis = r /\ "vacancy" \in q.todo
            \/ q.basis \in Embedders(VacancyOf[q.cand])
        BY <1>1, <4>2, <4>3 DEF KeepsEmbedding, Embedding, Planned
      <4>5. QED BY <4>1, <4>2, <4>4
    <3>4. QED BY <3>1, <3>2, <3>3
  <2>2. KeepsEmbedding(q, r) /\ Quotes(q)
    BY <2>1 DEF KeepsEmbedding, Quotes, Planned
  <2>3. Consented(q)
    <3>1. req[r].pc \in {"document", "score_document"}
      BY DEF DossierLoadDocument, ScoreLoadDocument, At
    <3>2. Consented(req[r])
      BY DEF TraceInv, Traced
    <3>3. QED BY <1>1, <2>1, <3>1, <3>2 DEF Consented, Loose, Scoring
  <2>4. QED BY <1>1, <2>1, <2>2, <2>3, ForwardTrace
<1>5. QED BY <1>2, <1>3

\* The flush that begins holds the vacancy if the plan did.
LEMMA NarrateTrace ==
  ASSUME IInv, TypeInv', TraceInv, NEW r \in Req, ScoreNarrate(r)
  PROVE  TraceInv'
<1>1. /\ UNCHANGED <<tables, audit>> /\ req[r] \in Request /\ req[r].pc = "narrate"
      /\ req[r].kind \in Scoring /\ KeepsEmbedding(req[r], r) /\ Consented(req[r])
  BY AtInv DEF ScoreNarrate, At, TraceInv, Traced
<1>2. PICK v, S, write, T, w :
        /\ T = req[r].todo \cup write
        /\ Become(r, Flushing([req[r] EXCEPT !.draft = v, !.sets = S], "score_flush", T, w))
  BY NarratesDraft
<1>3. PICK q : q = Flushing([req[r] EXCEPT !.draft = v, !.sets = S], "score_flush", T, w)
  OBVIOUS
<1>4. /\ q.kind = req[r].kind /\ q.org = req[r].org /\ q.cand = req[r].cand
      /\ q.queue = req[r].queue
      /\ q.pc = "score_flush" /\ q.todo = T /\ q.done = req[r].done
      /\ q.basis = req[r].basis
  BY <1>1, <1>3 DEF Request, Flushing
<1>5. KeepsEmbedding(q, r) /\ Quotes(q) /\ Consented(q)
  BY <1>1, <1>2, <1>4 DEF KeepsEmbedding, Embedding, Quotes, Consented, Planned, Loose, Scoring
<1>6. QED BY <1>1, <1>2, <1>3, <1>4, <1>5, ForwardTrace DEF Loose

\* The dossier's own flush has nothing of the embedding any more.
LEMMA ComposeTrace ==
  ASSUME IInv, TypeInv', TraceInv, NEW r \in Req, DossierCompose(r)
  PROVE  TraceInv'
<1>1. /\ UNCHANGED <<tables, audit>> /\ req[r] \in Request /\ req[r].pc = "compose"
      /\ req[r].kind = "dossier" /\ Consented(req[r])
  BY AtInv DEF DossierCompose, At, TraceInv, Traced
<1>2. PICK S, T, w : Become(r, Flushing([req[r] EXCEPT !.sets = S], "flush", T, w))
  BY ComposesDossier
<1>3. PICK q : q = Flushing([req[r] EXCEPT !.sets = S], "flush", T, w)
  OBVIOUS
<1>4. /\ q.kind = req[r].kind /\ q.org = req[r].org /\ q.cand = req[r].cand
      /\ q.queue = req[r].queue
      /\ q.pc = "flush"
  BY <1>1, <1>3 DEF Request, Flushing
<1>5. KeepsEmbedding(q, r) /\ Quotes(q) /\ Consented(q)
  BY <1>1, <1>4 DEF KeepsEmbedding, Embedding, Quotes, Consented, Loose
<1>6. QED BY <1>1, <1>2, <1>3, <1>4, <1>5, ForwardTrace DEF Loose

\* The dossier found was generated, and audited, before.
LEMMA DecisionReadTrace ==
  ASSUME IInv, TypeInv', TraceInv, NEW r \in Req, DecisionReadDossier(r)
  PROVE  TraceInv'
<1>1. /\ UNCHANGED <<tables, audit>> /\ req[r] \in Request /\ req[r].pc = "decide"
      /\ req[r].kind = "decision" /\ req[r].cand \in Candidate
  BY AtInv DEF DecisionReadDossier, At, Shape, OnCandidate
<1>2. CASE Answer(r, "409")
  BY <1>1, <1>2, AnswerTrace
<1>3. CASE ~Answer(r, "409")
  <2>1. PICK v :
          /\ dossier[req[r].cand] # NoRow /\ v = dossier[req[r].cand].recommendation
          /\ Become(r, Flushing([req[r] EXCEPT !.draft = v], "flush",
                                {"insDecision"}, "insDecision"))
    BY <1>3 DEF DecisionReadDossier
  <2>2. PICK q : q = Flushing([req[r] EXCEPT !.draft = v], "flush",
                              {"insDecision"}, "insDecision")
    OBVIOUS
  <2>3. /\ q.kind = req[r].kind /\ q.org = req[r].org /\ q.cand = req[r].cand
        /\ q.queue = req[r].queue
        /\ q.pc = "flush" /\ q.draft = v
    BY <1>1, <2>2 DEF Request, Flushing
  <2>4. \E a \in Recorded("dossier_generated", req[r].cand) : a.result.recommendation = v
    BY <1>1, <2>1 DEF TraceInv, RowsAreAudited
  <2>5. KeepsEmbedding(q, r) /\ Quotes(q) /\ Consented(q)
    BY <1>1, <2>3, <2>4 DEF KeepsEmbedding, Embedding, Quotes, Consented
  <2>6. QED BY <1>1, <2>1, <2>2, <2>3, <2>5, ForwardTrace DEF Loose
<1>4. QED BY <1>2, <1>3

\* An upload is for a vacancy of the caller.
LEMMA ParseCvTrace ==
  ASSUME IInv, TypeInv', TraceInv, NEW r \in Req, ParseCv(r)
  PROVE  TraceInv'
<1>1. /\ UNCHANGED <<tables, audit>> /\ req[r] \in Request /\ req[r].kind = "upload"
  BY AtInv DEF ParseCv, At
<1>2. CASE \E code : Answer(r, code)
  BY <1>1, <1>2, AnswerTrace
<1>3. CASE ~ \E code : Answer(r, code)
  <2>1. /\ Owner[req[r].cand] = req[r].org
        /\ Become(r, Flushing(req[r], "flush", {"insCand"}, "insCand"))
    BY <1>3 DEF ParseCv
  <2>2. PICK q : q = Flushing(req[r], "flush", {"insCand"}, "insCand")
    OBVIOUS
  <2>3. /\ q.kind = req[r].kind /\ q.org = req[r].org /\ q.cand = req[r].cand
        /\ q.queue = req[r].queue
        /\ q.pc = "flush"
    BY <1>1, <2>2 DEF Request, Flushing
  <2>4. Traced(q, r)
    BY <1>1, <2>1, <2>3
    DEF TraceInv, Traced, Admitted, OneCandidate, KeepsEmbedding, Embedding, Quotes, Consented, Scoring
  <2>5. q \in Request
    BY <2>1, <2>2 DEF Become, IInv, TypeInv, TypeOK
  <2>6. QED BY <1>1, <2>1, <2>2, <2>3, <2>4, <2>5, LocalTrace
<1>4. QED BY <1>2, <1>3

\* A deletion on request is for a candidate of the caller; a sweep is for all.
LEMMA BeginPurgeTrace ==
  ASSUME IInv, TypeInv', TraceInv, NEW r \in Req, DeleteGetCandidate(r) \/ FindExpired(r)
  PROVE  TraceInv'
<1>1. UNCHANGED <<tables, audit>> /\ req[r] \in Request /\ req[r].kind \in Deleting
  BY AtInv DEF DeleteGetCandidate, FindExpired, At, Deleting
<1>2. CASE \E code : Answer(r, code)
  BY <1>1, <1>2, AnswerTrace
<1>3. CASE ~ \E code : Answer(r, code)
  <2>1. PICK b, c :
          /\ Become(r, Purging(b, c))
          /\ b = req[r] \/ \E x : b = [req[r] EXCEPT !.queue = x, !.batch = x]
          /\ req[r].kind # "ttl" => b = req[r] /\ c = req[r].cand /\ Found(r)
    <3>1. CASE DeleteGetCandidate(r)
      BY <1>3, <3>1 DEF DeleteGetCandidate
    <3>2. CASE FindExpired(r)
      <4>1. PICK x, c : Become(r, Purging([req[r] EXCEPT !.queue = x, !.batch = x], c))
        BY <1>3, <3>2 DEF FindExpired
      <4>2. req[r].kind = "ttl"
        BY <3>2 DEF FindExpired, At
      <4>3. QED BY <4>1, <4>2
    <3>3. QED BY <3>1, <3>2
  <2>2. b.kind = req[r].kind /\ b.org = req[r].org /\ DOMAIN b = DOMAIN req[r]
    BY <1>1, <2>1 DEF Request
  <2>3. PICK q : q = Purging(b, c)
    OBVIOUS
  <2>4. /\ q.kind = req[r].kind /\ q.org = req[r].org /\ q.cand = c /\ q.pc = "flush"
        /\ q.queue \subseteq b.queue
    BY <1>1, <2>2, <2>3 DEF Request, Flushing, Purging
  <2>5. Traced(q, r)
    BY <1>1, <2>1, <2>4
    DEF TraceInv, Traced, Admitted, OneCandidate, KeepsEmbedding, Embedding, Quotes, Consented,
        Deleting, Found,
        Scoring
  <2>6. q \in Request
    BY <2>1, <2>3 DEF Become, IInv, TypeInv, TypeOK
  <2>7. QED BY <1>1, <2>1, <2>3, <2>4, <2>5, <2>6, LocalTrace
<1>4. QED BY <1>2, <1>3

\* A statement that runs moves from the plan to what was done.
LEMMA ExecuteTrace ==
  ASSUME IInv, TypeInv', TraceInv, NEW r \in Req, Execute(r)
  PROVE  TraceInv'
<1>1. /\ UNCHANGED <<tables, audit>> /\ req[r] \in Request
      /\ req[r].pc \in {"score_flush", "flush"} /\ Traced(req[r], r)
  BY AtInv DEF Execute, TraceInv
<1>2. CASE Answer(r, "500")
  BY <1>1, <1>2, AnswerTrace
<1>3. CASE ~Answer(r, "500")
  <2>1. PICK n, hit, w :
          /\ n = req[r].next
          /\ n \notin Purge => hit = {n}
          /\ Become(r, [req[r] EXCEPT !.todo = req[r].todo \ {n}, !.next = w,
                                       !.done = req[r].done \cup hit])
    BY <1>3 DEF Execute
  <2>2. PICK q : q = [req[r] EXCEPT !.todo = req[r].todo \ {n}, !.next = w,
                                    !.done = req[r].done \cup hit]
    OBVIOUS
  <2>3. /\ q.kind = req[r].kind /\ q.org = req[r].org /\ q.cand = req[r].cand
        /\ q.queue = req[r].queue
        /\ q.pc = req[r].pc /\ q.draft = req[r].draft
        /\ q.todo = req[r].todo \ {n} /\ q.done = req[r].done \cup hit
        /\ q.basis = req[r].basis
    BY <1>1, <2>2 DEF Request
  <2>4. "vacancy" \in Planned(req[r]) => "vacancy" \in Planned(q)
    BY <2>1, <2>3 DEF Planned, Purge
  <2>5. KeepsEmbedding(q, r) /\ Quotes(q) /\ Consented(q)
    BY <1>1, <2>3, <2>4 DEF Traced, KeepsEmbedding, Embedding, Quotes, Consented
  <2>6. QED BY <1>1, <2>1, <2>2, <2>3, <2>5, ForwardTrace DEF Loose
<1>4. QED BY <1>2, <1>3

\* Every way a request ends without a commit.
LEMMA EndTrace ==
  ASSUME IInv, TypeInv', TraceInv, NEW r \in Req,
         \/ CreateCandidateRefresh(r) \/ DossierRefresh(r) \/ DecisionRefresh(r)
         \/ Fail(r) \/ BreakDeadlock(r)
  PROVE  TraceInv'
<1>1. UNCHANGED <<tables, audit>>
  BY DEF CreateCandidateRefresh, DossierRefresh, DecisionRefresh, Fail, BreakDeadlock
<1>2. PICK code : Answer(r, code)
  BY DEF CreateCandidateRefresh, DossierRefresh, DecisionRefresh, Fail, BreakDeadlock
<1>3. QED BY <1>1, <1>2, AnswerTrace

-----------------------------------------------------------------------------
(* The commits.                                                             *)

\* What the executed statements D of request r, whose record is p, on candidate c
\* owe to the audit event that its commit records.
Accounted(c, D, p, event, result, rows, r) ==
  /\ "insCand" \in D => event = "cv_parsed"
  /\ D \cap {"insScore", "updScore"} # {} => event = "score_computed" /\ result = p.draft
  /\ "insScore" \in D => c \in consents
  /\ "vacancy" \in D => "vacancy" \in rows
  /\ event = "score_computed" => \/ p.basis = r /\ "vacancy" \in rows
                                 \/ p.basis \in Embedders(VacancyOf[c])
  /\ D \cap {"insDossier", "updDossier"} # {} =>
       event = "dossier_generated" /\ result = p.draft
  /\ "insDecision" \in D =>
       /\ event = "decision_recorded" /\ result = p.draft
       /\ \E a \in Recorded("dossier_generated", c) : a.result.recommendation = p.draft
  /\ event = "decision_recorded" => "insDecision" \in D
  /\ D \cap Purge # {} => event = "candidate_deleted" /\ ~Exists(c)'
  /\ "updCand" \in D => Exists(c)

\* An audit event that is recorded stays recorded.
LEMMA RecordedGrows ==
  ASSUME audit \subseteq audit', NEW event, NEW c
  PROVE  Recorded(event, c) \subseteq Recorded(event, c)'
BY DEF Recorded

\* What is traced of a record stays traced in a commit.
LEMMA TracedGrows ==
  ASSUME audit \subseteq audit', NEW p, NEW s, Traced(p, s),
         p.pc \notin Loose => p.cand \in Candidate,
         \A d \in Candidate : UnderConsent(d) => UnderConsent(d)'
  PROVE  Traced(p, s)'
<1>1. Admitted(p)' /\ OneCandidate(p)'
  BY DEF Traced, Admitted, OneCandidate
<1>2. KeepsEmbedding(p, s)'
  BY DEF Traced, KeepsEmbedding, Embedders
<1>3. Quotes(p)'
  BY RecordedGrows DEF Traced, Quotes
<1>4. Consented(p)'
  BY DEF Traced, Consented
<1>5. QED BY <1>1, <1>2, <1>3, <1>4 DEF Traced

\* A commit whose statements are accounted for keeps every row traceable.
LEMMA CommitTrace ==
  ASSUME IInv, TypeInv', TraceInv, NEW r \in Req, NEW c \in Candidate, NEW D, NEW n,
         NEW event, NEW result, NEW rows, NEW q,
         n = req[r], c = n.cand, D = n.done,
         req[r].pc \in {"score_flush", "flush"},
         Commit(r, event, result, rows, q), Accounted(c, D, n, event, result, rows, r),
         q.kind = req[r].kind, q.org = req[r].org, Traced(q, r),
         req[r].kind = "ttl" => "insDecision" \notin D
  PROVE  TraceInv'
<1> DEFINE e == AuditEntry(event, c, r, result, rows, n.basis)
<1>1. /\ audit' = audit \cup {e}
      /\ e.event = event /\ e.cand = c /\ e.by = r /\ e.result = result
      /\ e.rows = rows /\ e.basis = n.basis
  BY DEF Commit, AuditEntry
<1> HIDE DEF e
<1>2. CommitTables(r) /\ Become(r, q)
  BY DEF Commit
<1>3. req'[r] = q /\ \A s \in Req \ {r} : req'[s] = req[s]
  BY <1>2 DEF Become, IInv, TypeInv, TypeOK
<1>4. Effect(c, D, n, event)
  BY CommitEffect DEF IInv
<1>5. \A d \in Candidate : d # c => Untouched(d)
  BY CommitFrame DEF IInv
<1>6. /\ \A v \in Vacancy : v # VacancyOf[c] => embedding'[v] = embedding[v]
      /\ "vacancy" \in D => embedding'[VacancyOf[c]] = r
      /\ "vacancy" \notin D => embedding' = embedding
  BY <1>2 DEF CommitTables, IInv, TypeInv, TypeOK
<1>17. \A v : Embedders(v) \subseteq Embedders(v)'
  BY <1>1 DEF Embedders
<1>18. "vacancy" \in rows => r \in Embedders(VacancyOf[c])'
  BY <1>1 DEF Embedders
<1>7. /\ "insDecision" \in D =>
           decisions' = decisions \cup {[cand |-> c, by |-> r, ai |-> n.draft]}
      /\ "insDecision" \notin D => decisions' \subseteq decisions
      /\ D \cap {"delDecisions", "delCand"} = {} => decisions \subseteq decisions'
      /\ \A d \in decisions : d.cand # c => d \in decisions'
  <2>1. CASE "insDecision" \in D
    BY <1>2, <2>1 DEF CommitTables
  <2>2. CASE "insDecision" \notin D
    BY <1>2, <2>2 DEF CommitTables
  <2>3. QED BY <2>1, <2>2
<1>8. req[r].kind # "none" /\ (req[r].kind # "ttl" => req[r].org = Owner[c])
  <2>1. Shape(req[r]) /\ Admitted(req[r])
    BY AtInv DEF TraceInv, Traced
  <2>2. QED BY <2>1 DEF Shape, Admitted, Loose
<1>19. ASSUME NEW d \in Candidate, UnderConsent(d) PROVE UnderConsent(d)'
  <2>1. CASE d # c
    BY <1>5, <1>19, <2>1 DEF Untouched, UnderConsent, Exists
  <2>2. CASE d = c /\ "insCand" \in D
    BY <1>2, <2>2 DEF CommitTables, UnderConsent
  <2>3. CASE d = c /\ "insCand" \notin D /\ D \cap Purge = {}
    <3>1. consents' = consents /\ (Exists(c)' => Exists(c))
      BY <1>4, <2>3 DEF Effect, Purge, Accounted, Exists
    <3>2. QED BY <1>19, <2>3, <3>1 DEF UnderConsent
  <2>4. CASE d = c /\ D \cap Purge # {}
    BY <2>4 DEF Accounted, UnderConsent
  <2>5. QED BY <2>1, <2>2, <2>3, <2>4
<1>9. ASSUME NEW s \in Req PROVE Traced(req[s], s)'
  <2>1. PICK p \in Request : p = req'[s]
    BY DEF TypeInv, TypeOK
  <2>2. Traced(p, s)
    BY <1>3, <2>1 DEF TraceInv
  <2>3. p.pc \notin Loose => p.cand \in Candidate
    BY <2>1 DEF TypeInv, Shape, OnCandidate, Loose
  <2>4. Traced(p, s)'
    BY <1>1, <1>19, <2>2, <2>3, TracedGrows
  <2>5. QED BY <2>1, <2>4 DEF Traced, Admitted, OneCandidate, KeepsEmbedding, Embedding,
     Quotes, Consented
<1>10. Authors'
  <2>1. ASSUME NEW a \in audit', a.by \in Req
        PROVE  /\ req'[a.by].kind # "none"
               /\ req'[a.by].kind # "ttl" => req'[a.by].org = Owner[a.cand]
    <3>1. CASE a = e
      BY <1>1, <1>3, <1>8, <3>1
    <3>2. CASE a \in audit
      BY <1>3, <2>1, <3>2 DEF TraceInv, Authors
    <3>3. QED BY <1>1, <3>1, <3>2
  <2>2. ASSUME NEW d \in decisions'
        PROVE  req'[d.by].kind \notin {"none", "ttl"} /\ req'[d.by].org = Owner[d.cand]
    <3>1. CASE d \in decisions
      <4>1. d.by \in Req
        BY <3>1 DEF IInv, TypeInv, TypeOK, Decision
      <4>2. QED BY <1>3, <3>1, <4>1 DEF TraceInv, Authors
    <3>2. CASE d \notin decisions
      <4>1. d = [cand |-> c, by |-> r, ai |-> n.draft] /\ "insDecision" \in D
        BY <1>7, <2>2, <3>2
      <4>2. QED BY <1>3, <1>8, <4>1
    <3>3. QED BY <3>1, <3>2
  <2>3. QED BY <2>1, <2>2 DEF Authors
<1>11. RowsTogether'
  <2> SUFFICES ASSUME NEW d \in Candidate
               PROVE  (Exists(d)' => d \in docs') /\ (score'[d] # NoRow => d \in consents')
    BY DEF RowsTogether
  <2>1. CASE d # c
    BY <1>5, <2>1 DEF Untouched, Exists, TraceInv, RowsTogether
  <2>2. CASE d = c /\ "insCand" \in D
    BY <1>2, <2>2 DEF CommitTables
  <2>3. CASE d = c /\ "insCand" \notin D /\ D \cap Purge = {}
    <3>1. docs' = docs /\ consents' = consents /\ (Exists(c)' => Exists(c))
      BY <1>4, <2>3 DEF Effect, Purge, Accounted, Exists
    <3>2. score'[c] # NoRow => "insScore" \in D \/ score[c] # NoRow
      BY <1>4, <2>3 DEF Effect, Purge, PatchScore
    <3>3. QED BY <2>3, <3>1, <3>2 DEF TraceInv, RowsTogether, Accounted
  <2>4. CASE d = c /\ "insCand" \notin D /\ D \cap Purge # {}
    <3>1. ~Exists(c)' /\ D \cap {"insScore", "updScore"} = {}
      BY <2>4 DEF Accounted
    <3>2. "delCand" \in D \/ ~Exists(c)
      BY <1>4, <2>4, <3>1 DEF Effect, Exists
    <3>3. ~Exists(c) => score[c] = NoRow
      BY DEF IInv, Integrity, NothingOutlivesCandidate
    <3>4. score'[c] = NoRow
      BY <1>4, <3>1, <3>2, <3>3 DEF Effect
    <3>5. QED BY <2>4, <3>1, <3>4
  <2>5. QED BY <2>1, <2>2, <2>3, <2>4
<1>20. EmbeddingsStored'
  <2> SUFFICES ASSUME NEW v \in Vacancy, embedding'[v] # NoRow
               PROVE  embedding'[v] \in Embedders(v)'
    BY DEF EmbeddingsStored
  <2>1. CASE v = VacancyOf[c] /\ "vacancy" \in D
    BY <1>6, <1>18, <2>1 DEF Accounted
  <2>2. CASE embedding'[v] = embedding[v]
    BY <1>17, <2>2 DEF TraceInv, EmbeddingsStored
  <2>3. QED BY <1>6, <2>1, <2>2
<1>12. ScoreUsesStoredEmbedding'
  <2>1. ASSUME NEW d \in Candidate, NEW a \in Recorded("score_computed", d)'
        PROVE  a.basis \in Embedders(VacancyOf[d])'
    <3>1. a \in audit' /\ a.event = "score_computed" /\ a.cand = d
      BY DEF Recorded
    <3>2. CASE a \in audit
      <4>1. a \in Recorded("score_computed", d)
        BY <3>1, <3>2 DEF Recorded
      <4>2. QED BY <1>17, <4>1 DEF TraceInv, ScoreUsesStoredEmbedding
    <3>3. CASE a = e
      BY <1>1, <1>17, <1>18, <3>1, <3>3 DEF Accounted
    <3>4. QED BY <1>1, <3>1, <3>2, <3>3
  <2>2. QED BY <2>1 DEF ScoreUsesStoredEmbedding
<1>13. RowsAreAudited'
  <2>1. ASSUME NEW d \in Candidate
        PROVE  /\ Exists(d)' => Recorded("cv_parsed", d)' # {}
               /\ score'[d] # NoRow => \E a, b \in Recorded("score_computed", d)' :
                    /\ a.result.value = score'[d].value
                    /\ b.result.recommendation = score'[d].recommendation
               /\ dossier'[d] # NoRow => \E a, b \in Recorded("dossier_generated", d)' :
                    /\ a.result = dossier'[d].summary
                    /\ b.result.recommendation = dossier'[d].recommendation
    <3>1. /\ Exists(d) => Recorded("cv_parsed", d)' # {}
          /\ score[d] # NoRow => \E a, b \in Recorded("score_computed", d)' :
               /\ a.result.value = score[d].value
               /\ b.result.recommendation = score[d].recommendation
          /\ dossier[d] # NoRow => \E a, b \in Recorded("dossier_generated", d)' :
               /\ a.result = dossier[d].summary
               /\ b.result.recommendation = dossier[d].recommendation
      BY <1>1, RecordedGrows DEF TraceInv, RowsAreAudited
    <3>2. CASE d # c
      BY <1>5, <3>1, <3>2 DEF Untouched, Exists
    <3>3. CASE d = c
      <4>1. e \in Recorded(event, c)'
        BY <1>1 DEF Recorded
      <4>2. Exists(c)' => Exists(c) \/ event = "cv_parsed"
        BY <1>4 DEF Effect, Accounted, Exists
      <4>3. ASSUME score'[c] # NoRow
            PROVE  /\ \/ event = "score_computed" /\ score'[c].value = result.value
                      \/ score[c] # NoRow /\ score'[c].value = score[c].value
                   /\ \/ /\ event = "score_computed"
                         /\ score'[c].recommendation = result.recommendation
                      \/ score[c] # NoRow /\ score'[c].recommendation = score[c].recommendation
        BY <1>4, <4>3 DEF Effect, Accounted, PatchScore
      <4>4. ASSUME dossier'[c] # NoRow
            PROVE  /\ \/ event = "dossier_generated" /\ dossier'[c].summary = result
                      \/ dossier[c] # NoRow /\ dossier'[c].summary = dossier[c].summary
                   /\ \/ /\ event = "dossier_generated"
                         /\ dossier'[c].recommendation = result.recommendation
                      \/ /\ dossier[c] # NoRow
                         /\ dossier'[c].recommendation = dossier[c].recommendation
        BY <1>4, <4>4 DEF Effect, Accounted, PatchDossier, Reporting
      <4>5. Exists(c)' => Recorded("cv_parsed", c)' # {}
        BY <3>1, <3>3, <4>1, <4>2
      <4>6. score'[c] # NoRow => \E a, b \in Recorded("score_computed", c)' :
              /\ a.result.value = score'[c].value
              /\ b.result.recommendation = score'[c].recommendation
        BY <1>1, <3>1, <3>3, <4>1, <4>3
      <4>7. dossier'[c] # NoRow => \E a, b \in Recorded("dossier_generated", c)' :
              /\ a.result = dossier'[c].summary
              /\ b.result.recommendation = dossier'[c].recommendation
        BY <1>1, <3>1, <3>3, <4>1, <4>4
      <4>8. QED BY <3>3, <4>5, <4>6, <4>7
    <3>4. QED BY <3>2, <3>3
  <2>2. ASSUME NEW d \in decisions'
        PROVE  \E a \in Recorded("decision_recorded", d.cand)' : a.by = d.by /\ a.result = d.ai
    <3>1. CASE d \in decisions
      BY <1>1, <3>1, RecordedGrows DEF TraceInv, RowsAreAudited
    <3>2. CASE d \notin decisions
      <4>1. d = [cand |-> c, by |-> r, ai |-> n.draft] /\ "insDecision" \in D
        BY <1>7, <2>2, <3>2
      <4>2. e \in Recorded("decision_recorded", c)' /\ e.result = n.draft
        BY <1>1, <4>1 DEF Recorded, Accounted
      <4>3. QED BY <1>1, <4>1, <4>2
    <3>3. QED BY <3>1, <3>2
  <2>3. QED BY <2>1, <2>2 DEF RowsAreAudited, Exists, Recorded
<1>14. DecisionQuotesDossier'
  <2>1. ASSUME NEW d \in decisions'
        PROVE  \E a \in Recorded("dossier_generated", d.cand)' :
                 a.result.recommendation = d.ai
    <3>1. CASE d \in decisions
      BY <1>1, <3>1, RecordedGrows DEF TraceInv, DecisionQuotesDossier
    <3>2. CASE d \notin decisions
      <4>1. d = [cand |-> c, by |-> r, ai |-> n.draft] /\ "insDecision" \in D
        BY <1>7, <2>1, <3>2
      <4>2. QED BY <1>1, <4>1, RecordedGrows DEF Accounted
    <3>3. QED BY <3>1, <3>2
  <2>2. QED BY <2>1 DEF DecisionQuotesDossier, Recorded
<1>15. AuditedDecisionKept'
  <2>1. ASSUME NEW a \in audit', a.event = "decision_recorded"
        PROVE  (\E d \in decisions' : d.by = a.by /\ d.cand = a.cand) \/ Deleted(a.cand)'
    <3>1. CASE a \in audit
      <4>1. Deleted(a.cand) => Deleted(a.cand)'
        BY <1>1, RecordedGrows DEF Deleted
      <4>2. CASE D \cap {"delDecisions", "delCand"} = {}
        BY <1>7, <2>1, <3>1, <4>1, <4>2 DEF TraceInv, AuditedDecisionKept
      <4>3. CASE D \cap {"delDecisions", "delCand"} # {}
        <5>1. Deleted(c)'
          BY <1>4, <4>3 DEF Accounted, Effect, Purge
        <5>2. CASE a.cand = c
          BY <5>1, <5>2
        <5>3. CASE a.cand # c
          BY <1>7, <2>1, <3>1, <4>1, <5>3 DEF TraceInv, AuditedDecisionKept
        <5>4. QED BY <5>2, <5>3
      <4>4. QED BY <4>2, <4>3
    <3>2. CASE a = e
      <4>1. "insDecision" \in D
        BY <1>1, <2>1, <3>2 DEF Accounted
      <4>2. [cand |-> c, by |-> r, ai |-> n.draft] \in decisions'
        BY <1>7, <4>1
      <4>3. QED BY <1>1, <3>2, <4>2
    <3>3. QED BY <1>1, <3>1, <3>2
  <2>2. QED BY <2>1 DEF AuditedDecisionKept, Deleted, Recorded
<1>16. QED BY <1>9, <1>10, <1>11, <1>12, <1>13, <1>14, <1>15, <1>20 DEF TraceInv

\* An upload's rows are audited as a parsed CV.
LEMMA CreateCandidateCommitTrace ==
  ASSUME IInv, TypeInv', TraceInv, NEW r \in Req, CreateCandidateCommit(r) PROVE TraceInv'
<1>1. PICK q : /\ q = Committed(req[r], "refresh")
               /\ Commit(r, "cv_parsed", NoRow, {}, q)
  BY DEF CreateCandidateCommit
<1>2. /\ req[r] \in Request /\ req[r].kind = "upload" /\ req[r].pc = "flush"
      /\ Shape(req[r]) /\ OnCandidate(req[r]) /\ Traced(req[r], r)
      /\ HeldRows(req[r], req[r].cand) /\ req[r].todo = {}
  BY <1>1, AtInv DEF CreateCandidateCommit, At, OnCandidate, Commit, TraceInv
<1>3. PICK c, D, n : c \in Candidate /\ c = n.cand /\ D = n.done /\ n = req[r]
  BY <1>2 DEF Shape
<1>4. /\ q.kind = req[r].kind /\ q.org = req[r].org /\ q.cand = c /\ q.pc = "refresh"
      /\ q.queue \subseteq req[r].queue
  BY <1>1, <1>2, <1>3 DEF Committed, Request
<1>5. Traced(q, r)
  BY <1>2, <1>3, <1>4
  DEF Traced, Admitted, OneCandidate, KeepsEmbedding, Embedding, Quotes, Consented, Loose
<1>6. Accounted(c, D, n, "cv_parsed", NoRow, {}, r)
  <2>1. D \subseteq {"insCand"}
    BY <1>2, <1>3 DEF Shape, Planned
  <2>2. QED BY <2>1 DEF Accounted, Purge
<1>7. req[r].kind # "ttl"
  BY <1>2
<1>8. QED BY <1>1, <1>2, <1>3, <1>4, <1>5, <1>6, <1>7, CommitTrace

\* A score is audited with its value, and its embedding is stored with it.
LEMMA ScoreCommitTrace ==
  ASSUME IInv, TypeInv', TraceInv, NEW r \in Req, ScoreCommit(r) PROVE TraceInv'
<1>1. PICK q, rows :
        /\ q = Committed(req[r], "score_refresh") /\ rows = req[r].done \cap {"vacancy"}
        /\ Commit(r, "score_computed", req[r].draft, rows, q)
  BY DEF ScoreCommit
<1>2. /\ req[r] \in Request /\ req[r].kind \in Scoring /\ req[r].pc = "score_flush"
      /\ Shape(req[r]) /\ OnCandidate(req[r]) /\ Traced(req[r], r)
      /\ HeldRows(req[r], req[r].cand) /\ req[r].todo = {}
  BY <1>1, AtInv DEF ScoreCommit, At, OnCandidate, Commit, TraceInv, Scoring
<1>3. PICK c, D, n : c \in Candidate /\ c = n.cand /\ D = n.done /\ n = req[r]
  BY <1>2 DEF Shape
<1>4. /\ q.kind = req[r].kind /\ q.org = req[r].org /\ q.cand = c /\ q.pc = "score_refresh"
      /\ q.queue \subseteq req[r].queue
  BY <1>1, <1>2, <1>3 DEF Committed, Request
<1>5. Traced(q, r)
  BY <1>2, <1>3, <1>4
  DEF Traced, Admitted, OneCandidate, KeepsEmbedding, Embedding, Quotes, Consented, Loose
<1>6. Accounted(c, D, n, "score_computed", n.draft, rows, r)
  <2>1. D \subseteq {"vacancy", "insScore", "updScore"} /\ rows = D \cap {"vacancy"}
    BY <1>1, <1>2, <1>3 DEF Shape, Planned
  <2>2. \/ n.basis = r /\ "vacancy" \in rows
        \/ n.basis \in Embedders(VacancyOf[c])
    BY <1>2, <1>3, <2>1 DEF Traced, KeepsEmbedding, Embedding, Planned
  <2>3. "insScore" \in D => c \in consents
    BY <1>2, <1>3 DEF Traced, Consented, UnderConsent, Loose, HeldRows, Scoring
  <2>4. QED BY <2>1, <2>2, <2>3 DEF Accounted, Purge
<1>7. req[r].kind # "ttl"
  BY <1>2 DEF Scoring
<1>8. QED BY <1>1, <1>2, <1>3, <1>4, <1>5, <1>6, <1>7, CommitTrace

\* A dossier is audited with the result it reports.
LEMMA DossierCommitTrace ==
  ASSUME IInv, TypeInv', TraceInv, NEW r \in Req, DossierCommit(r) PROVE TraceInv'
<1>1. PICK q : /\ q = Committed(req[r], "refresh")
               /\ Commit(r, "dossier_generated", req[r].draft, {}, q)
  BY DEF DossierCommit
<1>2. /\ req[r] \in Request /\ req[r].kind = "dossier" /\ req[r].pc = "flush"
      /\ Shape(req[r]) /\ OnCandidate(req[r]) /\ Traced(req[r], r)
      /\ HeldRows(req[r], req[r].cand) /\ req[r].todo = {}
  BY <1>1, AtInv DEF DossierCommit, At, OnCandidate, Commit, TraceInv
<1>3. PICK c, D, n : c \in Candidate /\ c = n.cand /\ D = n.done /\ n = req[r]
  BY <1>2 DEF Shape
<1>4. /\ q.kind = req[r].kind /\ q.org = req[r].org /\ q.cand = c /\ q.pc = "refresh"
      /\ q.queue \subseteq req[r].queue
  BY <1>1, <1>2, <1>3 DEF Committed, Request
<1>5. Traced(q, r)
  BY <1>2, <1>3, <1>4
  DEF Traced, Admitted, OneCandidate, KeepsEmbedding, Embedding, Quotes, Consented, Loose
<1>6. Accounted(c, D, n, "dossier_generated", n.draft, {}, r)
  <2>1. D \subseteq {"insDossier", "updDossier", "updCand"}
    BY <1>2, <1>3 DEF Shape, Planned
  <2>2. "updCand" \in D => Exists(c)
    BY <1>2, <1>3 DEF HeldRows
  <2>3. QED BY <2>1, <2>2 DEF Accounted, Purge
<1>7. req[r].kind # "ttl"
  BY <1>2
<1>8. QED BY <1>1, <1>2, <1>3, <1>4, <1>5, <1>6, <1>7, CommitTrace

\* A decision is audited with the recommendation it quotes.
LEMMA DecisionCommitTrace ==
  ASSUME IInv, TypeInv', TraceInv, NEW r \in Req, DecisionCommit(r) PROVE TraceInv'
<1>1. PICK q : /\ q = Committed(req[r], "refresh")
               /\ Commit(r, "decision_recorded", req[r].draft, {}, q)
  BY DEF DecisionCommit
<1>2. /\ req[r] \in Request /\ req[r].kind = "decision" /\ req[r].pc = "flush"
      /\ Shape(req[r]) /\ OnCandidate(req[r]) /\ Traced(req[r], r)
      /\ HeldRows(req[r], req[r].cand) /\ req[r].todo = {}
  BY <1>1, AtInv DEF DecisionCommit, At, OnCandidate, Commit, TraceInv
<1>3. PICK c, D, n : c \in Candidate /\ c = n.cand /\ D = n.done /\ n = req[r]
  BY <1>2 DEF Shape
<1>4. /\ q.kind = req[r].kind /\ q.org = req[r].org /\ q.cand = c /\ q.pc = "refresh"
      /\ q.queue \subseteq req[r].queue
  BY <1>1, <1>2, <1>3 DEF Committed, Request
<1>5. Traced(q, r)
  BY <1>2, <1>3, <1>4
  DEF Traced, Admitted, OneCandidate, KeepsEmbedding, Embedding, Quotes, Consented, Loose
<1>6. Accounted(c, D, n, "decision_recorded", n.draft, {}, r)
  <2>1. D = {"insDecision"}
    BY <1>2, <1>3 DEF Shape, Planned
  <2>2. \E a \in Recorded("dossier_generated", c) : a.result.recommendation = n.draft
    BY <1>1, <1>2, <1>3 DEF Traced, Quotes
  <2>3. QED BY <2>1, <2>2 DEF Accounted, Purge
<1>7. req[r].kind # "ttl"
  BY <1>2
<1>8. QED BY <1>1, <1>2, <1>3, <1>4, <1>5, <1>6, <1>7, CommitTrace

\* An export writes nothing but its audit event.
LEMMA ExportCommitTrace ==
  ASSUME IInv, TypeInv', TraceInv, NEW r \in Req, ExportCommit(r) PROVE TraceInv'
<1>1. PICK q : /\ q = Answered(req[r], "ok")
               /\ Commit(r, "pdf_exported", NoRow, {}, q)
  BY DEF ExportCommit
<1>2. /\ req[r] \in Request /\ req[r].kind = "export" /\ req[r].pc = "flush"
      /\ Shape(req[r]) /\ OnCandidate(req[r]) /\ Traced(req[r], r)
      /\ HeldRows(req[r], req[r].cand) /\ req[r].todo = {}
  BY <1>1, AtInv DEF ExportCommit, At, OnCandidate, Commit, TraceInv
<1>3. PICK c, D, n : c \in Candidate /\ c = n.cand /\ D = n.done /\ n = req[r]
  BY <1>2 DEF Shape
<1>4. /\ q.kind = req[r].kind /\ q.org = req[r].org /\ q.cand = c /\ q.pc = "done"
      /\ q.queue \subseteq req[r].queue
  BY <1>1, <1>2, <1>3 DEF Answered, Request
<1>5. Traced(q, r)
  BY <1>2, <1>3, <1>4
  DEF Traced, Admitted, OneCandidate, KeepsEmbedding, Embedding, Quotes, Consented, Loose
<1>6. Accounted(c, D, n, "pdf_exported", NoRow, {}, r)
  <2>1. D = {}
    BY <1>2, <1>3 DEF Shape, Planned
  <2>2. QED BY <2>1 DEF Accounted
<1>7. req[r].kind # "ttl"
  BY <1>2
<1>8. QED BY <1>1, <1>2, <1>3, <1>4, <1>5, <1>6, <1>7, CommitTrace

\* A deletion whose statements found rows takes the candidate with them.
LEMMA DeleteCommitTrace ==
  ASSUME IInv, TypeInv', TraceInv, NEW r \in Req, DeleteCommit(r) PROVE TraceInv'
<1>1. /\ req[r] \in Request /\ req[r].kind \in Deleting /\ req[r].pc = "flush"
      /\ Shape(req[r]) /\ OnCandidate(req[r]) /\ Traced(req[r], r) /\ req[r].todo = {}
      /\ Remembers(req[r], req[r].cand) /\ HeldRows(req[r], req[r].cand)
  BY AtInv DEF DeleteCommit, At, OnCandidate, Commit, Deleting, TraceInv
<1>2. PICK c, D, n :
        c \in Candidate /\ c = n.cand /\ D = n.done /\ n = req[r]
  BY <1>1 DEF Shape
<1>3. PICK rows, q :
        /\ Commit(r, "candidate_deleted", NoRow, rows, q)
        /\ \/ q = Answered(req[r], "ok")
           \/ \E d \in req[r].queue : q = Purging(Committed(req[r], "flush"), d)
  BY DEF DeleteCommit
<1>4. /\ q.kind = req[r].kind /\ q.org = req[r].org
      /\ q.queue \subseteq req[r].queue /\ q.pc \in {"done", "flush"}
      /\ q.pc = "flush" => req[r].queue # {}
  <2>1. CASE q = Answered(req[r], "ok")
    BY <1>1, <2>1 DEF Answered, Request
  <2>2. ASSUME NEW d \in req[r].queue, q = Purging(Committed(req[r], "flush"), d)
        PROVE  /\ q.kind = req[r].kind /\ q.org = req[r].org
               /\ q.queue \subseteq req[r].queue /\ q.pc = "flush"
    <3>1. PICK b : b = Committed(req[r], "flush")
      OBVIOUS
    <3>2. /\ b.kind = req[r].kind /\ b.org = req[r].org /\ b.queue = req[r].queue
          /\ DOMAIN b = DOMAIN req[r]
      BY <1>1, <3>1 DEF Committed, Request
    <3>3. q = Purging(b, d)
      BY <2>2, <3>1
    <3>4. QED BY <1>1, <3>2, <3>3 DEF Purging, Flushing, Request
  <2>3. QED BY <1>3, <2>1, <2>2
<1>5. Traced(q, r)
  BY <1>1, <1>4
  DEF Traced, Admitted, OneCandidate, KeepsEmbedding, Embedding, Quotes, Consented, Loose, Deleting,
      Scoring
<1>6. ~Exists(c)'
  <2>1. D \subseteq Purge
    BY <1>1, <1>2 DEF Shape, Planned
  <2>2. Effect(c, D, n, "candidate_deleted")
    BY <1>2, <1>3, CommitEffect DEF IInv
  <2>3. "delCand" \notin D => ~Exists(c)
    BY <1>1, <1>2 DEF Remembers, Planned
  <2>4. QED BY <2>1, <2>2, <2>3 DEF Effect, Exists, Purge
<1>7. Accounted(c, D, n, "candidate_deleted", NoRow, rows, r)
  <2>1. D \subseteq Purge
    BY <1>1, <1>2 DEF Shape, Planned
  <2>2. QED BY <1>6, <2>1 DEF Accounted, Purge
<1>8. "insDecision" \notin D
  BY <1>7 DEF Accounted
<1>9. QED BY <1>1, <1>2, <1>3, <1>4, <1>5, <1>7, <1>8, CommitTrace

-----------------------------------------------------------------------------
\* The rows that finished uploads left are traceable.
LEMMA InitTrace == ASSUME Init PROVE TraceInv
<1>1. /\ Idle.kind = "none" /\ Idle.pc = "idle" /\ Idle.queue = {}
  BY DEF Idle
<1>2. \A r \in Req : Traced(req[r], r)
  BY <1>1
  DEF Init, Traced, Admitted, OneCandidate, KeepsEmbedding, Embedding, Quotes, Consented, Loose,
      Scoring
<1>3. /\ audit = {AuditEntry("cv_parsed", c, NoRow, NoRow, {}, NoRow) : c \in Uploaded}
      /\ decisions = {}
      /\ \A c \in Candidate : score[c] = NoRow /\ dossier[c] = NoRow
      /\ \A c \in Candidate : Exists(c) <=> c \in Uploaded
      /\ docs = Uploaded /\ \A v \in Vacancy : embedding[v] = NoRow
  BY DEF Init, Exists
<1>4. \A a \in audit : a.by = NoRow /\ a.event = "cv_parsed"
  BY <1>3 DEF AuditEntry
<1>5. Authors /\ AuditedDecisionKept /\ DecisionQuotesDossier
  BY <1>3, <1>4 DEF Authors, AuditedDecisionKept, DecisionQuotesDossier
<1>6. RowsTogether /\ EmbeddingsStored /\ ScoreUsesStoredEmbedding
  BY <1>3, <1>4 DEF RowsTogether, EmbeddingsStored, ScoreUsesStoredEmbedding, Recorded
<1>7. RowsAreAudited
  <2>1. ASSUME NEW c \in Uploaded
        PROVE  AuditEntry("cv_parsed", c, NoRow, NoRow, {}, NoRow) \in Recorded("cv_parsed", c)
    BY <1>3 DEF Recorded, AuditEntry
  <2>2. \A c \in Candidate : Exists(c) => Recorded("cv_parsed", c) # {}
    BY <1>3, <2>1
  <2>3. QED BY <1>3, <2>2 DEF RowsAreAudited
<1>8. QED BY <1>2, <1>5, <1>6, <1>7 DEF TraceInv

\* Every step keeps the rows traceable.
LEMMA NextTrace == ASSUME IInv, TraceInv, [Next]_vars PROVE TraceInv'
<1>1. TypeInv'
  BY NextType DEF IInv
<1>2. CASE UNCHANGED vars
  BY <1>2
  DEF vars, TraceInv, Traced, Admitted, OneCandidate, KeepsEmbedding, Embedding, Quotes, Consented,
     UnderConsent, Embedders, EmbeddingsStored, Authors, RowsTogether,
     ScoreUsesStoredEmbedding, RowsAreAudited, DecisionQuotesDossier, AuditedDecisionKept,
     Exists, Recorded, Deleted
<1>3. ASSUME NEW r \in Req, Arrive(r) \/ StartTtl(r) \/ BreakDeadlock(r) \/ Fail(r)
      PROVE  TraceInv'
  BY <1>1, <1>3, StartTrace, EndTrace
<1>4. ASSUME NEW r \in Req, Advance(r) PROVE TraceInv'
  <2>1. CASE Execute(r)
    BY <1>1, <2>1, ExecuteTrace
  <2>2. CASE CreateCandidate(r)
    BY <1>1, <2>2, ParseCvTrace, CreateCandidateCommitTrace, EndTrace DEF CreateCandidate
  <2>3. CASE ScoreCandidate(r)
    BY <1>1, <2>3, GetCandidateTrace, CheckTrace, LoadDocumentTrace, NarrateTrace,
       ScoreCommitTrace
    DEF ScoreCandidate
  <2>4. CASE GenerateDossier(r)
    BY <1>1, <2>4, GetCandidateTrace, CheckTrace, LoadDocumentTrace, ComposeTrace,
       DossierCommitTrace, EndTrace
    DEF GenerateDossier
  <2>5. CASE RecordDecision(r)
    BY <1>1, <2>5, GetCandidateTrace, DecisionReadTrace, DecisionCommitTrace, EndTrace
    DEF RecordDecision
  <2>6. CASE ExportDossierPdf(r)
    BY <1>1, <2>6, GetCandidateTrace, CheckTrace, ExportCommitTrace DEF ExportDossierPdf
  <2>7. CASE DeleteCandidate(r)
    BY <1>1, <2>7, BeginPurgeTrace, DeleteCommitTrace DEF DeleteCandidate
  <2>8. QED BY <1>4, <2>1, <2>2, <2>3, <2>4, <2>5, <2>6, <2>7 DEF Advance
<1>5. QED BY <1>2, <1>3, <1>4 DEF Next

\* TraceInv holds in every reachable state: every row leads back to an audited
\* request of the candidate's organization.
THEOREM Traceable == Spec => []TraceInv
BY InitTrace, NextTrace, Inductive, PTL DEF Spec

\* No request writes anything about a candidate of another organization.
THEOREM TenantsIsolated == Spec => []TenantIsolation
<1>1. IInv /\ TraceInv => TenantIsolation
  BY DEF TraceInv, Authors, TenantIsolation
<1>2. QED BY <1>1, Inductive, Traceable, PTL

\* The providers are told about a candidate, and results kept, only under a consent
\* that was given and that a deletion alone takes away.
THEOREM AnalysisConsented == Spec => []AnalysisUnderConsent
<1>1. ASSUME IInv, TraceInv PROVE AnalysisUnderConsent
  <2>1. ASSUME NEW c \in Candidate, score[c] # NoRow \/ dossier[c] # NoRow
        PROVE  c \in consents /\ c \in docs
    <3>1. score[c] # NoRow /\ Exists(c)
      BY <1>1, <2>1 DEF IInv, Integrity, DossierHasScore, NothingOutlivesCandidate
    <3>2. QED BY <1>1, <3>1 DEF TraceInv, RowsTogether
  <2>2. ASSUME NEW r \in Req, req[r].pc \in {"narrate", "compose"}
        PROVE  req[r].cand \in consents \/ Deleted(req[r].cand)
    <3>1. Shape(req[r]) /\ Acquainted(req[r]) /\ Consented(req[r])
      BY <1>1, AtInv DEF TraceInv, Traced
    <3>2. req[r].kind \in {"score", "dossier"}
      BY <2>2, <3>1 DEF Shape, Scoring
    <3>3. UnderConsent(req[r].cand) /\ Known(req[r].cand)
      BY <2>2, <3>1, <3>2 DEF Consented, Acquainted, Loose
    <3>4. QED BY <3>3 DEF UnderConsent, Known
  <2>3. QED BY <2>1, <2>2 DEF AnalysisUnderConsent
<1>2. QED BY <1>1, Inductive, Traceable, PTL

\* Every score that was reported was computed against an embedding that its vacancy
\* holds or has held, stored before or in one commit with the score.
THEOREM ScoresReproducible == Spec => []ScoreUsesStoredEmbedding
<1>1. TraceInv => ScoreUsesStoredEmbedding
  BY DEF TraceInv
<1>2. QED BY <1>1, Traceable, PTL

\* Every column of a stored result is one that an event of the audit log reports.
THEOREM RowsAudited == Spec => []RowsAreAudited
<1>1. TraceInv => RowsAreAudited
  BY DEF TraceInv
<1>2. QED BY <1>1, Traceable, PTL

\* A decision quotes a recommendation that a dossier of its candidate gave.
THEOREM DecisionsQuoteDossiers == Spec => []DecisionQuotesDossier
<1>1. TraceInv => DecisionQuotesDossier
  BY DEF TraceInv
<1>2. QED BY <1>1, Traceable, PTL

\* A decision that was audited is on file until its candidate is deleted.
THEOREM DecisionsKept == Spec => []AuditedDecisionKept
<1>1. TraceInv => AuditedDecisionKept
  BY DEF TraceInv
<1>2. QED BY <1>1, Traceable, PTL
=============================================================================
