-------------------------- MODULE IntegrityProofs --------------------------
(***************************************************************************)
(* The inductive invariant IInv of TalentTrustInv is one, for any number   *)
(* of candidates, requests and results; and the integrity of the committed *)
(* rows follows.  TypeInv' comes from TypeProofs; the steps that leave the *)
(* tables alone are treated before the commits.                            *)
(***************************************************************************)
EXTENDS TypeProofs

USE StoreAssumption

-----------------------------------------------------------------------------
(* Steps that leave the tables alone.                                       *)

\* A step that moves one request only.
LEMMA LocalInv ==
  ASSUME IInv, TypeInv', NEW r \in Req, NEW q \in Request, Become(r, q),
         UNCHANGED <<tables, audit>>, Fit(q),
         req[r].kind = "upload" => q.kind = "upload" /\ q.cand = req[r].cand,
         \A s \in Req \ {r} : req[s].cand = q.cand => Excludes(q, req[s]) /\ Excludes(req[s], q)
  PROVE  IInv'
<1>1. /\ req'[r] = q
      /\ \A s \in Req \ {r} : req'[s] = req[s]
  BY DEF Become, IInv, TypeInv, TypeOK
<1>2. /\ cand' = cand /\ docs' = docs /\ consents' = consents /\ score' = score
      /\ dossier' = dossier /\ decisions' = decisions /\ audit' = audit
  BY DEF tables
<1>3. \A c \in Candidate : (Known(c)' <=> Known(c)) /\ (Deleted(c)' <=> Deleted(c))
  BY <1>2 DEF Known, Exists, Deleted, Recorded
<1>4. RequestInv'
  <2> SUFFICES ASSUME NEW s \in Req PROVE Fit(req[s])'
    BY DEF RequestInv
  <2>1. PICK p \in Request : p = req'[s]
    BY DEF TypeInv, TypeOK
  <2>2. Fit(p)
    BY <1>1, <2>1 DEF IInv, RequestInv
  <2>3. OnCandidate(p) => HeldRows(p, p.cand)'
    BY <1>2, <2>2 DEF Fit, HeldRows, Exists
  <2>4. OnCandidate(p) => Remembers(p, p.cand)'
    BY <1>2, <2>2 DEF Fit, Remembers, Exists
  <2>5. Acquainted(p)'
    BY <1>2, <2>2 DEF Fit, Acquainted, Known, Exists, Deleted, Recorded
  <2>6. Fit(p)'
    BY <2>3, <2>4, <2>5 DEF Fit
  <2>7. QED BY <2>1, <2>6 DEF Fit, HeldRows, Remembers, Acquainted
<1>5. LockInv'
  <2> SUFFICES ASSUME NEW a \in Req, NEW b \in Req, a # b,
                      req'[a].cand = req'[b].cand
               PROVE  Excludes(req[a], req[b])'
    BY DEF LockInv
  <2>2. Excludes(req'[a], req'[b])
    BY <1>1 DEF IInv, LockInv
  <2>3. QED BY <2>2 DEF Excludes, Held
<1>6. MintedInv'
  BY <1>1, <1>3 DEF IInv, MintedInv
<1>7. Integrity'
  BY <1>2, <1>3 DEF IInv, Integrity, NothingOutlivesCandidate, DossierHasScore,
     StatusMatchesDossier, DecisionHasDossier, DeletedStaysGone, DecisionsOn, Exists,
     Deleted, Recorded
<1>8. QED BY <1>4, <1>5, <1>6, <1>7 DEF IInv

\* A step to a record without locks excludes and is excluded as before.
LEMMA QuietInv ==
  ASSUME IInv, TypeInv', NEW r \in Req, NEW q \in Request, Become(r, q),
         UNCHANGED <<tables, audit>>, q.done = {},
         q.kind = req[r].kind, q.kind = "upload" => q.cand = req[r].cand,
         OnCandidate(q) => Remembers(q, q.cand), Acquainted(q)
  PROVE  IInv'
<1>1. Fit(q)
  BY DEF Fit, HeldRows
<1>2. ASSUME NEW s \in Req \ {r}, req[s].cand = q.cand
      PROVE  Excludes(q, req[s]) /\ Excludes(req[s], q)
  BY <1>2 DEF Excludes, Held, IInv, LockInv
<1>3. QED BY <1>1, <1>2, LocalInv

\* An answered request is free of obligations.
LEMMA AnswerInv ==
  ASSUME IInv, TypeInv', NEW r \in Req, NEW code, Answer(r, code),
         UNCHANGED <<tables, audit>>
  PROVE  IInv'
<1> DEFINE q == Answered(req[r], code)
<1>1. Become(r, q)
  BY DEF Answer
<1>2. q \in Request
  BY <1>1 DEF TypeInv, TypeOK, Become, IInv
<1>3. /\ q.done = {} /\ q.kind = req[r].kind /\ q.cand = req[r].cand
      /\ q.pc = "done" /\ q.queue = {}
  BY DEF Answered, IInv, TypeInv, TypeOK, Request
<1> HIDE DEF q
<1>4. ~OnCandidate(q) /\ Acquainted(q)
  BY <1>3 DEF OnCandidate, Acquainted, Loose
<1>5. QED BY <1>1, <1>2, <1>3, <1>4, QuietInv

\* What the invariant says of one request.
LEMMA AtInv ==
  ASSUME IInv, NEW r \in Req
  PROVE  /\ req[r] \in Request /\ Shape(req[r]) /\ Acquainted(req[r])
         /\ OnCandidate(req[r]) => Remembers(req[r], req[r].cand)
         /\ OnCandidate(req[r]) => HeldRows(req[r], req[r].cand)
BY DEF IInv, TypeInv, TypeOK, RequestInv, Fit

\* An upload arrives with an id nobody has heard of.
LEMMA ArriveInv == ASSUME IInv, TypeInv', NEW r \in Req, Arrive(r) PROVE IInv'
<1>1. PICK k \in Kinds \ {"ttl"}, c \in Candidate, o \in Org :
        /\ k = "upload" => /\ c \notin Uploaded
                           /\ \A s \in Req : req[s].kind = "upload" => req[s].cand # c
        /\ Become(r, [req[r] EXCEPT !.kind = k, !.cand = c, !.org = o, !.pc = "begin"])
  BY DEF Arrive
<1> DEFINE q == [req[r] EXCEPT !.kind = k, !.cand = c, !.org = o, !.pc = "begin"]
<1>2. /\ req[r] \in Request /\ Shape(req[r]) /\ Acquainted(req[r]) /\ req[r].pc = "idle"
      /\ req[r].kind = "none"
  BY AtInv DEF Arrive, Shape
<1>3. q \in Request
  BY <1>1 DEF TypeInv, TypeOK, Become, IInv
<1>4. /\ q.kind = k /\ q.cand = c /\ q.pc = "begin" /\ q.done = {}
      /\ q.queue = req[r].queue
  BY <1>2 DEF Request, Shape
<1>5. k = "upload" => ~Known(c)
  BY <1>1 DEF IInv, MintedInv
<1> HIDE DEF q
<1>6. Fit(q)
  BY <1>2, <1>4, <1>5 DEF Fit, HeldRows, Remembers, Acquainted, Loose
<1>7. ASSUME NEW s \in Req \ {r}, req[s].cand = q.cand
      PROVE  Excludes(q, req[s]) /\ Excludes(req[s], q)
  BY <1>1, <1>4, <1>7 DEF Excludes, Held
<1>8. QED BY <1>1, <1>2, <1>3, <1>6, <1>7, LocalInv DEF q, Arrive

\* The start of a sweep keeps IInv: it knows no candidate yet.
LEMMA StartTtlInv == ASSUME IInv, TypeInv', NEW r \in Req, StartTtl(r) PROVE IInv'
<1> DEFINE q == [req[r] EXCEPT !.kind = "ttl", !.pc = "begin"]
<1>1. Become(r, q) /\ UNCHANGED <<tables, audit>>
  BY DEF StartTtl
<1>2. /\ req[r] \in Request /\ Shape(req[r]) /\ Acquainted(req[r]) /\ req[r].pc = "idle"
      /\ req[r].kind = "none"
  BY AtInv DEF StartTtl, Shape
<1>3. q \in Request
  BY <1>1 DEF TypeInv, TypeOK, Become, IInv
<1>4. /\ q.kind = "ttl" /\ q.pc = "begin" /\ q.done = {} /\ q.queue = req[r].queue
  BY <1>2 DEF Request, Shape
<1> HIDE DEF q
<1>5. Fit(q)
  BY <1>2, <1>4 DEF Fit, HeldRows, Remembers, Acquainted, Loose
<1>6. ASSUME NEW s \in Req \ {r}, req[s].cand = q.cand
      PROVE  Excludes(q, req[s]) /\ Excludes(req[s], q)
  BY <1>4, <1>6 DEF Excludes, Held
<1>7. QED BY <1>1, <1>2, <1>3, <1>5, <1>6, LocalInv

\* A step that reads goes on with a record that remembers what was read.
LEMMA ReadInv ==
  ASSUME IInv, TypeInv', NEW r \in Req, NEW q \in Request, Become(r, q),
         UNCHANGED <<tables, audit>>,
         req[r].pc \notin {"idle", "done", "score_flush", "flush"}, req[r].kind \notin {"ttl", "upload"},
         q.kind = req[r].kind, q.cand = req[r].cand, q.queue = req[r].queue,
         q.done = req[r].done, Known(q.cand), Remembers(q, q.cand)
  PROVE  IInv'
<1>1. Shape(req[r]) /\ Acquainted(req[r])
  BY AtInv
<1>2. q.done = {}
  BY <1>1 DEF Shape
<1>3. Acquainted(q)
  BY <1>1 DEF Acquainted, Loose, Shape
<1>4. QED BY <1>2, <1>3, QuietInv

\* Looking a candidate up keeps IInv: one that was found has been minted.
LEMMA GetCandidateInv ==
  ASSUME IInv, TypeInv', NEW r \in Req,
         NEW k \in {"score", "decision", "export"},
         NEW p \in {"score_consent", "decide", "export"}, GetCandidate(r, k, p)
  PROVE  IInv'
<1> DEFINE q == [req[r] EXCEPT !.pc = p]
<1>1. At(r, {k}, "begin") /\ UNCHANGED <<tables, audit>>
  BY DEF GetCandidate
<1>2. CASE Answer(r, "404")
  BY <1>1, <1>2, AnswerInv
<1>3. CASE Found(r) /\ Become(r, q)
  <2>1. req[r] \in Request /\ req[r].kind = k /\ req[r].pc = "begin"
    BY <1>1, AtInv DEF At
  <2>2. q \in Request
    BY <2>1 DEF Request, Steps
  <2>3. /\ q.kind = k /\ q.cand = req[r].cand /\ q.queue = req[r].queue
        /\ q.done = req[r].done /\ q.pc = p
    BY <2>1 DEF Request
  <2>4. Known(req[r].cand)
    BY <1>3 DEF Found, Known
  <2> HIDE DEF q
  <2>5. Remembers(q, q.cand)
    BY <2>3 DEF Remembers, Deleting
  <2>6. QED BY <1>1, <1>3, <2>1, <2>2, <2>3, <2>4, <2>5, ReadInv
<1>4. QED BY <1>2, <1>3 DEF GetCandidate, Goto

\* generate_dossier's lookup keeps IInv, with the status it remembers.
LEMMA DossierGetCandidateInv ==
  ASSUME IInv, TypeInv', NEW r \in Req, DossierGetCandidate(r) PROVE IInv'
<1> DEFINE q == [req[r] EXCEPT !.pc = "consent", !.status = cand[req[r].cand]]
<1>1. At(r, {"dossier"}, "begin") /\ UNCHANGED <<tables, audit>>
  BY DEF DossierGetCandidate
<1>2. CASE Answer(r, "404")
  BY <1>1, <1>2, AnswerInv
<1>3. CASE Found(r) /\ Become(r, q)
  <2>1. /\ req[r] \in Request /\ req[r].kind = "dossier" /\ req[r].pc = "begin"
        /\ req[r].cand \in Candidate
    BY <1>1, AtInv DEF At, Shape, OnCandidate
  <2>2. q \in Request
    BY <1>3 DEF TypeInv, TypeOK, Become, IInv
  <2>3. /\ q.kind = "dossier" /\ q.cand = req[r].cand /\ q.queue = req[r].queue
        /\ q.done = req[r].done /\ q.pc = "consent" /\ q.status = cand[req[r].cand]
    BY <2>1 DEF Request
  <2>4. Known(req[r].cand)
    BY <1>3 DEF Found, Known
  <2> HIDE DEF q
  <2>5. Remembers(q, q.cand)
    BY <2>1, <2>3 DEF Remembers, Deleting, IInv, Integrity, StatusMatchesDossier
  <2>6. QED BY <1>1, <1>3, <2>1, <2>2, <2>3, <2>4, <2>5, ReadInv
<1>4. QED BY <1>2, <1>3 DEF DossierGetCandidate

\* The checks that move on with the candidate, status and locks of the record.
LEMMA MoveInv ==
  ASSUME IInv, TypeInv', NEW r \in Req, NEW q, Become(r, q),
         UNCHANGED <<tables, audit>>,
         req[r].pc \notin {"idle", "begin", "done", "score_flush", "flush"},
         req[r].kind \in {"dossier", "score", "export"},
         q.kind = req[r].kind, q.cand = req[r].cand, q.queue = req[r].queue,
         q.done = req[r].done, q.status = req[r].status,
         q.pc \in {"document", "score_consent", "score_document", "narrate",
                   "export_score", "export_decision", "flush"},
         q.pc = "flush" => q.kind = "export"
  PROVE  IInv'
<1>1. q \in Request
  BY DEF TypeInv, TypeOK, Become, IInv
<1>2. /\ Acquainted(req[r])
      /\ OnCandidate(req[r]) => Remembers(req[r], req[r].cand)
  BY AtInv
<1>3. Known(q.cand)
  BY <1>2 DEF Acquainted, Loose
<1>4. Remembers(q, q.cand)
  BY <1>2 DEF Remembers, OnCandidate, Deleting
<1>5. QED BY <1>1, <1>3, <1>4, ReadInv

\* Consent checks and reads that remember nothing new keep IInv.
LEMMA CheckInv ==
  ASSUME IInv, TypeInv', NEW r \in Req,
         \/ DossierCheckConsent(r) \/ DossierLoadDocument(r) \/ ScoreCheckConsent(r)
         \/ ScoreLoadDocument(r) \/ ExportReadDossier(r) \/ ExportReadScore(r)
         \/ ExportReadDecision(r)
  PROVE  IInv'
<1>1. UNCHANGED <<tables, audit>>
  BY DEF DossierCheckConsent, DossierLoadDocument, ScoreCheckConsent, ScoreLoadDocument,
     ExportReadDossier, ExportReadScore, ExportReadDecision
<1>2. CASE \E code : Answer(r, code)
  BY <1>1, <1>2, AnswerInv
<1>3. CASE ~ \E code : Answer(r, code)
  <2>1. req[r] \in Request
    BY AtInv
  <2>2. CASE DossierCheckConsent(r)
    BY <1>1, <1>3, <2>1, <2>2, MoveInv DEF DossierCheckConsent, At, Goto, Request
  <2>3. CASE DossierLoadDocument(r)
    <3>1. PICK q : q = [req[r] EXCEPT !.pc = "score_consent"]
      OBVIOUS
    <3>2. PICK n : n = Embedded(q, r)
      OBVIOUS
    <3>3. /\ req[r].kind = "dossier" /\ req[r].pc = "document" /\ Become(r, n)
          /\ req[r].cand \in Candidate
      BY <1>3, <2>3, <3>1, <3>2, AtInv DEF DossierLoadDocument, At, Shape, OnCandidate
    <3>4. /\ q \in Request /\ q.kind = "dossier" /\ q.pc = "score_consent"
          /\ q.cand = req[r].cand /\ q.done = req[r].done /\ q.queue = req[r].queue
          /\ q.status = req[r].status
      BY <2>1, <3>1, <3>3 DEF Request, Steps
    <3>5. /\ n.kind = "dossier" /\ n.pc = "score_consent" /\ n.cand = req[r].cand
          /\ n.done = req[r].done /\ n.queue = req[r].queue /\ n.status = req[r].status
      BY <3>2, <3>3, <3>4, EmbeddedType DEF IInv
    <3>6. QED BY <1>1, <3>3, <3>5, MoveInv
  <2>4. CASE ScoreCheckConsent(r)
    BY <1>1, <1>3, <2>1, <2>4, MoveInv DEF ScoreCheckConsent, At, Goto, Raise, Request, Scoring
  <2>5. CASE ScoreLoadDocument(r)
    <3>1. PICK q : q = [req[r] EXCEPT !.pc = "narrate"]
      OBVIOUS
    <3>2. PICK n : n = IF req[r].kind = "score" THEN Embedded(q, r) ELSE q
      OBVIOUS
    <3>3. /\ req[r].kind \in Scoring /\ req[r].pc = "score_document" /\ Become(r, n)
          /\ req[r].cand \in Candidate
      BY <1>3, <2>5, <3>1, <3>2, AtInv
      DEF ScoreLoadDocument, At, Raise, Shape, OnCandidate, Scoring
    <3>4. /\ q \in Request /\ q.kind = req[r].kind /\ q.pc = "narrate"
          /\ q.cand = req[r].cand /\ q.done = req[r].done /\ q.queue = req[r].queue
          /\ q.status = req[r].status
      BY <2>1, <3>1, <3>3 DEF Request, Steps
    <3>5. /\ n.kind = req[r].kind /\ n.pc = "narrate" /\ n.cand = req[r].cand
          /\ n.done = req[r].done /\ n.queue = req[r].queue /\ n.status = req[r].status
      BY <3>2, <3>3, <3>4, EmbeddedType DEF IInv
    <3>6. QED BY <1>1, <3>3, <3>5, MoveInv DEF Scoring
  <2>6. CASE ExportReadDossier(r)
    BY <1>1, <1>3, <2>1, <2>6, MoveInv DEF ExportReadDossier, At, Goto, Request
  <2>7. CASE ExportReadScore(r)
    BY <1>1, <1>3, <2>1, <2>7, MoveInv DEF ExportReadScore, At, Request
  <2>9. CASE ExportReadDecision(r)
    BY <1>1, <1>3, <2>1, <2>9, MoveInv DEF ExportReadDecision, At, Goto, Request
  <2>8. QED BY <2>2, <2>3, <2>4, <2>5, <2>6, <2>7, <2>9
<1>4. QED BY <1>2, <1>3

\* The score row that was found is changed in place; one that was not is inserted.
LEMMA ScoreNarrateInv ==
  ASSUME IInv, TypeInv', NEW r \in Req, ScoreNarrate(r) PROVE IInv'
<1>1. At(r, Scoring, "narrate") /\ UNCHANGED <<tables, audit>>
  BY DEF ScoreNarrate
<1>2. PICK v, S, T, w :
        /\ Become(r, Flushing([req[r] EXCEPT !.draft = v, !.sets = S], "score_flush", T, w))
        /\ score[req[r].cand] = NoRow => "insScore" \in T
  <2>1. PICK v \in Result, S \in SUBSET Column, W \in SUBSET {"insScore", "updScore"} :
          /\ "insScore" \in W <=> score[req[r].cand] = NoRow
          /\ \E w \in Upcoming(req[r].todo \cup W) :
               Become(r, Flushing([req[r] EXCEPT !.draft = v, !.sets = S],
                                  "score_flush", req[r].todo \cup W, w))
    BY NarratesDraft
  <2>2. "insScore" \in req[r].todo \cup W \/ score[req[r].cand] # NoRow
    BY <2>1
  <2>3. QED BY <2>1, <2>2
<1> DEFINE q == Flushing([req[r] EXCEPT !.draft = v, !.sets = S], "score_flush", T, w)
<1>3. /\ req[r] \in Request /\ req[r].kind \in Scoring /\ req[r].pc = "narrate"
      /\ Acquainted(req[r]) /\ Remembers(req[r], req[r].cand)
  BY <1>1, AtInv DEF At, OnCandidate, Scoring
<1>4. q \in Request
  BY <1>2 DEF TypeInv, TypeOK, Become, IInv
<1>5. /\ q.kind = req[r].kind /\ q.cand = req[r].cand /\ q.queue = req[r].queue
      /\ q.done = req[r].done /\ q.pc = "score_flush" /\ q.todo = T
      /\ q.status = req[r].status
  BY <1>3 DEF Request, Flushing
<1>6. Known(req[r].cand)
  BY <1>3 DEF Acquainted, Loose, Scoring
<1>7. Become(r, q)
  BY <1>2
<1> HIDE DEF q
<1>8. Remembers(q, q.cand)
  BY <1>2, <1>3, <1>5 DEF Remembers, Deleting, Planned, Scoring
<1>9. QED BY <1>1, <1>3, <1>4, <1>5, <1>6, <1>7, <1>8, ReadInv DEF Scoring

\* The refresh of a score keeps IInv: a dossier goes on only from a score it saw.
LEMMA ScoreRefreshInv ==
  ASSUME IInv, TypeInv', NEW r \in Req, ScoreRefresh(r) PROVE IInv'
<1> DEFINE q == [req[r] EXCEPT !.pc = "compose", !.draft = score[req[r].cand]]
<1>1. At(r, Scoring, "score_refresh") /\ UNCHANGED <<tables, audit>>
  BY DEF ScoreRefresh
<1>2. CASE \E code : Answer(r, code)
  BY <1>1, <1>2, AnswerInv
<1>3. CASE score[req[r].cand] # NoRow /\ Become(r, q)
  <2>1. /\ req[r] \in Request /\ req[r].kind \in Scoring /\ req[r].pc = "score_refresh"
        /\ Acquainted(req[r]) /\ Remembers(req[r], req[r].cand)
    BY <1>1, AtInv DEF At, OnCandidate, Scoring
  <2>2. q \in Request
    BY <1>3 DEF TypeInv, TypeOK, Become, IInv
  <2>3. /\ q.kind = req[r].kind /\ q.cand = req[r].cand /\ q.queue = req[r].queue
        /\ q.done = req[r].done /\ q.pc = "compose" /\ q.status = req[r].status
    BY <2>1 DEF Request
  <2>4. Known(req[r].cand)
    BY <2>1 DEF Acquainted, Loose, Scoring
  <2> HIDE DEF q
  <2>5. Remembers(q, q.cand)
    BY <1>3, <2>1, <2>3 DEF Remembers, Deleting, Scoring
  <2>6. QED BY <1>1, <1>3, <2>1, <2>2, <2>3, <2>4, <2>5, ReadInv DEF Scoring
<1>4. QED BY <1>2, <1>3 DEF ScoreRefresh

\* The score that the dossier reports is there as long as the candidate is.
LEMMA DossierComposeInv ==
  ASSUME IInv, TypeInv', NEW r \in Req, DossierCompose(r) PROVE IInv'
<1>1. At(r, {"dossier"}, "compose") /\ UNCHANGED <<tables, audit>>
  BY DEF DossierCompose
<1>2. PICK S, T, w :
        /\ Become(r, Flushing([req[r] EXCEPT !.sets = S], "flush", T, w))
        /\ dossier[req[r].cand] = NoRow => "insDossier" \in T
  <2>1. PICK S \in SUBSET Column, W \in SUBSET {"insDossier", "updDossier"} :
          /\ "insDossier" \in W <=> dossier[req[r].cand] = NoRow
          /\ LET T == W \cup (IF req[r].status = "analyzed" THEN {} ELSE {"updCand"})
             IN \E w \in Upcoming(T) :
                  Become(r, Flushing([req[r] EXCEPT !.sets = S], "flush", T, w))
    BY ComposesDossier
  <2> DEFINE T == W \cup (IF req[r].status = "analyzed" THEN {} ELSE {"updCand"})
  <2>2. PICK w : Become(r, Flushing([req[r] EXCEPT !.sets = S], "flush", T, w))
    BY <2>1
  <2>3. dossier[req[r].cand] = NoRow => "insDossier" \in T
    BY <2>1
  <2>4. QED BY <2>2, <2>3
<1> DEFINE q == Flushing([req[r] EXCEPT !.sets = S], "flush", T, w)
<1>3. /\ req[r] \in Request /\ req[r].kind = "dossier" /\ req[r].pc = "compose"
      /\ Acquainted(req[r]) /\ Remembers(req[r], req[r].cand)
  BY <1>1, AtInv DEF At, OnCandidate
<1>4. q \in Request
  BY <1>2 DEF TypeInv, TypeOK, Become, IInv
<1>5. /\ q.kind = "dossier" /\ q.cand = req[r].cand /\ q.queue = req[r].queue
      /\ q.done = req[r].done /\ q.pc = "flush" /\ q.todo = T
      /\ q.status = req[r].status
  BY <1>3 DEF Request, Flushing
<1>6. Known(req[r].cand)
  BY <1>3 DEF Acquainted, Loose
<1>7. Become(r, q)
  BY <1>2
<1> HIDE DEF q
<1>8. Remembers(q, q.cand)
  BY <1>2, <1>3, <1>5 DEF Remembers, Deleting, Planned
<1>9. QED BY <1>1, <1>3, <1>4, <1>5, <1>6, <1>7, <1>8, ReadInv

\* Reading the dossier a decision is about keeps IInv.
LEMMA DecisionReadDossierInv ==
  ASSUME IInv, TypeInv', NEW r \in Req, DecisionReadDossier(r) PROVE IInv'
<1>1. At(r, {"decision"}, "decide") /\ UNCHANGED <<tables, audit>>
  BY DEF DecisionReadDossier
<1> DEFINE d == [req[r] EXCEPT !.draft = dossier[req[r].cand].recommendation]
           q == Flushing(d, "flush", {"insDecision"}, "insDecision")
<1>2. CASE Answer(r, "409")
  BY <1>1, <1>2, AnswerInv
<1>3. CASE dossier[req[r].cand] # NoRow /\ Become(r, q)
  <2>1. /\ req[r] \in Request /\ req[r].kind = "decision" /\ req[r].pc = "decide"
        /\ Acquainted(req[r])
    BY <1>1, AtInv DEF At
  <2>2. q \in Request
    BY <1>3 DEF TypeInv, TypeOK, Become, IInv
  <2>3. /\ q.kind = "decision" /\ q.cand = req[r].cand /\ q.queue = req[r].queue
        /\ q.done = req[r].done /\ q.pc = "flush"
    BY <2>1 DEF Request, Flushing
  <2>4. Known(req[r].cand)
    BY <2>1 DEF Acquainted, Loose
  <2> HIDE DEF q
  <2>5. Remembers(q, q.cand)
    BY <1>3, <2>3 DEF Remembers, Deleting
  <2>6. QED BY <1>1, <1>3, <2>1, <2>2, <2>3, <2>4, <2>5, ReadInv
<1>4. QED BY <1>2, <1>3 DEF DecisionReadDossier

\* An upload that was parsed keeps IInv: the id it names is its own.
LEMMA ParseCvInv == ASSUME IInv, TypeInv', NEW r \in Req, ParseCv(r) PROVE IInv'
<1>1. At(r, {"upload"}, "begin") /\ UNCHANGED <<tables, audit>>
  BY DEF ParseCv
<1> DEFINE q == Flushing(req[r], "flush", {"insCand"}, "insCand")
<1>2. CASE \E code : Answer(r, code)
  BY <1>1, <1>2, AnswerInv
<1>3. CASE Become(r, q)
  <2>1. /\ req[r] \in Request /\ req[r].kind = "upload" /\ req[r].pc = "begin"
        /\ Acquainted(req[r]) /\ Shape(req[r])
    BY <1>1, AtInv DEF At
  <2>2. q \in Request
    BY <1>3 DEF TypeInv, TypeOK, Become, IInv
  <2>3. /\ q.kind = "upload" /\ q.cand = req[r].cand /\ q.queue = req[r].queue
        /\ q.done = {} /\ q.pc = "flush"
    BY <2>1 DEF Request, Flushing, Shape
  <2> HIDE DEF q
  <2>4. Acquainted(q)
    BY <2>1, <2>3 DEF Acquainted
  <2>5. Remembers(q, q.cand)
    BY <2>3 DEF Remembers, Deleting
  <2>6. QED BY <1>1, <1>3, <2>1, <2>2, <2>3, <2>4, <2>5, QuietInv
<1>4. QED BY <1>2, <1>3 DEF ParseCv

\* Every way a request ends without a commit.
LEMMA EndInv ==
  ASSUME IInv, TypeInv', NEW r \in Req,
         \/ CreateCandidateRefresh(r) \/ DossierRefresh(r) \/ DecisionRefresh(r)
         \/ Fail(r) \/ BreakDeadlock(r)
  PROVE  IInv'
<1>1. UNCHANGED <<tables, audit>>
  BY DEF CreateCandidateRefresh, DossierRefresh, DecisionRefresh, Fail, BreakDeadlock
<1>2. PICK code : Answer(r, code)
  BY DEF CreateCandidateRefresh, DossierRefresh, DecisionRefresh, Fail, BreakDeadlock
<1>3. QED BY <1>1, <1>2, AnswerInv

\* A purge that is about to begin has its whole list before it.
LEMMA PurgingFit ==
  ASSUME NEW q \in Request, q.kind \in Deleting, q.done = {}, NEW c \in Candidate
  PROVE  \A p : p = Purging(q, c) =>
            /\ p.kind = q.kind /\ p.cand = c /\ p.done = {} /\ p.pc = "flush"
            /\ p.queue = q.queue \ {c} /\ {"delCand", "cascade"} \subseteq Planned(p)
BY PurgingType DEF Planned, Purge

\* delete_candidate's lookup keeps IInv.
LEMMA DeleteGetCandidateInv ==
  ASSUME IInv, TypeInv', NEW r \in Req, DeleteGetCandidate(r) PROVE IInv'
<1>1. At(r, {"delete"}, "begin") /\ UNCHANGED <<tables, audit>>
  BY DEF DeleteGetCandidate
<1>2. CASE Answer(r, "404")
  BY <1>1, <1>2, AnswerInv
<1> DEFINE q == Purging(req[r], req[r].cand)
<1>3. CASE Found(r) /\ Become(r, q)
  <2>1. /\ req[r] \in Request /\ req[r].kind = "delete" /\ req[r].pc = "begin"
        /\ Acquainted(req[r]) /\ Shape(req[r])
    BY <1>1, AtInv DEF At
  <2>2. req[r].cand \in Candidate /\ req[r].done = {}
    BY <2>1 DEF Shape, OnCandidate
  <2>3. q \in Request
    BY <1>3 DEF TypeInv, TypeOK, Become, IInv
  <2>4. /\ q.kind = "delete" /\ q.cand = req[r].cand /\ q.done = {} /\ q.pc = "flush"
        /\ q.queue = req[r].queue \ {req[r].cand}
        /\ {"delCand", "cascade"} \subseteq Planned(q)
    BY <2>1, <2>2, PurgingFit DEF Deleting
  <2> HIDE DEF q
  <2>5. Acquainted(q)
    BY <1>3, <2>1, <2>4 DEF Acquainted, Found, Known
  <2>6. Remembers(q, q.cand)
    BY <2>4 DEF Remembers
  <2>7. QED BY <1>1, <1>3, <2>1, <2>3, <2>4, <2>5, <2>6, QuietInv
<1>4. QED BY <1>2, <1>3 DEF DeleteGetCandidate

\* The list of a sweep keeps IInv: it names candidates that were there.
LEMMA FindExpiredInv ==
  ASSUME IInv, TypeInv', NEW r \in Req, FindExpired(r) PROVE IInv'
<1>1. At(r, {"ttl"}, "begin") /\ UNCHANGED <<tables, audit>>
  BY DEF FindExpired
<1>2. CASE Answer(r, "ok")
  BY <1>1, <1>2, AnswerInv
<1>3. ASSUME NEW expired \in SUBSET {c \in Candidate : Exists(c)}, NEW c \in expired,
             Become(r, Purging([req[r] EXCEPT !.queue = expired, !.batch = expired], c))
      PROVE  IInv'
  <2> DEFINE b == [req[r] EXCEPT !.queue = expired, !.batch = expired]
             q == Purging(b, c)
  <2>1. /\ req[r] \in Request /\ req[r].kind = "ttl" /\ req[r].pc = "begin"
        /\ Shape(req[r])
    BY <1>1, AtInv DEF At
  <2>2. b \in Request /\ b.kind = "ttl" /\ b.done = {} /\ b.queue = expired
    BY <2>1 DEF Request, Shape
  <2> HIDE DEF b
  <2>3. q \in Request
    BY <1>3 DEF b, TypeInv, TypeOK, Become, IInv
  <2>4. /\ q.kind = "ttl" /\ q.cand = c /\ q.done = {} /\ q.pc = "flush"
        /\ q.queue = expired \ {c}
        /\ {"delCand", "cascade"} \subseteq Planned(q)
    BY <2>2, PurgingFit DEF Deleting
  <2>5. Become(r, q)
    BY <1>3 DEF b
  <2> HIDE DEF q
  <2>6. Acquainted(q)
    BY <2>4 DEF Acquainted, Known
  <2>7. Remembers(q, q.cand)
    BY <2>4 DEF Remembers
  <2>8. QED BY <1>1, <2>1, <2>3, <2>4, <2>5, <2>6, <2>7, QuietInv
<1>4. QED BY <1>2, <1>3 DEF FindExpired

-----------------------------------------------------------------------------
(* One statement of a flush.                                                *)

\* A statement that ran holds its locks against everyone else's.
LEMMA ExecuteExcludes ==
  ASSUME IInv, NEW r \in Req, req[r].next \in req[r].todo, NEW s \in Req \ {r},
         req[s].cand = req[r].cand, ~Waits(r, s),
         NEW q \in Request, q.kind = req[r].kind,
         q.done \subseteq req[r].done \cup {req[r].next}
  PROVE  Excludes(q, req[s]) /\ Excludes(req[s], q)
<1> DEFINE w == req[r].next
<1>1. /\ req[r] \in Request /\ req[s] \in Request
      /\ Excludes(req[r], req[s]) /\ Excludes(req[s], req[r])
  BY AtInv DEF IInv, LockInv
<1>2. \A v \in req[s].done : {v, w} \subseteq RowStatement => ~Conflict(v, w)
  BY DEF Waits
<1>3. /\ req[s].done \subseteq RowStatement \cup {"vacancy"}
      /\ w \in RowStatement \cup {"vacancy"}
  BY <1>1 DEF Request, Statement
<1>4. w = "cascade" => Held(req[s]) = {}
  BY <1>2, <1>3 DEF Conflict, Held, RowStatement, Purge
<1>5. "cascade" \in req[s].done => w \in {"vacancy", "insCand"}
  BY <1>2, <1>3 DEF Conflict, RowStatement, Purge
<1>6. w \in {"insScore", "insDossier"} => w \notin req[s].done
  BY <1>2, <1>3 DEF Conflict, RowStatement, KeyShare
<1> HIDE DEF w
<1>7. Excludes(q, req[s])
  BY <1>1, <1>4, <1>6 DEF Excludes, w
<1>8. Excludes(req[s], q)
  BY <1>1, <1>5, <1>6 DEF Excludes, Held, w
<1>9. QED BY <1>7, <1>8

\* The locks of a record grow by a statement that found what it needs.
LEMMA HeldGrows ==
  ASSUME NEW p \in Request, NEW q \in Request, NEW c \in Candidate, NEW n,
         HeldRows(p, c), q.done \subseteq p.done \cup {n},
         n \in q.done /\ n \in Purge => n \in p.done \/ Exists(c),
         n \notin Purge => /\ n \in KeyShare => Exists(c)
                           /\ n = "insScore" => score[c] = NoRow
                           /\ n = "insDossier" => dossier[c] = NoRow
                           /\ n = "updScore" => score[c] # NoRow
                           /\ n = "updDossier" => dossier[c] # NoRow
                           /\ n = "updCand" => Exists(c)
  PROVE  HeldRows(q, c)
<1>1. \A x \in q.done : x \in p.done \/ x = n
  OBVIOUS
<1>2. {"insScore", "updScore", "insDossier", "updDossier", "updCand", "insDecision"} \cap Purge = {}
  BY DEF Purge
<1>3. "insScore" \in q.done => Exists(c) /\ score[c] = NoRow
  BY <1>1, <1>2 DEF HeldRows, KeyShare
<1>4. "updScore" \in q.done => score[c] # NoRow
  BY <1>1, <1>2 DEF HeldRows
<1>5. "insDossier" \in q.done => Exists(c) /\ dossier[c] = NoRow
  BY <1>1, <1>2 DEF HeldRows, KeyShare
<1>6. "updDossier" \in q.done => dossier[c] # NoRow
  BY <1>1, <1>2 DEF HeldRows
<1>7. ASSUME NEW x \in q.done, x \in {"updCand", "insDecision"} \cup Purge
      PROVE  Exists(c)
  <2>1. CASE x \in p.done
    BY <1>7, <2>1 DEF HeldRows
  <2>2. CASE x = n /\ x \notin p.done
    BY <1>2, <1>7, <2>2 DEF KeyShare
  <2>3. QED BY <1>1, <2>1, <2>2
<1>8. QED BY <1>3, <1>4, <1>5, <1>6, <1>7 DEF HeldRows

\* What a statement needed when it ran is what HeldRows keeps.
LEMMA ExecuteInv == ASSUME IInv, TypeInv', NEW r \in Req, Execute(r) PROVE IInv'
<1> DEFINE p == req[r]
           n == p.next
           rest == p.todo \ {n}
           hit == IF n \in Purge /\ ~Addressed(n, p.cand) THEN {} ELSE {n}
<1>1. /\ p \in Request /\ Shape(p) /\ Acquainted(p)
      /\ OnCandidate(p) => Remembers(p, p.cand)
      /\ OnCandidate(p) => HeldRows(p, p.cand)
  BY AtInv
<1>2. /\ p.pc \in {"score_flush", "flush"} /\ n \in p.todo
      /\ UNCHANGED <<tables, audit>> /\ \A s \in Req : ~Waits(r, s)
  BY DEF Execute
<1>3. /\ OnCandidate(p) /\ p.cand \in Candidate
      /\ Remembers(p, p.cand) /\ HeldRows(p, p.cand)
  BY <1>1, <1>2 DEF OnCandidate, Shape
<1>4. CASE Refused(n, p.cand)
  BY <1>2, <1>4, AnswerInv DEF Execute
<1>5. CASE ~Refused(n, p.cand)
  <2>1. PICK w : Become(r, [p EXCEPT !.todo = rest, !.next = w, !.done = p.done \cup hit])
    BY <1>5 DEF Execute
  <2> DEFINE q == [p EXCEPT !.todo = rest, !.next = w, !.done = p.done \cup hit]
  <2>2. q \in Request
    BY <2>1 DEF TypeInv, TypeOK, Become, IInv
  <2>3. /\ q.kind = p.kind /\ q.cand = p.cand /\ q.pc = p.pc /\ q.queue = p.queue
        /\ q.status = p.status /\ q.todo = rest /\ q.done = p.done \cup hit
    BY <1>1 DEF Request
  <2>4. Become(r, q)
    BY <2>1
  <2> HIDE DEF q
  <2>5. HeldRows(q, q.cand)
    <3>1. NothingOutlivesCandidate
      BY DEF IInv, Integrity
    <3>2. n \in Purge /\ hit = {n} => Exists(p.cand)
      BY <3>1, <1>3 DEF Addressed, Purge, NothingOutlivesCandidate, DecisionsOn
    <3>3. n \notin Purge => /\ n \in KeyShare => Exists(p.cand)
                            /\ n = "insScore" => score[p.cand] = NoRow
                            /\ n = "insDossier" => dossier[p.cand] = NoRow
                            /\ n = "updScore" => score[p.cand] # NoRow
                            /\ n = "updDossier" => dossier[p.cand] # NoRow
                            /\ n = "updCand" => Exists(p.cand)
      BY <1>5 DEF Refused, Addressed, KeyShare, Updates
    <3>4. n \in q.done /\ n \in Purge => n \in p.done \/ Exists(p.cand)
      BY <2>3, <3>2
    <3>5. q.done \subseteq p.done \cup {n}
      BY <2>3
    <3>6. HeldRows(q, p.cand)
      BY <1>1, <1>3, <2>2, <3>3, <3>4, <3>5, HeldGrows
    <3>7. QED BY <2>3, <3>6
  <2>6. Remembers(q, q.cand)
    <3>1. n \notin Purge => Planned(q) = Planned(p)
      BY <1>2, <2>3 DEF Planned
    <3>2. n \in Purge /\ n \notin Planned(q) => ~Addressed(n, p.cand)
      BY <2>3 DEF Planned
    <3>3. \A x : x # n => (x \in Planned(q) <=> x \in Planned(p))
      BY <2>3 DEF Planned
    <3>4. n \in {"delCand", "cascade"} /\ ~Addressed(n, p.cand) => ~Exists(p.cand)
      BY DEF Addressed
    <3>5. n \in {"insScore", "insDossier"} => n \in Planned(q)
      BY <2>3 DEF Planned, Purge
    <3> HIDE DEF n, p
    <3>6. QED BY <1>3, <2>3, <3>2, <3>3, <3>4, <3>5 DEF Remembers, Purge
  <2>7. Fit(q)
    BY <1>1, <2>3, <2>5, <2>6 DEF Fit, Acquainted
  <2>8. ASSUME NEW s \in Req \ {r}, req[s].cand = q.cand
        PROVE  Excludes(q, req[s]) /\ Excludes(req[s], q)
    BY <1>2, <2>2, <2>3, <2>8, ExecuteExcludes
  <2>9. QED BY <1>2, <2>2, <2>3, <2>4, <2>7, <2>8, LocalInv
<1>6. QED BY <1>4, <1>5

-----------------------------------------------------------------------------
(* The commits.  A commit changes the rows of one candidate and the record  *)
(* of one request.                                                          *)

\* Integrity, one candidate at a time.
Sound(c) ==
  /\ ~Exists(c) => /\ c \notin docs \cup consents
                   /\ score[c] = NoRow /\ dossier[c] = NoRow
                   /\ DecisionsOn(c) = {}
  /\ dossier[c] # NoRow => score[c] # NoRow
  /\ cand[c] = "analyzed" <=> dossier[c] # NoRow
  /\ DecisionsOn(c) # {} => dossier[c] # NoRow
  /\ Deleted(c) => ~Exists(c)

\* Integrity is a property of each candidate's rows on their own.
LEMMA SoundParts == ASSUME TypeOK PROVE Integrity <=> \A c \in Candidate : Sound(c)
<1>1. DecisionHasDossier <=> \A c \in Candidate : DecisionsOn(c) # {} => dossier[c] # NoRow
  BY DEF TypeOK, Decision, DecisionHasDossier, DecisionsOn
<1>2. QED BY <1>1 DEF Integrity, Sound, NothingOutlivesCandidate, DossierHasScore,
             StatusMatchesDossier, DeletedStaysGone

\* The same for the state after a step.
LEMMA SoundParts2 == ASSUME TypeOK' PROVE Integrity' <=> \A c \in Candidate : Sound(c)'
<1>1. DecisionHasDossier' <=> \A c \in Candidate : (DecisionsOn(c) # {} => dossier[c] # NoRow)'
  BY DEF TypeOK, Decision, DecisionHasDossier, DecisionsOn
<1>2. QED BY <1>1 DEF Integrity, Sound, NothingOutlivesCandidate, DossierHasScore,
             StatusMatchesDossier, DeletedStaysGone, DecisionsOn, Exists, Deleted, Recorded

\* Nothing the invariant reads of a candidate has changed.
Untouched(d) ==
  /\ cand'[d] = cand[d] /\ score'[d] = score[d] /\ dossier'[d] = dossier[d]
  /\ d \in docs' <=> d \in docs
  /\ d \in consents' <=> d \in consents
  /\ DecisionsOn(d)' = DecisionsOn(d)
  /\ Deleted(d)' <=> Deleted(d)

\* A commit leaves the rows of every other candidate alone.
LEMMA CommitFrame ==
  ASSUME TypeInv, NEW r \in Req, NEW event, NEW result, NEW rows, NEW q,
         Commit(r, event, result, rows, q), NEW d \in Candidate, d # req[r].cand
  PROVE  Untouched(d)
<1>1. CommitTables(r)
  BY DEF Commit
<1>2. cand'[d] = cand[d] /\ score'[d] = score[d] /\ dossier'[d] = dossier[d]
  BY <1>1 DEF CommitTables, TypeInv, TypeOK
<1>3. (d \in docs' <=> d \in docs) /\ (d \in consents' <=> d \in consents)
  BY <1>1 DEF CommitTables
<1>4. DecisionsOn(d)' = DecisionsOn(d)
  BY <1>1 DEF CommitTables, DecisionsOn
<1>5. Deleted(d)' <=> Deleted(d)
  BY DEF Commit, AuditEntry, Deleted, Recorded
<1>6. QED BY <1>2, <1>3, <1>4, <1>5 DEF Untouched

\* Nothing that is said of a candidate changes when its rows are not touched.
LEMMA UntouchedKeeps ==
  ASSUME NEW d \in Candidate, Untouched(d)
  PROVE  /\ Known(d)' <=> Known(d)
         /\ Sound(d) => Sound(d)'
         /\ \A p : HeldRows(p, d) => HeldRows(p, d)'
         /\ \A p : Remembers(p, d) => Remembers(p, d)'
<1>1. Exists(d)' <=> Exists(d)
  BY DEF Untouched, Exists
<1>2. Known(d)' <=> Known(d)
  BY <1>1 DEF Untouched, Known
<1>3. Sound(d) => Sound(d)'
  BY <1>1 DEF Untouched, Sound
<1>4. \A p : HeldRows(p, d) => HeldRows(p, d)'
  BY <1>1 DEF Untouched, HeldRows
<1>5. \A p : Remembers(p, d) => Remembers(p, d)'
  BY <1>1 DEF Untouched, Remembers
<1>6. QED BY <1>2, <1>3, <1>4, <1>5

\* A commit keeps the invariant if it keeps what the other requests on the same
\* candidate have locked and remember.
LEMMA CommitInv ==
  ASSUME IInv, TypeInv', NEW r \in Req, NEW c \in Candidate, NEW q \in Request,
         req[r].cand = c, Become(r, q), q.done = {}, q.kind = req[r].kind,
         q.kind = "upload" => q.cand = c /\ q.pc \notin {"begin", "flush"},
         q.kind # "upload" => Known(c),
         \A d \in Candidate : d # c => Untouched(d),
         Known(c) => Known(c)',
         Known(c)' => Known(c) \/ req[r].kind = "upload",
         Sound(c)',
         \A s \in Req : s # r /\ req[s].cand = c /\ OnCandidate(req[s])
            => \A p : p = req[s] => HeldRows(p, c)' /\ Remembers(p, c)',
         OnCandidate(q) => Remembers(q, q.cand)',
         q.queue \subseteq req[r].queue,
         q.kind # "upload" /\ q.pc \notin Loose => Known(q.cand)
  PROVE  IInv'
<1>1. /\ req'[r] = q
      /\ \A s \in Req \ {r} : req'[s] = req[s]
  BY DEF Become, IInv, TypeInv, TypeOK
<1>2. Integrity'
  <2>1. \A d \in Candidate : Sound(d)
    BY SoundParts DEF IInv, TypeInv
  <2>2. \A d \in Candidate : Sound(d)'
    BY <2>1, UntouchedKeeps
  <2>3. QED BY <2>2, SoundParts2 DEF TypeInv
<1>3. \A d \in Candidate : Known(d) => Known(d)'
  BY UntouchedKeeps
<1>4. \A d \in Candidate : d # c => (Known(d)' <=> Known(d))
  BY UntouchedKeeps
<1>5. Fit(q)'
  <2>1. HeldRows(q, q.cand)'
    BY DEF HeldRows
  <2>2. q.pc \notin Loose => q.cand \in Candidate
    BY <1>1 DEF TypeInv, Shape, OnCandidate, Loose
  <2>3. q.queue \subseteq Candidate /\ \A d \in q.queue : Known(d)
    BY AtInv DEF Request, Acquainted
  <2>4. Acquainted(q)'
    BY <1>3, <2>2, <2>3 DEF Acquainted
  <2>5. QED BY <2>1, <2>4 DEF Fit
<1>6. ASSUME NEW s \in Req, s # r, NEW p \in Request, p = req[s] PROVE Fit(p)'
  <2>1. Shape(p) /\ Fit(p) /\ p.queue \subseteq Candidate
    BY <1>6, AtInv DEF IInv, RequestInv, Request
  <2>2. ASSUME OnCandidate(p) PROVE HeldRows(p, p.cand)' /\ Remembers(p, p.cand)'
    <3>1. p.cand \in Candidate
      BY <2>1, <2>2 DEF Shape
    <3>2. CASE p.cand = c
      BY <1>6, <2>2, <3>2
    <3>3. CASE p.cand # c
      BY <2>1, <2>2, <3>1, <3>3, UntouchedKeeps DEF Fit
    <3>4. QED BY <3>2, <3>3
  <2>3. ASSUME p.kind = "upload", p.pc \in {"begin", "flush"} PROVE ~Known(p.cand)'
    <3>1. p.cand \in Candidate /\ ~Known(p.cand)
      BY <2>1, <2>3 DEF Shape, Fit, Acquainted
    <3>2. p.cand # c
      BY <1>6, <2>3, <3>1 DEF IInv, LockInv, Excludes
    <3>3. QED BY <1>4, <3>1, <3>2
  <2>4. ASSUME p.kind # "upload", p.pc \notin Loose PROVE Known(p.cand)'
    BY <1>3, <2>1, <2>4 DEF Shape, OnCandidate, Loose, Fit, Acquainted
  <2>5. \A d \in p.queue : Known(d)'
    BY <1>3, <2>1 DEF Fit, Acquainted
  <2>6. Acquainted(p)'
    BY <2>3, <2>4, <2>5 DEF Acquainted
  <2>7. QED BY <2>2, <2>6 DEF Fit
<1>7. RequestInv'
  <2> SUFFICES ASSUME NEW s \in Req PROVE Fit(req[s])'
    BY DEF RequestInv
  <2>1. PICK p \in Request : p = req'[s]
    BY DEF TypeInv, TypeOK
  <2>2. Fit(p)'
    BY <1>1, <1>5, <1>6, <2>1
  <2>3. QED BY <2>1, <2>2 DEF Fit, HeldRows, Remembers, Acquainted
<1>8. LockInv'
  <2> SUFFICES ASSUME NEW a \in Req, NEW b \in Req, a # b,
                      req'[a].cand = req'[b].cand
               PROVE  Excludes(req[a], req[b])'
    BY DEF LockInv
  <2>1. Excludes(req'[a], req'[b])
    <3>1. CASE a = r \/ b = r
      BY <1>1, <3>1 DEF IInv, LockInv, Excludes, Held
    <3>2. CASE a # r /\ b # r
      BY <1>1, <3>2 DEF IInv, LockInv
    <3>3. QED BY <3>1, <3>2
  <2>2. QED BY <2>1 DEF Excludes, Held
<1>9. MintedInv'
  <2> SUFFICES ASSUME NEW d \in Candidate, Known(d)'
               PROVE  d \in Uploaded \/ \E s \in Req : req'[s].kind = "upload" /\ req'[s].cand = d
    BY DEF MintedInv
  <2>1. CASE Known(d)
    BY <1>1, <2>1 DEF IInv, MintedInv
  <2>2. CASE ~Known(d)
    BY <1>1, <1>4, <2>2
  <2>3. QED BY <2>1, <2>2
<1>10. QED BY <1>2, <1>7, <1>8, <1>9 DEF IInv

\* A row that an UPDATE finds is still a row when some of its columns are changed.
LEMMA PatchedRow ==
  ASSUME NEW q \in Request, q.draft \in Result
  PROVE  /\ \A row \in Result : PatchScore(row, q) \in Result
         /\ \A row \in Report : PatchDossier(row, q) \in Report
         /\ q.draft # NoRow /\ Reporting(q.draft) # NoRow
<1>1. NoRow \notin Result \cup Report
  OBVIOUS
<1>2. ASSUME NEW row \in Result PROVE PatchScore(row, q) \in Result
  BY <1>1 DEF PatchScore, Result
<1>3. ASSUME NEW row \in Report PROVE PatchDossier(row, q) \in Report
  <2>1. q.draft.recommendation \in Grade
    BY DEF Result
  <2>2. QED BY <2>1, <1>1 DEF PatchDossier, Report
<1>4. QED BY <1>1, <1>2, <1>3, ResultType

\* What the commit of a request p does to the rows of its candidate.
Effect(c, D, p, event) ==
  /\ cand'[c] = IF "insCand" \in D THEN "received"
                ELSE IF "delCand" \in D THEN "none"
                ELSE IF "updCand" \in D THEN "analyzed" ELSE cand[c]
  /\ "insCand" \notin D /\ "delDocs" \notin D /\ "delCand" \notin D => docs' = docs
  /\ "insCand" \notin D /\ "delConsents" \notin D /\ "delCand" \notin D => consents' = consents
  /\ score'[c] = IF "insScore" \in D THEN p.draft
                 ELSE IF "updScore" \in D THEN PatchScore(score[c], p)
                 ELSE IF "delScore" \in D \/ "delCand" \in D THEN NoRow
                 ELSE score[c]
  /\ dossier'[c] = IF "insDossier" \in D THEN Reporting(p.draft)
                   ELSE IF "updDossier" \in D THEN PatchDossier(dossier[c], p)
                   ELSE IF "delDossier" \in D \/ "delCand" \in D THEN NoRow
                   ELSE dossier[c]
  /\ "insDecision" \notin D /\ "delDecisions" \notin D /\ "delCand" \notin D
       => DecisionsOn(c)' = DecisionsOn(c)
  /\ "delCand" \in D /\ "insCand" \notin D /\ "insDecision" \notin D
       => c \notin docs' /\ c \notin consents' /\ DecisionsOn(c)' = {}
  /\ Deleted(c)' <=> Deleted(c) \/ event = "candidate_deleted"

\* What a commit does to the rows of the candidate it is about.
LEMMA CommitEffect ==
  ASSUME TypeInv, NEW r \in Req, NEW event, NEW result, NEW rows, NEW q,
         NEW c \in Candidate, NEW D, NEW p,
         p = req[r], c = p.cand, D = p.done,
         Commit(r, event, result, rows, q)
  PROVE  Effect(c, D, p, event)
<1>1. CommitTables(r) /\ Become(r, q)
  BY DEF Commit
<1>2. cand'[c] = IF "insCand" \in D THEN "received"
                 ELSE IF "delCand" \in D THEN "none"
                 ELSE IF "updCand" \in D THEN "analyzed" ELSE cand[c]
  BY <1>1 DEF CommitTables, TypeInv, TypeOK
<1>3. /\ "insCand" \notin D /\ "delDocs" \notin D /\ "delCand" \notin D => docs' = docs
      /\ "insCand" \notin D /\ "delConsents" \notin D /\ "delCand" \notin D
           => consents' = consents
  BY <1>1 DEF CommitTables
<1>4. /\ score'[c] = IF "insScore" \in D THEN p.draft
                     ELSE IF "updScore" \in D THEN PatchScore(score[c], p)
                     ELSE IF "delScore" \in D \/ "delCand" \in D THEN NoRow
                     ELSE score[c]
      /\ dossier'[c] = IF "insDossier" \in D THEN Reporting(p.draft)
                       ELSE IF "updDossier" \in D THEN PatchDossier(dossier[c], p)
                       ELSE IF "delDossier" \in D \/ "delCand" \in D THEN NoRow
                       ELSE dossier[c]
  BY <1>1 DEF CommitTables, TypeInv, TypeOK
<1>5. "insDecision" \notin D /\ "delDecisions" \notin D /\ "delCand" \notin D
        => DecisionsOn(c)' = DecisionsOn(c)
  BY <1>1 DEF CommitTables, DecisionsOn
<1>6. "delCand" \in D /\ "insCand" \notin D /\ "insDecision" \notin D
        => c \notin docs' /\ c \notin consents' /\ DecisionsOn(c)' = {}
  BY <1>1 DEF CommitTables, DecisionsOn
<1>7. Deleted(c)' <=> Deleted(c) \/ event = "candidate_deleted"
  <2> DEFINE e == AuditEntry(event, c, r, result, rows, p.basis)
  <2>1. audit' = audit \cup {e} /\ e.event = event /\ e.cand = c
    BY DEF Commit, AuditEntry
  <2>2. Deleted(c) <=> \E a \in audit : a.event = "candidate_deleted" /\ a.cand = c
    BY DEF Deleted, Recorded
  <2>3. Deleted(c)' <=> \E a \in audit' : a.event = "candidate_deleted" /\ a.cand = c
    BY DEF Deleted, Recorded
  <2> HIDE DEF e
  <2>4. QED BY <2>1, <2>2, <2>3
<1>8. QED BY <1>2, <1>3, <1>4, <1>5, <1>6, <1>7 DEF Effect

\* An upload commits the first row of its candidate.
LEMMA CreateCandidateCommitInv ==
  ASSUME IInv, TypeInv', NEW r \in Req, CreateCandidateCommit(r) PROVE IInv'
<1>1. PICK q : /\ q = Committed(req[r], "refresh")
               /\ Commit(r, "cv_parsed", NoRow, {}, q)
  BY DEF CreateCandidateCommit
<1>2. /\ req[r] \in Request /\ req[r].kind = "upload" /\ req[r].pc = "flush"
      /\ Acquainted(req[r]) /\ Shape(req[r]) /\ OnCandidate(req[r])
  BY AtInv DEF CreateCandidateCommit, At, OnCandidate
<1>3. PICK c, D, p :
        c \in Candidate /\ c = p.cand /\ D = p.done /\ p = req[r]
  BY <1>2 DEF Shape
<1>4. /\ q \in Request /\ q.kind = "upload" /\ q.cand = c /\ q.pc = "refresh"
      /\ q.done = {} /\ q.queue = req[r].queue
  BY <1>1, <1>2, <1>3 DEF Committed, Request, Steps
<1>5. D \subseteq {"insCand"} /\ ~Known(c)
  BY <1>2, <1>3 DEF Shape, Planned, Acquainted
<1>6. Sound(c)
  BY <1>3, SoundParts DEF IInv, TypeInv
<1>7. \A d \in Candidate : d # c => Untouched(d)
  BY <1>1, <1>3, CommitFrame DEF IInv
<1>8. Sound(c)'
  <2>1. /\ cand'[c] \in {cand[c], "received"}
        /\ score'[c] = score[c] /\ dossier'[c] = dossier[c]
        /\ DecisionsOn(c)' = DecisionsOn(c) /\ (Deleted(c)' <=> Deleted(c))
        /\ cand'[c] = "received" \/ (docs' = docs /\ consents' = consents)
    <3>1. Effect(c, D, p, "cv_parsed")
      BY <1>1, <1>3, CommitEffect DEF IInv
    <3>2. QED BY <1>5, <3>1 DEF Effect
  <2>2. QED BY <1>5, <1>6, <2>1 DEF Sound, Known, Exists
<1>9. ASSUME NEW s \in Req, s # r, req[s].cand = c, OnCandidate(req[s]), NEW n, n = req[s]
      PROVE  HeldRows(n, c)' /\ Remembers(n, c)'
  <2>1. /\ n.kind # "upload" /\ n.pc = "begin" /\ n.done = {}
    BY <1>2, <1>3, <1>5, <1>9, AtInv
    DEF IInv, LockInv, Excludes, Acquainted, Loose, OnCandidate, Shape
  <2>2. QED BY <2>1 DEF HeldRows, Remembers
<1>10. Become(r, q) /\ Remembers(q, c)'
  BY <1>1, <1>4 DEF Commit, Remembers, Deleting
<1>11. QED BY <1>2, <1>3, <1>4, <1>5, <1>7, <1>8, <1>9, <1>10, CommitInv

\* What another request on the candidate has locked and remembers only depends
\* on a score that does not vanish and, when it inserts one, is not there yet.
LEMMA ScoreCommitInv ==
  ASSUME IInv, TypeInv', NEW r \in Req, ScoreCommit(r) PROVE IInv'
<1>1. PICK q, rows : /\ q = Committed(req[r], "score_refresh")
                     /\ Commit(r, "score_computed", req[r].draft, rows, q)
  BY DEF ScoreCommit
<1>2. /\ req[r] \in Request /\ req[r].kind \in Scoring /\ req[r].pc = "score_flush"
      /\ Acquainted(req[r]) /\ Shape(req[r]) /\ OnCandidate(req[r])
      /\ Remembers(req[r], req[r].cand) /\ HeldRows(req[r], req[r].cand)
      /\ req[r].todo = {}
  BY <1>1, AtInv DEF ScoreCommit, At, OnCandidate, Scoring, Commit
<1>3. PICK c, D, n : c \in Candidate /\ c = n.cand /\ D = n.done /\ n = req[r]
  BY <1>2 DEF Shape
<1>4. /\ q \in Request /\ q.kind = req[r].kind /\ q.cand = c /\ q.pc = "score_refresh"
      /\ q.done = {} /\ q.queue = req[r].queue /\ q.status = req[r].status
  BY <1>1, <1>2, <1>3 DEF Committed, Request, Steps
<1>5. /\ D \subseteq {"vacancy", "insScore", "updScore"} /\ n.draft \in Result /\ Known(c)
      /\ "insScore" \in D => Exists(c) /\ score[c] = NoRow
      /\ "updScore" \in D => score[c] # NoRow
      /\ "insScore" \notin D /\ "updScore" \notin D /\ Exists(c) => score[c] # NoRow
  BY <1>1, <1>2, <1>3 DEF Shape, Planned, Acquainted, Loose, HeldRows, Remembers, Scoring
<1>6. Sound(c)
  BY <1>3, SoundParts DEF IInv, TypeInv
<1>7. \A d \in Candidate : d # c => Untouched(d)
  BY <1>1, <1>3, CommitFrame DEF IInv
<1>8. /\ cand'[c] = cand[c] /\ dossier'[c] = dossier[c]
      /\ score'[c] = IF "insScore" \in D THEN n.draft
                     ELSE IF "updScore" \in D THEN PatchScore(score[c], n) ELSE score[c]
      /\ DecisionsOn(c)' = DecisionsOn(c) /\ (Deleted(c)' <=> Deleted(c))
      /\ docs' = docs /\ consents' = consents /\ Become(r, q)
  <2>1. Effect(c, D, n, "score_computed")
    BY <1>1, <1>3, CommitEffect DEF IInv
  <2>2. Become(r, q)
    BY <1>1 DEF Commit
  <2>3. QED BY <1>5, <2>1, <2>2 DEF Effect
<1>9. score'[c] # NoRow <=> score[c] # NoRow \/ ("insScore" \in D \/ "updScore" \in D)
  <2>1. n \in Request /\ score[c] \in Result \cup {NoRow}
    BY <1>2, <1>3 DEF IInv, TypeInv, TypeOK
  <2>2. /\ score[c] # NoRow => PatchScore(score[c], n) \in Result
        /\ n.draft # NoRow
    BY <1>5, <2>1, PatchedRow
  <2>3. NoRow \notin Result
    OBVIOUS
  <2>4. QED BY <1>5, <1>8, <2>2, <2>3
<1>10. Exists(c)' <=> Exists(c)
  BY <1>8 DEF Exists
<1>11. Sound(c)'
  BY <1>5, <1>6, <1>8, <1>9, <1>10 DEF Sound
<1>12. ASSUME NEW s \in Req, s # r, req[s].cand = c, OnCandidate(req[s]), NEW p, p = req[s]
       PROVE  HeldRows(p, c)' /\ Remembers(p, c)'
  <2>1. HeldRows(p, c) /\ Remembers(p, c) /\ ~("insScore" \in p.done /\ "insScore" \in D)
    BY <1>3, <1>12, AtInv DEF IInv, LockInv, Excludes
  <2>2. "insScore" \in p.done => score'[c] = NoRow
    BY <1>5, <1>8, <2>1 DEF HeldRows
  <2>3. HeldRows(p, c)'
    BY <1>8, <1>9, <1>10, <2>1, <2>2 DEF HeldRows
  <2>4. Remembers(p, c)'
    BY <1>8, <1>9, <1>10, <2>1 DEF Remembers
  <2>5. QED BY <2>3, <2>4
<1>13. Remembers(q, c)'
  <2>1. Exists(c)' => score'[c] # NoRow
    BY <1>5, <1>9, <1>10
  <2>2. Exists(c)' /\ q.kind = "dossier" /\ q.status = "analyzed" => dossier'[c] # NoRow
    BY <1>2, <1>3, <1>4, <1>8, <1>10 DEF Remembers
  <2>3. QED BY <1>4, <2>1, <2>2 DEF Remembers
<1>14. (Known(c)' <=> Known(c)) /\ q.kind # "upload"
  BY <1>2, <1>4, <1>8, <1>10 DEF Known, Scoring
<1>15. QED BY <1>3, <1>4, <1>5, <1>7, <1>8, <1>11, <1>12, <1>13, <1>14, CommitInv

\* The dossier commit either finds its candidate and leaves it analyzed with a
\* dossier, or has changed nothing.
LEMMA DossierCommitInv ==
  ASSUME IInv, TypeInv', NEW r \in Req, DossierCommit(r) PROVE IInv'
<1>1. PICK q : /\ q = Committed(req[r], "refresh")
               /\ Commit(r, "dossier_generated", req[r].draft, {}, q)
  BY DEF DossierCommit
<1>2. /\ req[r] \in Request /\ req[r].kind = "dossier" /\ req[r].pc = "flush"
      /\ Acquainted(req[r]) /\ Shape(req[r]) /\ OnCandidate(req[r])
      /\ Remembers(req[r], req[r].cand) /\ HeldRows(req[r], req[r].cand)
      /\ req[r].todo = {}
  BY <1>1, AtInv DEF DossierCommit, At, OnCandidate, Commit
<1>3. PICK c, D, n : c \in Candidate /\ c = n.cand /\ D = n.done /\ n = req[r]
  BY <1>2 DEF Shape
<1>4. /\ q \in Request /\ q.kind = "dossier" /\ q.cand = c /\ q.pc = "refresh"
      /\ q.done = {} /\ q.queue = req[r].queue /\ q.status = req[r].status
  BY <1>1, <1>2, <1>3 DEF Committed, Request, Steps
<1>5. D \subseteq {"insDossier", "updDossier", "updCand"} /\ n.draft \in Result /\ Known(c)
  BY <1>1, <1>2, <1>3 DEF Shape, Planned, Acquainted, Loose
<1>6. Sound(c)
  BY <1>3, SoundParts DEF IInv, TypeInv
<1>7. /\ "insDossier" \in D => Exists(c) /\ dossier[c] = NoRow
      /\ "updDossier" \in D => dossier[c] # NoRow
      /\ "updCand" \in D => Exists(c)
      /\ "insDossier" \notin D /\ "updDossier" \notin D /\ Exists(c) => dossier[c] # NoRow
      /\ "updCand" \notin D /\ Exists(c) => dossier[c] # NoRow
      /\ Exists(c) => score[c] # NoRow
  BY <1>2, <1>3, <1>5 DEF Shape, Planned, HeldRows, Remembers
<1>8. \A d \in Candidate : d # c => Untouched(d)
  BY <1>1, <1>3, CommitFrame DEF IInv
<1>9. /\ cand'[c] = IF "updCand" \in D THEN "analyzed" ELSE cand[c]
      /\ score'[c] = score[c]
      /\ dossier'[c] = IF "insDossier" \in D THEN Reporting(n.draft)
                       ELSE IF "updDossier" \in D THEN PatchDossier(dossier[c], n)
                       ELSE dossier[c]
      /\ DecisionsOn(c)' = DecisionsOn(c) /\ (Deleted(c)' <=> Deleted(c))
      /\ docs' = docs /\ consents' = consents /\ Become(r, q)
  <2>1. Effect(c, D, n, "dossier_generated")
    BY <1>1, <1>3, CommitEffect DEF IInv
  <2>2. Become(r, q)
    BY <1>1 DEF Commit
  <2>3. QED BY <1>5, <2>1, <2>2 DEF Effect
<1>10. Exists(c)' <=> Exists(c)
  BY <1>7, <1>9 DEF Exists
<1>19. /\ dossier[c] # NoRow => PatchDossier(dossier[c], n) # NoRow
       /\ Reporting(n.draft) # NoRow
  <2>1. n \in Request /\ dossier[c] \in Report \cup {NoRow}
    BY <1>2, <1>3 DEF IInv, TypeInv, TypeOK
  <2>2. NoRow \notin Report
    OBVIOUS
  <2>3. QED BY <1>5, <2>1, <2>2, PatchedRow
<1>11. Exists(c) => dossier'[c] # NoRow /\ cand'[c] = "analyzed"
  BY <1>5, <1>6, <1>7, <1>9, <1>19 DEF Sound
<1>12. ~Exists(c) => D = {}
  BY <1>5, <1>6, <1>7 DEF Sound
<1>13. Sound(c)'
  BY <1>6, <1>7, <1>9, <1>10, <1>11, <1>12 DEF Sound, Exists
<1>14. dossier[c] # NoRow => dossier'[c] # NoRow
  BY <1>5, <1>9, <1>19
<1>15. ASSUME NEW s \in Req, s # r, req[s].cand = c, OnCandidate(req[s]), NEW p, p = req[s]
       PROVE  HeldRows(p, c)' /\ Remembers(p, c)'
  <2>1. HeldRows(p, c) /\ Remembers(p, c) /\ ~("insDossier" \in p.done /\ "insDossier" \in D)
    BY <1>3, <1>15, AtInv DEF IInv, LockInv, Excludes
  <2>2. "insDossier" \in p.done => dossier'[c] = NoRow
    BY <1>5, <1>7, <1>9, <2>1 DEF HeldRows
  <2>3. HeldRows(p, c)'
    BY <1>9, <1>10, <1>14, <2>1, <2>2 DEF HeldRows
  <2>4. Remembers(p, c)'
    BY <1>9, <1>10, <1>14, <2>1 DEF Remembers
  <2>5. QED BY <2>3, <2>4
<1>16. Remembers(q, c)'
  BY <1>4, <1>7, <1>9, <1>10, <1>11 DEF Remembers, Deleting
<1>17. (Known(c)' <=> Known(c)) /\ q.kind # "upload"
  BY <1>4, <1>9, <1>10 DEF Known
<1>18. QED BY <1>2, <1>3, <1>4, <1>5, <1>8, <1>9, <1>13, <1>15, <1>16, <1>17, CommitInv

\* A decision that could be inserted still has the dossier it was made on.
LEMMA DecisionCommitInv ==
  ASSUME IInv, TypeInv', NEW r \in Req, DecisionCommit(r) PROVE IInv'
<1>1. PICK q : /\ q = Committed(req[r], "refresh")
               /\ Commit(r, "decision_recorded", req[r].draft, {}, q)
  BY DEF DecisionCommit
<1>2. /\ req[r] \in Request /\ req[r].kind = "decision" /\ req[r].pc = "flush"
      /\ Acquainted(req[r]) /\ Shape(req[r]) /\ OnCandidate(req[r])
      /\ Remembers(req[r], req[r].cand) /\ HeldRows(req[r], req[r].cand)
      /\ req[r].todo = {}
  BY <1>1, AtInv DEF DecisionCommit, At, OnCandidate, Commit
<1>3. PICK c, D, n : c \in Candidate /\ c = n.cand /\ D = n.done /\ n = req[r]
  BY <1>2 DEF Shape
<1>4. /\ q \in Request /\ q.kind = "decision" /\ q.cand = c /\ q.pc = "refresh"
      /\ q.done = {} /\ q.queue = req[r].queue
  BY <1>1, <1>2, <1>3 DEF Committed, Request, Steps
<1>5. D = {"insDecision"} /\ Known(c)
  BY <1>1, <1>2, <1>3 DEF Shape, Planned, Acquainted, Loose
<1>6. Exists(c) /\ dossier[c] # NoRow
  BY <1>2, <1>3, <1>5 DEF HeldRows, Remembers
<1>7. \A d \in Candidate : d # c => Untouched(d)
  BY <1>1, <1>3, CommitFrame DEF IInv
<1>8. /\ cand'[c] = cand[c] /\ score'[c] = score[c] /\ dossier'[c] = dossier[c]
      /\ (Deleted(c)' <=> Deleted(c)) /\ Become(r, q)
  <2>1. Effect(c, D, n, "decision_recorded")
    BY <1>1, <1>3, CommitEffect DEF IInv
  <2>2. Become(r, q)
    BY <1>1 DEF Commit
  <2>3. QED BY <1>5, <2>1, <2>2 DEF Effect
<1>9. Exists(c)' <=> Exists(c)
  BY <1>8 DEF Exists
<1>10. Sound(c)'
  <2>1. Sound(c)
    BY <1>3, SoundParts DEF IInv, TypeInv
  <2>2. QED BY <1>6, <1>8, <1>9, <2>1 DEF Sound
<1>11. ASSUME NEW s \in Req, s # r, req[s].cand = c, OnCandidate(req[s]), NEW p, p = req[s]
       PROVE  HeldRows(p, c)' /\ Remembers(p, c)'
  <2>1. HeldRows(p, c) /\ Remembers(p, c)
    BY <1>11, AtInv
  <2>2. QED BY <1>8, <1>9, <2>1 DEF HeldRows, Remembers
<1>12. Remembers(q, c)'
  BY <1>4 DEF Remembers, Deleting
<1>13. Known(c)' <=> Known(c)
  BY <1>8, <1>9 DEF Known
<1>14. QED BY <1>2, <1>3, <1>4, <1>5, <1>7, <1>8, <1>10, <1>11, <1>12, <1>13, CommitInv

\* An export writes nothing but its audit event.
LEMMA ExportCommitInv ==
  ASSUME IInv, TypeInv', NEW r \in Req, ExportCommit(r) PROVE IInv'
<1>1. PICK q : /\ q = Answered(req[r], "ok")
               /\ Commit(r, "pdf_exported", NoRow, {}, q)
  BY DEF ExportCommit
<1>2. /\ req[r] \in Request /\ req[r].kind = "export" /\ req[r].pc = "flush"
      /\ Acquainted(req[r]) /\ Shape(req[r]) /\ OnCandidate(req[r])
  BY AtInv DEF ExportCommit, At, OnCandidate
<1>3. PICK c, D, n : c \in Candidate /\ c = n.cand /\ D = n.done /\ n = req[r]
  BY <1>2 DEF Shape
<1>4. q \in Request
  BY <1>1 DEF Commit, Become, IInv, TypeInv, TypeOK
<1>5. /\ q.kind = "export" /\ q.cand = c /\ q.pc = "done" /\ q.done = {} /\ q.queue = {}
  BY <1>1, <1>2, <1>3 DEF Answered, Request
<1>6. D = {} /\ Known(c)
  BY <1>2, <1>3 DEF Shape, Planned, Acquainted, Loose
<1>7. Untouched(c) /\ Become(r, q)
  <2>1. Effect(c, D, n, "pdf_exported")
    BY <1>1, <1>3, CommitEffect DEF IInv
  <2>2. Become(r, q)
    BY <1>1 DEF Commit
  <2>3. QED BY <1>6, <2>1, <2>2 DEF Effect, Untouched
<1>8. \A d \in Candidate : d # c => Untouched(d)
  BY <1>1, <1>3, CommitFrame DEF IInv
<1>9. Sound(c)'
  BY <1>3, <1>7, SoundParts, UntouchedKeeps DEF IInv, TypeInv
<1>10. ASSUME NEW s \in Req, s # r, req[s].cand = c, OnCandidate(req[s]), NEW p, p = req[s]
       PROVE  HeldRows(p, c)' /\ Remembers(p, c)'
  BY <1>3, <1>7, <1>10, AtInv, UntouchedKeeps
<1>11. (Known(c)' <=> Known(c)) /\ ~OnCandidate(q)
  BY <1>3, <1>5, <1>7, UntouchedKeeps DEF OnCandidate
<1>12. q.pc \in Loose
  BY <1>5 DEF Loose
<1>13. QED BY <1>2, <1>3, <1>4, <1>5, <1>6, <1>7, <1>8, <1>9, <1>10, <1>11, <1>12, CommitInv

\* A deletion that found its candidate leaves no other request with a statement
\* on it; one that did not has written nothing.
LEMMA DeleteCommitStep ==
  ASSUME IInv, TypeInv', NEW r \in Req, NEW rows, NEW q \in Request,
         At(r, Deleting, "flush"), Commit(r, "candidate_deleted", NoRow, rows, q),
         q.kind = req[r].kind, q.done = {}, q.queue \subseteq req[r].queue,
         q.pc = "flush" => {"delCand", "cascade"} \subseteq Planned(q) /\ Known(q.cand),
         q.pc \in {"flush", "done"}
  PROVE  IInv'
<1>1. /\ req[r] \in Request /\ req[r].kind \in Deleting /\ req[r].pc = "flush"
      /\ Acquainted(req[r]) /\ Shape(req[r]) /\ OnCandidate(req[r])
      /\ Remembers(req[r], req[r].cand) /\ HeldRows(req[r], req[r].cand)
      /\ req[r].todo = {}
  BY AtInv DEF At, OnCandidate, Commit, Deleting
<1>2. PICK c, D, n :
        c \in Candidate /\ c = n.cand /\ D = n.done /\ n = req[r]
  BY <1>1 DEF Shape
<1>3. D \subseteq Purge /\ Known(c)
  BY <1>1, <1>2 DEF Shape, Planned, Acquainted, Loose, Deleting
<1>4. /\ D # {} => Exists(c)
      /\ "delCand" \notin D => ~Exists(c)
      /\ "cascade" \notin D => ~Exists(c)
  BY <1>1, <1>2, <1>3 DEF HeldRows, Remembers, Planned
<1>5. Sound(c)
  BY <1>2, SoundParts DEF IInv, TypeInv
<1>6. Effect(c, D, n, "candidate_deleted") /\ Become(r, q)
  BY <1>2, CommitEffect DEF IInv, Commit
<1>7. ~Exists(c)' /\ Deleted(c)' /\ Sound(c)'
  <2>1. D \cap {"insCand", "updCand", "insScore", "updScore", "insDossier",
                "updDossier", "insDecision"} = {}
    BY <1>3 DEF Purge
  <2>2. CASE "delCand" \in D
    BY <1>6, <2>1, <2>2 DEF Effect, Sound, Exists
  <2>3. CASE "delCand" \notin D
    <3>1. D = {} /\ ~Exists(c)
      BY <1>4, <2>3
    <3>2. QED BY <1>5, <1>6, <3>1 DEF Effect, Sound, Exists
  <2>4. QED BY <2>2, <2>3
<1>8. \A d \in Candidate : d # c => Untouched(d)
  BY <1>2, CommitFrame DEF IInv
<1>9. ASSUME NEW s \in Req, s # r, req[s].cand = c, OnCandidate(req[s]), NEW p, p = req[s]
      PROVE  HeldRows(p, c)' /\ Remembers(p, c)'
  <2>1. HeldRows(p, c) /\ Remembers(p, c) /\ Excludes(req[r], p)
    BY <1>2, <1>9, AtInv DEF IInv, LockInv
  <2>2. p.done \cap ({"insScore", "updScore", "insDossier", "updDossier", "updCand",
                      "insDecision"} \cup Purge) = {}
    <3>1. CASE Exists(c)
      <4>1. Held(p) = {}
        BY <1>2, <1>4, <2>1, <3>1 DEF Excludes
      <4>2. QED BY <4>1 DEF Held, Purge
    <3>2. CASE ~Exists(c)
      BY <1>5, <2>1, <3>2 DEF HeldRows, Sound
    <3>3. QED BY <3>1, <3>2
  <2>3. HeldRows(p, c)'
    BY <2>2 DEF HeldRows
  <2>4. Remembers(p, c)'
    BY <1>7 DEF Remembers
  <2>5. QED BY <2>3, <2>4
<1>10. OnCandidate(q) => Remembers(q, q.cand)'
  BY <1>1 DEF OnCandidate, Remembers, Deleting
<1>11. Known(c)' /\ q.kind # "upload"
  BY <1>1, <1>7 DEF Known, Deleting
<1>12. q.pc \notin Loose => Known(q.cand)
  BY DEF Loose
<1>13. QED BY <1>2, <1>3, <1>6, <1>7, <1>8, <1>9, <1>10, <1>11, <1>12, CommitInv

\* The commit of a deletion keeps IInv: nobody who lasts holds a row of the candidate.
LEMMA DeleteCommitInv ==
  ASSUME IInv, TypeInv', NEW r \in Req, DeleteCommit(r) PROVE IInv'
<1>1. PICK rows :
        \/ Commit(r, "candidate_deleted", NoRow, rows, Answered(req[r], "ok"))
        \/ \E c \in req[r].queue :
             Commit(r, "candidate_deleted", NoRow, rows,
                    Purging(Committed(req[r], "flush"), c))
  BY DEF DeleteCommit
<1>2. At(r, Deleting, "flush")
  BY DEF DeleteCommit
<1>3. /\ req[r] \in Request /\ Shape(req[r]) /\ Acquainted(req[r])
      /\ req[r].kind \in Deleting /\ req[r].pc = "flush"
  BY <1>2, AtInv DEF At
<1>4. CASE Commit(r, "candidate_deleted", NoRow, rows, Answered(req[r], "ok"))
  <2>1. PICK q : q = Answered(req[r], "ok")
    OBVIOUS
  <2>2. /\ Commit(r, "candidate_deleted", NoRow, rows, q)
        /\ q \in Request
    BY <1>4, <2>1 DEF Commit, Become, IInv, TypeInv, TypeOK
  <2>3. q.kind = req[r].kind /\ q.done = {} /\ q.queue = {} /\ q.pc = "done"
    BY <1>3, <2>1 DEF Answered, Request
  <2>4. QED BY <1>2, <2>2, <2>3, DeleteCommitStep
<1>5. ASSUME NEW c \in req[r].queue,
             Commit(r, "candidate_deleted", NoRow, rows,
                    Purging(Committed(req[r], "flush"), c))
      PROVE  IInv'
  <2>1. PICK b : b = Committed(req[r], "flush")
    OBVIOUS
  <2>2. /\ b \in Request /\ b.kind = req[r].kind /\ b.done = {}
        /\ b.queue = req[r].queue /\ c \in Candidate
    BY <1>3, <2>1 DEF Committed, Request, Steps
  <2>3. PICK q : q = Purging(b, c)
    OBVIOUS
  <2>4. /\ Commit(r, "candidate_deleted", NoRow, rows, q)
        /\ q \in Request
    BY <1>5, <2>1, <2>3 DEF Commit, Become, IInv, TypeInv, TypeOK
  <2>5. /\ q.kind = req[r].kind /\ q.cand = c /\ q.done = {} /\ q.pc = "flush"
        /\ q.queue \subseteq req[r].queue /\ {"delCand", "cascade"} \subseteq Planned(q)
    BY <1>3, <2>2, <2>3, PurgingFit
  <2>6. Known(c)
    BY <1>3 DEF Acquainted
  <2>7. QED BY <1>2, <2>4, <2>5, <2>6, DeleteCommitStep
<1>6. QED BY <1>1, <1>4, <1>5

-----------------------------------------------------------------------------
\* The rows that finished uploads left satisfy IInv.
LEMMA InitInv == ASSUME Init PROVE IInv
<1>1. TypeInv
  BY InitType
<1>2. \A r \in Req : req[r] = Idle
  BY DEF Init
<1>3. /\ Idle.pc = "idle" /\ Idle.kind = "none" /\ Idle.done = {} /\ Idle.queue = {}
  BY DEF Idle
<1>4. RequestInv
  BY <1>2, <1>3 DEF RequestInv, Fit, OnCandidate, Acquainted, Loose
<1>5. LockInv
  BY <1>2, <1>3 DEF LockInv, Excludes, Held
<1>6. \A c \in Candidate : ~Deleted(c)
  BY DEF Init, Deleted, Recorded, AuditEntry
<1>7. MintedInv
  BY <1>6 DEF MintedInv, Known, Exists, Init
<1>8. \A c \in Candidate : Sound(c)
  BY <1>6 DEF Sound, Exists, Init, DecisionsOn
<1>9. QED BY <1>1, <1>4, <1>5, <1>7, <1>8, SoundParts DEF IInv, TypeInv

\* Each statement, each commit and each answer of each request keeps IInv.
LEMMA NextInv == ASSUME IInv, [Next]_vars PROVE IInv'
<1>1. TypeInv'
  BY NextType DEF IInv
<1>2. CASE UNCHANGED vars
  BY <1>2 DEF vars, IInv, TypeInv, TypeOK, Shape, RequestInv, Fit, HeldRows, Remembers,
     Acquainted, Known, Exists, Deleted, Recorded, LockInv, Excludes, Held, MintedInv,
     Integrity, NothingOutlivesCandidate, DossierHasScore, StatusMatchesDossier,
     DecisionHasDossier, DeletedStaysGone, DecisionsOn
<1>3. ASSUME NEW r \in Req, Arrive(r) \/ StartTtl(r) \/ BreakDeadlock(r) \/ Fail(r)
      PROVE  IInv'
  BY <1>1, <1>3, ArriveInv, StartTtlInv, EndInv
<1>4. ASSUME NEW r \in Req, Advance(r) PROVE IInv'
  <2>1. CASE Execute(r)
    BY <1>1, <2>1, ExecuteInv
  <2>2. CASE CreateCandidate(r)
    BY <1>1, <2>2, ParseCvInv, CreateCandidateCommitInv, EndInv DEF CreateCandidate
  <2>3. CASE ScoreCandidate(r)
    <3>1. CASE ScoreGetCandidate(r)
      BY <1>1, <3>1, GetCandidateInv DEF ScoreGetCandidate
    <3>2. CASE ~ScoreGetCandidate(r)
      BY <1>1, <2>3, <3>2, CheckInv, ScoreNarrateInv, ScoreCommitInv, ScoreRefreshInv
      DEF ScoreCandidate
    <3>3. QED BY <3>1, <3>2
  <2>4. CASE GenerateDossier(r)
    BY <1>1, <2>4, DossierGetCandidateInv, CheckInv, DossierComposeInv, DossierCommitInv,
       EndInv DEF GenerateDossier
  <2>5. CASE RecordDecision(r)
    <3>1. CASE DecisionGetCandidate(r)
      BY <1>1, <3>1, GetCandidateInv DEF DecisionGetCandidate
    <3>2. CASE ~DecisionGetCandidate(r)
      BY <1>1, <2>5, <3>2, DecisionReadDossierInv, DecisionCommitInv, EndInv
      DEF RecordDecision
    <3>3. QED BY <3>1, <3>2
  <2>6. CASE ExportDossierPdf(r)
    <3>1. CASE ExportGetCandidate(r)
      BY <1>1, <3>1, GetCandidateInv DEF ExportGetCandidate
    <3>2. CASE ~ExportGetCandidate(r)
      BY <1>1, <2>6, <3>2, CheckInv, ExportCommitInv DEF ExportDossierPdf
    <3>3. QED BY <3>1, <3>2
  <2>7. CASE DeleteCandidate(r)
    BY <1>1, <2>7, DeleteGetCandidateInv, FindExpiredInv, DeleteCommitInv
    DEF DeleteCandidate
  <2>8. QED BY <1>4, <2>1, <2>2, <2>3, <2>4, <2>5, <2>6, <2>7 DEF Advance
<1>5. QED BY <1>2, <1>3, <1>4 DEF Next

\* IInv holds in every reachable state.
THEOREM Inductive == Spec => []IInv
BY InitInv, NextInv, PTL DEF Spec

\* No row about a person outlives the candidate row, whatever was under way
\* when the deletion committed.
THEOREM NothingOutlives == Spec => []NothingOutlivesCandidate
<1>1. IInv => NothingOutlivesCandidate
  BY DEF IInv, Integrity
<1>2. QED BY <1>1, Inductive, PTL

\* A dossier always has a score, though two transactions write them.
THEOREM DossiersScored == Spec => []DossierHasScore
<1>1. IInv => DossierHasScore
  BY DEF IInv, Integrity
<1>2. QED BY <1>1, Inductive, PTL

\* A candidate is marked analyzed exactly while it has a dossier.
THEOREM StatusRight == Spec => []StatusMatchesDossier
<1>1. IInv => StatusMatchesDossier
  BY DEF IInv, Integrity
<1>2. QED BY <1>1, Inductive, PTL

\* A decision on file always has the dossier it was made on.
THEOREM DecisionsGrounded == Spec => []DecisionHasDossier
<1>1. IInv => DecisionHasDossier
  BY DEF IInv, Integrity
<1>2. QED BY <1>1, Inductive, PTL

\* A candidate whose deletion was audited never comes back.
THEOREM DeletionFinal == Spec => []DeletedStaysGone
<1>1. IInv => DeletedStaysGone
  BY DEF IInv, Integrity
<1>2. QED BY <1>1, Inductive, PTL
=============================================================================
