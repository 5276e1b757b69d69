----------------------------- MODULE TypeProofs -----------------------------
(***************************************************************************)
(* Type correctness of TalentTrust, together with the shape of a request's *)
(* record at each position of its handler (TypeInv of TalentTrustInv).     *)
(***************************************************************************)
EXTENDS TalentTrustInv, TLAPS

Codes == {"ok", "400", "404", "409", "413", "422", "500", "failed"}

USE StoreAssumption

\* What is computed and what a dossier says of it are of their types, and stay of
\* them when an UPDATE changes some of their columns.
LEMMA ResultType ==
  /\ \A v \in Value : Scored(v) \in Result
  /\ \A x \in Result : Reporting(x) \in Report
  /\ \A row \in Result \cup {NoRow}, q \in Request :
       q.draft \in Result => PatchScore(row, q) \in Result \cup {NoRow}
  /\ \A row \in Report \cup {NoRow}, q \in Request :
       q.draft \in Result => PatchDossier(row, q) \in Report \cup {NoRow}
<1>1. \A v \in Value : Scored(v) \in Result
  BY DEF Scored, Result
<1>2. \A x \in Result : Reporting(x) \in Report
  BY DEF Reporting, Result, Report
<1>3. ASSUME NEW row \in Result \cup {NoRow}, NEW q \in Request, q.draft \in Result
      PROVE  PatchScore(row, q) \in Result \cup {NoRow}
  BY <1>3 DEF PatchScore, Result
<1>4. ASSUME NEW row \in Report \cup {NoRow}, NEW q \in Request, q.draft \in Result
      PROVE  PatchDossier(row, q) \in Report \cup {NoRow}
  <2>1. q.draft.recommendation \in Grade
    BY <1>4 DEF Result
  <2>2. QED BY <1>4, <2>1 DEF PatchDossier, Report
<1>5. QED BY <1>1, <1>2, <1>3, <1>4

\* A step that only moves one request keeps TypeInv if its new record is well
\* shaped.
LEMMA LocalType ==
  ASSUME TypeInv, NEW r \in Req, NEW q \in Request, Shape(q),
         Become(r, q), UNCHANGED <<tables, audit>>
  PROVE  TypeInv'
<1>1. TypeOK'
  BY DEF TypeInv, TypeOK, tables, Become
<1>2. \A s \in Req : Shape(req'[s])
  BY DEF TypeInv, TypeOK, Become
<1>3. QED BY <1>1, <1>2 DEF TypeInv

\* An answered request is well shaped whatever it was doing.
LEMMA AnsweredShape ==
  ASSUME NEW q \in Request, Shape(q), q.kind # "none", NEW code \in Codes
  PROVE  Answered(q, code) \in Request /\ Shape(Answered(q, code))
<1>1. Answered(q, code) \in Request
  BY ZenonT(60) DEF Answered, Request, Statement, Steps, CandStatus, Codes
<1>2. Shape(Answered(q, code))
  BY DEF Answered, Request, Shape, OnCandidate
<1>3. QED BY <1>1, <1>2

\* Answering a request, by whatever step, keeps TypeInv.
LEMMA AnswerType ==
  ASSUME TypeInv, NEW r \in Req, req[r].pc # "idle", NEW code \in Codes,
         Answer(r, code), UNCHANGED <<tables, audit>>
  PROVE  TypeInv'
<1>1. req[r] \in Request /\ Shape(req[r]) /\ req[r].kind # "none"
  BY DEF TypeInv, TypeOK, Shape
<1>2. Become(r, Answered(req[r], code))
  BY DEF Answer
<1>3. QED BY <1>1, <1>2, AnsweredShape, LocalType

\* The arrival of a request keeps TypeInv.
LEMMA ArriveType == ASSUME TypeInv, NEW r \in Req, Arrive(r) PROVE TypeInv'
<1>1. req[r] \in Request /\ Shape(req[r]) /\ req[r].pc = "idle"
  BY DEF TypeInv, TypeOK, Arrive
<1>2. PICK k \in Kinds \ {"ttl"}, c \in Candidate, o \in Org :
        Become(r, [req[r] EXCEPT !.kind = k, !.cand = c, !.org = o, !.pc = "begin"])
  BY DEF Arrive
<1> DEFINE q == [req[r] EXCEPT !.kind = k, !.cand = c, !.org = o, !.pc = "begin"]
<1>3. q \in Request
  BY <1>1 DEF Request, Steps, AllKinds
<1>4. Shape(q)
  BY <1>1, <1>3 DEF Request, Shape, OnCandidate, AllKinds, Deleting
<1>5. QED BY <1>2, <1>3, <1>4, LocalType DEF Arrive

\* The start of a sweep keeps TypeInv.
LEMMA StartTtlType == ASSUME TypeInv, NEW r \in Req, StartTtl(r) PROVE TypeInv'
<1> DEFINE q == [req[r] EXCEPT !.kind = "ttl", !.pc = "begin"]
<1>1. req[r] \in Request /\ Shape(req[r]) /\ req[r].pc = "idle"
  BY DEF TypeInv, TypeOK, StartTtl
<1>2. q \in Request
  BY <1>1 DEF Request, Steps, AllKinds
<1>3. /\ q.kind = "ttl" /\ q.pc = "begin"
      /\ q.cand = req[r].cand /\ q.todo = req[r].todo /\ q.done = req[r].done
  BY <1>1 DEF Request
<1>4. Shape(q)
  BY <1>1, <1>3 DEF Shape, OnCandidate, Deleting
<1>5. QED BY <1>2, <1>4, LocalType DEF StartTtl

\* The statement to be sent next is one the request has to send.
LEMMA UpcomingType ==
  ASSUME NEW T \in SUBSET Statement, NEW w \in Upcoming(T)
  PROVE  w \in Statement \cup {"none"} /\ (w = "none" \/ w \in T)
BY DEF Upcoming

\* Executing a statement moves it from todo to done, or drops it when it is a
\* DELETE that matched nothing.
LEMMA ExecuteType == ASSUME TypeInv, NEW r \in Req, Execute(r) PROVE TypeInv'
<1> DEFINE q == req[r]
           rest == q.todo \ {q.next}
           hit == IF q.next \in Purge /\ ~Addressed(q.next, q.cand) THEN {} ELSE {q.next}
<1>1. q \in Request /\ Shape(q)
  BY DEF TypeInv, TypeOK
<1>2. q.pc \in {"score_flush", "flush"} /\ q.next \in q.todo
  BY DEF Execute
<1>4. UNCHANGED <<tables, audit>>
  BY DEF Execute
<1>5. CASE Refused(q.next, q.cand)
  <2>1. Answer(r, "500")
    BY <1>5 DEF Execute
  <2>2. QED BY <2>1, <1>2, <1>4, AnswerType DEF Codes
<1>6. CASE ~Refused(q.next, q.cand)
  <2>1. PICK w \in Upcoming(rest) :
          Become(r, [q EXCEPT !.todo = rest, !.next = w, !.done = q.done \cup hit])
    BY <1>6 DEF Execute
  <2> DEFINE p == [q EXCEPT !.todo = rest, !.next = w, !.done = q.done \cup hit]
  <2>2. q.todo \in SUBSET Statement /\ q.done \in SUBSET Statement /\ rest \in SUBSET Statement
    BY <1>1 DEF Request
  <2>3. w \in Statement \cup {"none"}
    BY <2>2, UpcomingType
  <2>4. hit \in SUBSET Statement
    BY <1>2, <2>2
  <2>5. p \in Request
    BY <1>1, <2>2, <2>3, <2>4, ZenonT(60) DEF Request
  <2>6. /\ p.pc = q.pc /\ p.kind = q.kind /\ p.cand = q.cand /\ p.draft = q.draft
        /\ p.status = q.status /\ p.todo = rest /\ p.done = q.done \cup hit
    BY <1>1 DEF Request
  <2>7. /\ Planned(p) \subseteq Planned(q)
        /\ q.next \notin Purge => Planned(p) = Planned(q)
    BY <1>2, <2>6 DEF Planned
  <2>8. q.kind \notin Deleting => q.next \notin Purge
    BY <1>1, <1>2 DEF Shape, Planned, Purge, Scoring, Deleting, Request, AllKinds
  <2>9. Shape(p)
    <3>1. CASE q.kind \in Deleting
      BY <3>1, <1>1, <1>2, <2>6, <2>7 DEF Shape, OnCandidate, Deleting, Scoring
    <3>2. CASE q.kind \notin Deleting
      <4>1. Planned(p) = Planned(q)
        BY <3>2, <2>7, <2>8
      <4>2. QED BY <4>1, <3>2, <1>1, <1>2, <2>6 DEF Shape, OnCandidate
    <3>3. QED BY <3>1, <3>2
  <2>11. QED BY <2>1, <2>5, <2>9, <1>4, LocalType
<1>7. QED BY <1>5, <1>6

-----------------------------------------------------------------------------
(* The read steps: the request is answered, or moves on.                    *)

\* Moving to a position that sends nothing.
LEMMA MoveShape ==
  ASSUME NEW q \in Request, Shape(q), q.done = {}, q.cand \in Candidate, q.kind # "none",
         NEW p \in {"consent", "document", "score_consent", "score_document",
                    "decide", "export", "export_score"},
         q.todo = {} \/ (p \in {"score_consent", "score_document"} /\ q.todo \subseteq {"vacancy"}),
         p \in {"consent", "document"} => q.kind = "dossier",
         p \in {"score_consent", "score_document"} => q.kind \in Scoring
  PROVE  /\ [q EXCEPT !.pc = p] \in Request
         /\ Shape([q EXCEPT !.pc = p])
<1> DEFINE n == [q EXCEPT !.pc = p]
<1>1. n \in Request
  BY DEF Request, Steps
<1>2. /\ n.kind = q.kind /\ n.pc = p /\ n.cand = q.cand /\ n.todo = q.todo
      /\ n.done = q.done /\ n.draft = q.draft
  BY DEF Request
<1>3. Shape(n)
  BY <1>2 DEF Shape, OnCandidate
<1>4. QED BY <1>1, <1>3

\* What a request is at a position, for the steps below.
LEMMA AtType ==
  ASSUME TypeInv, NEW r \in Req, NEW K, NEW p, At(r, K, p)
  PROVE  /\ req[r] \in Request /\ Shape(req[r])
         /\ req[r].kind \in K /\ req[r].pc = p
BY DEF TypeInv, TypeOK, At

\* A lookup of the candidate keeps TypeInv.
LEMMA GetCandidateType ==
  ASSUME TypeInv, NEW r \in Req,
         NEW k \in {"score", "decision", "export"},
         NEW p \in {"score_consent", "decide", "export"},
         k = "score" <=> p = "score_consent",
         GetCandidate(r, k, p)
  PROVE  TypeInv'
<1>1. At(r, {k}, "begin") /\ UNCHANGED <<tables, audit>>
  BY DEF GetCandidate
<1>2. /\ req[r] \in Request /\ Shape(req[r]) /\ req[r].kind = k /\ req[r].pc = "begin"
  BY <1>1, AtType
<1>3. req[r].done = {} /\ req[r].todo = {} /\ req[r].cand \in Candidate
  BY <1>2 DEF Shape, OnCandidate
<1>4. CASE Answer(r, "404")
  BY <1>4, <1>1, <1>2, AnswerType DEF Codes
<1>5. CASE Goto(r, p)
  <2>1. [req[r] EXCEPT !.pc = p] \in Request /\ Shape([req[r] EXCEPT !.pc = p])
    BY <1>2, <1>3, MoveShape DEF Scoring
  <2>2. QED BY <2>1, <1>5, <1>1, LocalType DEF Goto
<1>6. QED BY <1>4, <1>5 DEF GetCandidate

\* The consent check of score_candidate keeps TypeInv.
LEMMA ScoreCheckConsentType ==
  ASSUME TypeInv, NEW r \in Req, ScoreCheckConsent(r) PROVE TypeInv'
<1>1. At(r, Scoring, "score_consent") /\ UNCHANGED <<tables, audit>>
  BY DEF ScoreCheckConsent
<1>2. /\ req[r] \in Request /\ Shape(req[r])
      /\ req[r].pc = "score_consent" /\ req[r].kind \in Scoring
  BY <1>1, AtType
<1>3. req[r].done = {} /\ req[r].todo \subseteq {"vacancy"} /\ req[r].cand \in Candidate
  BY <1>2 DEF Shape, OnCandidate
<1>4. Answer(r, "409") \/ Answer(r, "500") \/ Goto(r, "score_document")
  BY DEF ScoreCheckConsent, Raise
<1>5. CASE Answer(r, "409") \/ Answer(r, "500")
  BY <1>5, <1>1, <1>2, AnswerType DEF Codes
<1>6. CASE Goto(r, "score_document")
  <2>1. /\ [req[r] EXCEPT !.pc = "score_document"] \in Request
        /\ Shape([req[r] EXCEPT !.pc = "score_document"])
    BY <1>2, <1>3, MoveShape DEF Scoring
  <2>2. QED BY <2>1, <1>6, <1>1, LocalType DEF Goto
<1>7. QED BY <1>4, <1>5, <1>6

\* The consent check of generate_dossier keeps TypeInv.
LEMMA DossierCheckConsentType ==
  ASSUME TypeInv, NEW r \in Req, DossierCheckConsent(r) PROVE TypeInv'
<1>1. At(r, {"dossier"}, "consent") /\ UNCHANGED <<tables, audit>>
  BY DEF DossierCheckConsent
<1>2. /\ req[r] \in Request /\ Shape(req[r])
      /\ req[r].pc = "consent" /\ req[r].kind = "dossier"
  BY <1>1, AtType
<1>3. req[r].done = {} /\ req[r].todo = {} /\ req[r].cand \in Candidate
  BY <1>2 DEF Shape, OnCandidate
<1>4. CASE Answer(r, "409")
  BY <1>4, <1>1, <1>2, AnswerType DEF Codes
<1>5. CASE Goto(r, "document")
  <2>1. /\ [req[r] EXCEPT !.pc = "document"] \in Request
        /\ Shape([req[r] EXCEPT !.pc = "document"])
    BY <1>2, <1>3, MoveShape
  <2>2. QED BY <2>1, <1>5, <1>1, LocalType DEF Goto
<1>6. QED BY <1>4, <1>5 DEF DossierCheckConsent

\* Reading the vacancy settles which embedding the request scores with, and whether
\* it has it to write.
LEMMA EmbeddedType ==
  ASSUME TypeInv, NEW r \in Req, NEW q \in Request, q.cand \in Candidate
  PROVE  LET n == Embedded(q, r)
         IN /\ n \in Request /\ n.kind = q.kind /\ n.pc = q.pc /\ n.cand = q.cand
            /\ n.done = q.done /\ n.status = q.status /\ n.org = q.org
            /\ n.queue = q.queue /\ n.draft = q.draft /\ n.next = q.next
            /\ \/ n.todo = {"vacancy"} /\ n.basis = r
               \/ /\ n.todo = {} /\ n.basis = embedding[VacancyOf[q.cand]]
                  /\ n.basis \in Req
<1> DEFINE stored == embedding[VacancyOf[q.cand]]
<1>1. stored \in Req \cup {NoRow}
  BY DEF TypeInv, TypeOK
<1> HIDE DEF stored
<1>2. {"vacancy"} \in SUBSET Statement
  BY DEF Statement
<1>3. CASE stored = NoRow
  <2>1. Embedded(q, r) = [q EXCEPT !.basis = r, !.todo = {"vacancy"}]
    BY <1>3 DEF Embedded, stored
  <2>2. QED BY <2>1, <1>2 DEF Request
<1>4. CASE stored # NoRow
  <2>1. Embedded(q, r) = [q EXCEPT !.basis = stored, !.todo = {}]
    BY <1>4 DEF Embedded, stored
  <2>2. stored \in Req
    BY <1>1, <1>4
  <2>3. [q EXCEPT !.basis = stored, !.todo = {}].basis = stored
    BY DEF Request
  <2>4. QED BY <2>1, <2>2, <2>3 DEF Request, stored
<1>5. QED BY <1>3, <1>4

\* Loading document and vacancy for a score keeps TypeInv.
LEMMA ScoreLoadDocumentType ==
  ASSUME TypeInv, NEW r \in Req, ScoreLoadDocument(r) PROVE TypeInv'
<1>1. At(r, Scoring, "score_document") /\ UNCHANGED <<tables, audit>>
  BY DEF ScoreLoadDocument
<1>2. /\ req[r] \in Request /\ Shape(req[r])
      /\ req[r].pc = "score_document" /\ req[r].kind \in Scoring
  BY <1>1, AtType
<1>3. req[r].done = {} /\ req[r].todo \subseteq {"vacancy"} /\ req[r].cand \in Candidate
  BY <1>2 DEF Shape, OnCandidate
<1>4. CASE Answer(r, "422") \/ Answer(r, "500")
  BY <1>4, <1>1, <1>2, AnswerType DEF Codes
<1> DEFINE q == [req[r] EXCEPT !.pc = "narrate"]
<1>5. /\ q \in Request /\ q.kind = req[r].kind /\ q.pc = "narrate"
      /\ q.cand = req[r].cand /\ q.todo = req[r].todo /\ q.done = {}
  BY <1>2, <1>3 DEF Request, Steps
<1>6. ASSUME NEW n \in Request, n.kind = q.kind, n.pc = q.pc, n.cand = q.cand,
             n.todo \subseteq {"vacancy"}, n.done = {}
      PROVE  Shape(n)
  BY <1>2, <1>3, <1>5, <1>6 DEF Shape, OnCandidate, Scoring
<1>7. CASE Become(r, q)
  BY <1>1, <1>3, <1>5, <1>6, <1>7, LocalType
<1>8. CASE Become(r, Embedded(q, r))
  <2> HIDE DEF q
  <2>1. Embedded(q, r) \in Request /\ Shape(Embedded(q, r))
    BY <1>3, <1>5, <1>6, EmbeddedType
  <2>2. QED BY <2>1, <1>1, <1>8, LocalType
<1>9. QED BY <1>4, <1>7, <1>8 DEF ScoreLoadDocument, Raise

\* Loading document and vacancy for a dossier keeps TypeInv.
LEMMA DossierLoadDocumentType ==
  ASSUME TypeInv, NEW r \in Req, DossierLoadDocument(r) PROVE TypeInv'
<1>1. At(r, {"dossier"}, "document") /\ UNCHANGED <<tables, audit>>
  BY DEF DossierLoadDocument
<1>2. /\ req[r] \in Request /\ Shape(req[r])
      /\ req[r].pc = "document" /\ req[r].kind = "dossier"
  BY <1>1, AtType
<1>3. req[r].done = {} /\ req[r].cand \in Candidate
  BY <1>2 DEF Shape, OnCandidate
<1>4. CASE Answer(r, "404")
  BY <1>4, <1>1, <1>2, AnswerType DEF Codes
<1> DEFINE q == [req[r] EXCEPT !.pc = "score_consent"]
           n == Embedded(q, r)
<1>5. CASE Become(r, n)
  <2>1. /\ q \in Request /\ q.kind = "dossier" /\ q.pc = "score_consent"
        /\ q.cand = req[r].cand /\ q.done = {}
    BY <1>2, <1>3 DEF Request, Steps
  <2> HIDE DEF q
  <2>2. /\ n \in Request /\ n.kind = "dossier" /\ n.pc = "score_consent"
        /\ n.cand = req[r].cand /\ n.done = {} /\ n.todo \subseteq {"vacancy"}
    BY <2>1, <1>3, EmbeddedType
  <2> HIDE DEF n
  <2>3. Shape(n)
    BY <2>2, <1>3 DEF Shape, OnCandidate, Scoring, Deleting
  <2>4. QED BY <2>2, <2>3, <1>1, <1>5, LocalType
<1>6. QED BY <1>4, <1>5 DEF DossierLoadDocument

\* generate_dossier's lookup, which remembers a status, keeps TypeInv.
LEMMA DossierGetCandidateType ==
  ASSUME TypeInv, NEW r \in Req, DossierGetCandidate(r) PROVE TypeInv'
<1>1. At(r, {"dossier"}, "begin") /\ UNCHANGED <<tables, audit>>
  BY DEF DossierGetCandidate
<1>2. /\ req[r] \in Request /\ Shape(req[r])
      /\ req[r].pc = "begin" /\ req[r].kind = "dossier"
  BY <1>1, AtType
<1>3. req[r].done = {} /\ req[r].todo = {} /\ req[r].cand \in Candidate
  BY <1>2 DEF Shape, OnCandidate
<1>4. CASE Answer(r, "404")
  BY <1>4, <1>1, <1>2, AnswerType DEF Codes
<1> DEFINE q == [req[r] EXCEPT !.pc = "consent", !.status = cand[req[r].cand]]
<1>5. CASE Become(r, q)
  <2>1. cand[req[r].cand] \in CandStatus
    BY <1>3 DEF TypeInv, TypeOK
  <2>2. q \in Request
    BY <2>1, <1>2 DEF Request, Steps
  <2>3. /\ q.kind = "dossier" /\ q.pc = "consent" /\ q.cand = req[r].cand
        /\ q.todo = {} /\ q.done = {}
    BY <1>2, <1>3 DEF Request
  <2>4. Shape(q)
    BY <2>3, <1>3 DEF Shape, OnCandidate, Scoring, Deleting
  <2>5. QED BY <2>2, <2>4, <1>1, <1>5, LocalType
<1>6. QED BY <1>4, <1>5 DEF DossierGetCandidate

-----------------------------------------------------------------------------
(* The steps that prepare a flush, and those that follow a commit.          *)

\* A request that starts a flush keeps its other fields.
LEMMA FlushingType ==
  ASSUME NEW q \in Request, NEW p \in {"score_flush", "flush"},
         NEW T \in SUBSET Statement, NEW w \in T \cup {"none"}
  PROVE  LET n == Flushing(q, p, T, w)
         IN /\ n \in Request
            /\ n.kind = q.kind /\ n.cand = q.cand /\ n.status = q.status
            /\ n.draft = q.draft /\ n.done = q.done /\ n.queue = q.queue
            /\ n.pc = p /\ n.todo = T
<1> DEFINE n == Flushing(q, p, T, w)
<1>1. w \in Statement \cup {"none"}
  OBVIOUS
<1>2. n \in Request
  BY <1>1, ZenonT(60) DEF Flushing, Request, Steps
<1>3. /\ n.kind = q.kind /\ n.cand = q.cand /\ n.status = q.status
      /\ n.draft = q.draft /\ n.done = q.done /\ n.queue = q.queue
      /\ n.pc = p /\ n.todo = T
  BY DEF Flushing, Request
<1>4. QED BY <1>2, <1>3

\* What the score's handler is about to write: a result, some of its columns, and an
\* INSERT just when it found no row.
LEMMA NarratesDraft ==
  ASSUME NEW r \in Req, ScoreNarrate(r)
  PROVE  \E v \in Result, S \in SUBSET Column, W \in SUBSET {"insScore", "updScore"} :
           /\ "insScore" \in W <=> score[req[r].cand] = NoRow
           /\ \E w \in Upcoming(req[r].todo \cup W) :
                Become(r, Flushing([req[r] EXCEPT !.draft = v, !.sets = S],
                                   "score_flush", req[r].todo \cup W, w))
<1> DEFINE row == score[req[r].cand]
           S(v) == IF row = NoRow THEN {} ELSE ScoreColumns(Scored(v), row)
           W(v, b) == IF row = NoRow THEN {"insScore"}
                      ELSE IF S(v) # {} \/ b THEN {"updScore"} ELSE {}
<1>1. PICK v \in Value, b \in Rewording : \E w \in Upcoming(req[r].todo \cup W(v, b)) :
        Become(r, Flushing([req[r] EXCEPT !.draft = Scored(v), !.sets = S(v)],
                           "score_flush", req[r].todo \cup W(v, b), w))
  BY DEF ScoreNarrate
<1>2. Scored(v) \in Result
  BY ResultType
<1>3. S(v) \in SUBSET Column
  BY DEF ScoreColumns, Column
<1>4. /\ W(v, b) \in SUBSET {"insScore", "updScore"}
      /\ "insScore" \in W(v, b) <=> row = NoRow
  OBVIOUS
<1> HIDE DEF S, W
<1>5. QED BY <1>1, <1>2, <1>3, <1>4

\* What the dossier's handler is about to write, likewise; and the candidate's status
\* unless it was "analyzed" when it was loaded.
LEMMA ComposesDossier ==
  ASSUME NEW r \in Req, DossierCompose(r)
  PROVE  \E S \in SUBSET Column, W \in SUBSET {"insDossier", "updDossier"} :
           /\ "insDossier" \in W <=> dossier[req[r].cand] = NoRow
           /\ LET T == W \cup (IF req[r].status = "analyzed" THEN {} ELSE {"updCand"})
              IN \E w \in Upcoming(T) :
                   Become(r, Flushing([req[r] EXCEPT !.sets = S], "flush", T, w))
<1> DEFINE row == dossier[req[r].cand]
           S(b) == IF row = NoRow THEN {} ELSE DossierColumns(req[r].draft, row, b)
           W(b, e) == IF row = NoRow THEN {"insDossier"}
                      ELSE IF S(b) # {} \/ e THEN {"updDossier"} ELSE {}
           T(b, e) == W(b, e) \cup (IF req[r].status = "analyzed" THEN {} ELSE {"updCand"})
<1>1. PICK b \in Rewording, e \in Rewording : \E w \in Upcoming(T(b, e)) :
        Become(r, Flushing([req[r] EXCEPT !.sets = S(b)], "flush", T(b, e), w))
  BY DEF DossierCompose
<1>2. S(b) \in SUBSET Column
  BY DEF DossierColumns, Column
<1>3. /\ W(b, e) \in SUBSET {"insDossier", "updDossier"}
      /\ "insDossier" \in W(b, e) <=> row = NoRow
  OBVIOUS
<1> HIDE DEF S, W
<1>4. QED BY <1>1, <1>2, <1>3

\* Composing the score's flush keeps TypeInv.
LEMMA ScoreNarrateType ==
  ASSUME TypeInv, NEW r \in Req, ScoreNarrate(r) PROVE TypeInv'
<1>1. At(r, Scoring, "narrate") /\ UNCHANGED <<tables, audit>>
  BY DEF ScoreNarrate
<1>2. /\ req[r] \in Request /\ Shape(req[r])
      /\ req[r].pc = "narrate" /\ req[r].kind \in Scoring
  BY <1>1, AtType
<1>3. req[r].done = {} /\ req[r].todo \subseteq {"vacancy"} /\ req[r].cand \in Candidate
  BY <1>2 DEF Shape, OnCandidate
<1>4. PICK v \in Result, S \in SUBSET Column, W \in SUBSET {"insScore", "updScore"} :
        \E w \in Upcoming(req[r].todo \cup W) :
          Become(r, Flushing([req[r] EXCEPT !.draft = v, !.sets = S], "score_flush",
                             req[r].todo \cup W, w))
  BY NarratesDraft
<1> DEFINE T == req[r].todo \cup W
           d == [req[r] EXCEPT !.draft = v, !.sets = S]
<1>5. PICK w \in Upcoming(T) : Become(r, Flushing(d, "score_flush", T, w))
  BY <1>4
<1>6. T \in SUBSET Statement /\ T \subseteq {"vacancy", "insScore", "updScore"}
  BY <1>3 DEF Statement, RowStatement, KeyShare, Updates
<1>7. w \in T \cup {"none"}
  BY <1>6, UpcomingType
<1>8. /\ d \in Request /\ d.kind = req[r].kind /\ d.cand = req[r].cand
      /\ d.done = {} /\ d.draft = v
  BY <1>2, <1>3 DEF Request
<1> DEFINE n == Flushing(d, "score_flush", T, w)
<1> HIDE DEF T, d
<1>9. /\ n \in Request /\ n.kind = d.kind /\ n.cand = d.cand
      /\ n.draft = v /\ n.done = {} /\ n.pc = "score_flush" /\ n.todo = T
  BY <1>6, <1>7, <1>8, FlushingType
<1> HIDE DEF n
<1>10. Shape(n)
  BY <1>2, <1>3, <1>6, <1>8, <1>9 DEF Shape, OnCandidate, Planned, Scoring
<1>11. Become(r, n)
  BY <1>5 DEF n
<1>12. QED BY <1>1, <1>9, <1>10, <1>11, LocalType

\* Composing the dossier's flush keeps TypeInv.
LEMMA DossierComposeType ==
  ASSUME TypeInv, NEW r \in Req, DossierCompose(r) PROVE TypeInv'
<1>1. At(r, {"dossier"}, "compose") /\ UNCHANGED <<tables, audit>>
  BY DEF DossierCompose
<1>2. /\ req[r] \in Request /\ Shape(req[r])
      /\ req[r].pc = "compose" /\ req[r].kind = "dossier"
  BY <1>1, AtType
<1>3. req[r].done = {} /\ req[r].draft \in Result /\ req[r].cand \in Candidate
  BY <1>2 DEF Shape, OnCandidate
<1>4. PICK S \in SUBSET Column, W \in SUBSET {"insDossier", "updDossier"} :
        LET T == W \cup (IF req[r].status = "analyzed" THEN {} ELSE {"updCand"})
        IN \E w \in Upcoming(T) :
             Become(r, Flushing([req[r] EXCEPT !.sets = S], "flush", T, w))
  BY ComposesDossier
<1> DEFINE T == W \cup (IF req[r].status = "analyzed" THEN {} ELSE {"updCand"})
           d == [req[r] EXCEPT !.sets = S]
<1>5. PICK w \in Upcoming(T) : Become(r, Flushing(d, "flush", T, w))
  BY <1>4
<1>6. /\ T \in SUBSET Statement /\ T \subseteq {"insDossier", "updDossier", "updCand"}
      /\ req[r].status = "analyzed" \/ "updCand" \in T
  BY DEF Statement, RowStatement, KeyShare, Updates
<1>7. w \in T \cup {"none"}
  BY <1>6, UpcomingType
<1> DEFINE n == Flushing(d, "flush", T, w)
<1>12. /\ d \in Request /\ d.kind = "dossier" /\ d.cand = req[r].cand
       /\ d.status = req[r].status /\ d.draft = req[r].draft /\ d.done = {}
  BY <1>2, <1>3 DEF Request
<1> HIDE DEF T, d
<1>8. /\ n \in Request /\ n.kind = "dossier" /\ n.cand = req[r].cand
      /\ n.status = req[r].status /\ n.draft = req[r].draft
      /\ n.done = {} /\ n.pc = "flush" /\ n.todo = T
  BY <1>12, <1>6, <1>7, FlushingType
<1> HIDE DEF n
<1>9. Shape(n)
  BY <1>3, <1>6, <1>8 DEF Shape, OnCandidate, Planned, Scoring, Deleting
<1>10. Become(r, n)
  BY <1>5 DEF n
<1>11. QED BY <1>1, <1>8, <1>9, <1>10, LocalType

\* Composing the decision's flush keeps TypeInv.
LEMMA DecisionReadDossierType ==
  ASSUME TypeInv, NEW r \in Req, DecisionReadDossier(r) PROVE TypeInv'
<1>1. At(r, {"decision"}, "decide") /\ UNCHANGED <<tables, audit>>
  BY DEF DecisionReadDossier
<1>2. /\ req[r] \in Request /\ Shape(req[r])
      /\ req[r].pc = "decide" /\ req[r].kind = "decision"
  BY <1>1, AtType
<1>3. req[r].done = {} /\ req[r].cand \in Candidate
  BY <1>2 DEF Shape, OnCandidate
<1> DEFINE v == dossier[req[r].cand].recommendation
           d == [req[r] EXCEPT !.draft = v]
           n == Flushing(d, "flush", {"insDecision"}, "insDecision")
<1>4. CASE Answer(r, "409")
  BY <1>4, <1>1, <1>2, AnswerType DEF Codes
<1>5. CASE dossier[req[r].cand] # NoRow /\ Become(r, n)
  <2>1. v \in Grade
    BY <1>3, <1>5 DEF TypeInv, TypeOK, Report
  <2> HIDE DEF v
  <2>2. /\ d \in Request /\ d.kind = "decision" /\ d.cand = req[r].cand
        /\ d.done = {} /\ d.draft = v
    BY <2>1, <1>2, <1>3 DEF Request
  <2> HIDE DEF d
  <2>3. {"insDecision"} \in SUBSET Statement
    BY DEF Statement, RowStatement, KeyShare
  <2>4. /\ n \in Request /\ n.kind = "decision" /\ n.cand = req[r].cand
        /\ n.draft = v /\ n.done = {} /\ n.pc = "flush" /\ n.todo = {"insDecision"}
    BY <2>2, <2>3, FlushingType
  <2> HIDE DEF n
  <2>5. Shape(n)
    BY <2>1, <2>4, <1>3 DEF Shape, OnCandidate, Planned, Scoring, Deleting
  <2>6. QED BY <2>4, <2>5, <1>1, <1>5, LocalType
<1>6. QED BY <1>4, <1>5 DEF DecisionReadDossier

\* Composing the upload's flush keeps TypeInv.
LEMMA ParseCvType == ASSUME TypeInv, NEW r \in Req, ParseCv(r) PROVE TypeInv'
<1>1. At(r, {"upload"}, "begin") /\ UNCHANGED <<tables, audit>>
  BY DEF ParseCv
<1>2. /\ req[r] \in Request /\ Shape(req[r])
      /\ req[r].pc = "begin" /\ req[r].kind = "upload"
  BY <1>1, AtType
<1>3. req[r].done = {} /\ req[r].cand \in Candidate
  BY <1>2 DEF Shape, OnCandidate
<1> DEFINE n == Flushing(req[r], "flush", {"insCand"}, "insCand")
<1>4. CASE \E code \in {"404", "400", "413"} : Answer(r, code)
  BY <1>4, <1>1, <1>2, AnswerType DEF Codes
<1>5. CASE Become(r, n)
  <2>1. {"insCand"} \in SUBSET Statement
    BY DEF Statement, RowStatement
  <2>2. /\ n \in Request /\ n.kind = "upload" /\ n.cand = req[r].cand
        /\ n.done = {} /\ n.pc = "flush" /\ n.todo = {"insCand"}
    BY <2>1, <1>2, <1>3, FlushingType
  <2> HIDE DEF n
  <2>3. Shape(n)
    BY <2>2, <1>3 DEF Shape, OnCandidate, Planned, Scoring, Deleting
  <2>4. QED BY <2>2, <2>3, <1>1, <1>5, LocalType
<1>6. QED BY <1>4, <1>5 DEF ParseCv

\* The reads of an export keep TypeInv.
LEMMA ExportReadType ==
  ASSUME TypeInv, NEW r \in Req,
         ExportReadDossier(r) \/ ExportReadScore(r) \/ ExportReadDecision(r)
  PROVE  TypeInv'
<1>1. CASE ExportReadDossier(r)
  <2>1. At(r, {"export"}, "export") /\ UNCHANGED <<tables, audit>>
    BY <1>1 DEF ExportReadDossier
  <2>2. /\ req[r] \in Request /\ Shape(req[r])
        /\ req[r].pc = "export" /\ req[r].kind = "export"
    BY <2>1, AtType
  <2>3. req[r].done = {} /\ req[r].todo = {} /\ req[r].cand \in Candidate
    BY <2>2 DEF Shape, OnCandidate
  <2>4. CASE Answer(r, "409")
    BY <2>4, <2>1, <2>2, AnswerType DEF Codes
  <2>5. CASE Goto(r, "export_score")
    <3>1. /\ [req[r] EXCEPT !.pc = "export_score"] \in Request
          /\ Shape([req[r] EXCEPT !.pc = "export_score"])
      BY <2>2, <2>3, MoveShape
    <3>2. QED BY <3>1, <2>1, <2>5, LocalType DEF Goto
  <2>6. QED BY <1>1, <2>4, <2>5 DEF ExportReadDossier
<1>2. CASE ExportReadScore(r)
  <2>1. At(r, {"export"}, "export_score") /\ UNCHANGED <<tables, audit>>
    BY <1>2 DEF ExportReadScore
  <2>2. /\ req[r] \in Request /\ Shape(req[r])
        /\ req[r].pc = "export_score" /\ req[r].kind = "export"
    BY <2>1, AtType
  <2>3. req[r].done = {} /\ req[r].todo = {} /\ req[r].cand \in Candidate
    BY <2>2 DEF Shape, OnCandidate
  <2> DEFINE q == [req[r] EXCEPT !.pc = "export_decision", !.draft = score[req[r].cand]]
  <2>4. score[req[r].cand] \in Result \cup {NoRow}
    BY <2>3 DEF TypeInv, TypeOK
  <2>5. q \in Request
    BY <2>4, <2>2 DEF Request, Steps
  <2>6. /\ q.kind = "export" /\ q.pc = "export_decision" /\ q.cand = req[r].cand
        /\ q.todo = {} /\ q.done = {}
    BY <2>2, <2>3 DEF Request
  <2>7. Shape(q)
    BY <2>6, <2>3 DEF Shape, OnCandidate, Scoring, Deleting
  <2>8. QED BY <1>2, <2>1, <2>5, <2>7, LocalType DEF ExportReadScore
<1>4. CASE ExportReadDecision(r)
  <2>1. At(r, {"export"}, "export_decision") /\ UNCHANGED <<tables, audit>>
    BY <1>4 DEF ExportReadDecision
  <2>2. /\ req[r] \in Request /\ Shape(req[r])
        /\ req[r].pc = "export_decision" /\ req[r].kind = "export"
    BY <2>1, AtType
  <2>3. req[r].done = {} /\ req[r].todo = {} /\ req[r].cand \in Candidate
    BY <2>2 DEF Shape, OnCandidate
  <2> DEFINE q == [req[r] EXCEPT !.pc = "flush"]
  <2>4. CASE Answer(r, "409")
    BY <2>4, <2>1, <2>2, AnswerType DEF Codes
  <2>5. CASE Goto(r, "flush")
    <3>1. q \in Request
      BY <2>2 DEF Request, Steps
    <3>2. /\ q.kind = "export" /\ q.pc = "flush" /\ q.cand = req[r].cand
          /\ q.todo = {} /\ q.done = {}
      BY <2>2, <2>3 DEF Request
    <3>3. Shape(q)
      BY <3>2, <2>3 DEF Shape, OnCandidate, Scoring, Deleting, Planned
    <3>4. QED BY <3>1, <3>3, <2>1, <2>5, LocalType DEF Goto
  <2>6. QED BY <1>4, <2>4, <2>5 DEF ExportReadDecision
<1>3. QED BY <1>1, <1>2, <1>4

\* The refresh of a score keeps TypeInv, alone and in a dossier.
LEMMA ScoreRefreshType ==
  ASSUME TypeInv, NEW r \in Req, ScoreRefresh(r) PROVE TypeInv'
<1>1. At(r, Scoring, "score_refresh") /\ UNCHANGED <<tables, audit>>
  BY DEF ScoreRefresh
<1>2. /\ req[r] \in Request /\ Shape(req[r])
      /\ req[r].pc = "score_refresh" /\ req[r].kind \in Scoring
  BY <1>1, AtType
<1>3. req[r].done = {} /\ req[r].todo = {} /\ req[r].cand \in Candidate
  BY <1>2 DEF Shape, OnCandidate
<1> DEFINE v == score[req[r].cand]
           q == [req[r] EXCEPT !.pc = "compose", !.draft = v]
<1>4. CASE Answer(r, "500") \/ Answer(r, "ok")
  BY <1>4, <1>1, <1>2, AnswerType DEF Codes
<1>5. CASE v # NoRow /\ req[r].kind = "dossier" /\ Become(r, q)
  <2>1. v \in Result
    BY <1>3, <1>5 DEF TypeInv, TypeOK
  <2> HIDE DEF v
  <2>2. q \in Request
    BY <2>1, <1>2 DEF Request, Steps
  <2>3. /\ q.kind = "dossier" /\ q.pc = "compose" /\ q.cand = req[r].cand
        /\ q.todo = {} /\ q.done = {} /\ q.draft = v
    BY <1>2, <1>3, <1>5 DEF Request
  <2> HIDE DEF q
  <2>4. Shape(q)
    BY <2>1, <2>3, <1>3 DEF Shape, OnCandidate, Scoring, Deleting
  <2>5. QED BY <2>2, <2>4, <1>1, <1>5, LocalType
<1>6. QED BY <1>2, <1>4, <1>5 DEF ScoreRefresh, Scoring

\* After its commit, an upload, a dossier or a decision is only answered.
LEMMA RefreshType ==
  ASSUME TypeInv, NEW r \in Req,
         CreateCandidateRefresh(r) \/ DossierRefresh(r) \/ DecisionRefresh(r)
  PROVE  TypeInv'
<1>1. req[r].pc = "refresh" /\ UNCHANGED <<tables, audit>>
  BY DEF CreateCandidateRefresh, DossierRefresh, DecisionRefresh, At
<1>2. Answer(r, "ok") \/ Answer(r, "500")
  BY DEF CreateCandidateRefresh, DossierRefresh, DecisionRefresh
<1>3. QED BY <1>1, <1>2, AnswerType DEF Codes

\* A request about to purge a candidate is of the shape of one.
LEMMA PurgingType ==
  ASSUME NEW q \in Request, q.kind \in Deleting, q.done = {}, NEW c \in Candidate
  PROVE  LET n == Purging(q, c)
         IN /\ n \in Request /\ Shape(n)
            /\ n.kind = q.kind /\ n.cand = c /\ n.queue = q.queue \ {c}
            /\ n.pc = "flush" /\ n.todo = Purge /\ n.done = {}
<1> DEFINE d == [q EXCEPT !.cand = c, !.queue = q.queue \ {c}]
           n == Flushing(d, "flush", Purge, "delDecisions")
<1>1. /\ d \in Request /\ d.kind = q.kind /\ d.cand = c
      /\ d.done = {} /\ d.queue = q.queue \ {c}
  BY DEF Request
<1>2. "delDecisions" \in Purge /\ Purge \in SUBSET Statement
  BY DEF Purge, Statement, RowStatement
<1>3. Purging(q, c) = n
  BY DEF Purging, PurgeOrder
<1> HIDE DEF d
<1>4. /\ n \in Request /\ n.kind = q.kind /\ n.cand = c /\ n.queue = q.queue \ {c}
      /\ n.done = {} /\ n.pc = "flush" /\ n.todo = Purge
  BY <1>1, <1>2, FlushingType
<1> HIDE DEF n
<1>5. Shape(n)
  BY <1>4 DEF Shape, OnCandidate, Planned, Scoring, Deleting
<1>6. QED BY <1>3, <1>4, <1>5

\* delete_candidate's lookup keeps TypeInv.
LEMMA DeleteGetCandidateType ==
  ASSUME TypeInv, NEW r \in Req, DeleteGetCandidate(r) PROVE TypeInv'
<1>1. At(r, {"delete"}, "begin") /\ UNCHANGED <<tables, audit>>
  BY DEF DeleteGetCandidate
<1>2. /\ req[r] \in Request /\ Shape(req[r])
      /\ req[r].pc = "begin" /\ req[r].kind = "delete"
  BY <1>1, AtType
<1>3. req[r].done = {} /\ req[r].cand \in Candidate
  BY <1>2 DEF Shape, OnCandidate
<1>4. CASE Answer(r, "404")
  BY <1>4, <1>1, <1>2, AnswerType DEF Codes
<1>5. CASE Become(r, Purging(req[r], req[r].cand))
  BY <1>5, <1>1, <1>2, <1>3, PurgingType, LocalType DEF Deleting
<1>6. QED BY <1>4, <1>5 DEF DeleteGetCandidate

\* The list of a sweep keeps TypeInv.
LEMMA FindExpiredType ==
  ASSUME TypeInv, NEW r \in Req, FindExpired(r) PROVE TypeInv'
<1>1. At(r, {"ttl"}, "begin") /\ UNCHANGED <<tables, audit>>
  BY DEF FindExpired
<1>2. /\ req[r] \in Request /\ Shape(req[r])
      /\ req[r].pc = "begin" /\ req[r].kind = "ttl"
  BY <1>1, AtType
<1>3. req[r].done = {}
  BY <1>2 DEF Shape
<1>4. CASE Answer(r, "ok")
  BY <1>4, <1>1, <1>2, AnswerType DEF Codes
<1>5. ASSUME NEW expired \in SUBSET Candidate, NEW c \in expired,
             Become(r, Purging([req[r] EXCEPT !.queue = expired, !.batch = expired], c))
      PROVE  TypeInv'
  <2> DEFINE q == [req[r] EXCEPT !.queue = expired, !.batch = expired]
  <2>1. q \in Request /\ q.kind = "ttl" /\ q.done = {}
    BY <1>2, <1>3 DEF Request
  <2>2. Purging(q, c) \in Request /\ Shape(Purging(q, c))
    BY <2>1, PurgingType DEF Deleting
  <2>3. QED BY <2>2, <1>1, <1>5, LocalType
<1>6. QED BY <1>4, <1>5 DEF FindExpired

-----------------------------------------------------------------------------
(* The commits.                                                             *)

\* The statements that write what a handler computed or quoted.
Written == {"insScore", "updScore", "insDossier", "updDossier"}
Drafted(q) ==
  /\ q.done \cap Written # {} => q.draft \in Result
  /\ "insDecision" \in q.done => q.draft \in Grade

\* What a transaction writes is well typed when its draft is.
LEMMA CommitTablesType ==
  ASSUME TypeOK, NEW r \in Req, req[r].cand \in Candidate, CommitTables(r),
         Drafted(req[r])
  PROVE  /\ cand' \in [Candidate -> CandStatus]
         /\ docs' \subseteq Candidate /\ consents' \subseteq Candidate
         /\ score' \in [Candidate -> Result \cup {NoRow}]
         /\ dossier' \in [Candidate -> Report \cup {NoRow}]
         /\ decisions' \subseteq Decision
         /\ embedding' \in [Vacancy -> Req \cup {NoRow}]
<1> DEFINE c == req[r].cand
           D == req[r].done
<1>1. cand' \in [Candidate -> CandStatus]
  BY DEF CommitTables, TypeOK, CandStatus
<1>2. docs' \subseteq Candidate /\ consents' \subseteq Candidate
  BY DEF CommitTables, TypeOK
<1>3. score' \in [Candidate -> Result \cup {NoRow}]
  <2>1. "insScore" \in D => req[r].draft \in Result
    BY DEF Drafted, Written
  <2>2. "updScore" \in D => PatchScore(score[c], req[r]) \in Result \cup {NoRow}
    BY ResultType DEF Drafted, Written, TypeOK
  <2>3. QED BY <2>1, <2>2 DEF CommitTables, TypeOK
<1>4. dossier' \in [Candidate -> Report \cup {NoRow}]
  <2>1. "insDossier" \in D => Reporting(req[r].draft) \in Report
    BY ResultType DEF Drafted, Written
  <2>2. "updDossier" \in D => PatchDossier(dossier[c], req[r]) \in Report \cup {NoRow}
    BY ResultType DEF Drafted, Written, TypeOK
  <2>3. QED BY <2>1, <2>2 DEF CommitTables, TypeOK
<1>5. decisions' \subseteq Decision
  <2>1. CASE "insDecision" \in D
    <3>1. [cand |-> c, by |-> r, ai |-> req[r].draft] \in Decision
      BY <2>1 DEF Decision, Drafted
    <3>2. decisions' = decisions \cup {[cand |-> c, by |-> r, ai |-> req[r].draft]}
      BY <2>1 DEF CommitTables
    <3>3. QED BY <3>1, <3>2 DEF TypeOK
  <2>2. CASE "insDecision" \notin D
    BY <2>2 DEF CommitTables, TypeOK
  <2>3. QED BY <2>1, <2>2
<1>6. embedding' \in [Vacancy -> Req \cup {NoRow}]
  BY DEF CommitTables, TypeOK
<1>7. QED BY <1>1, <1>2, <1>3, <1>4, <1>5, <1>6

\* A commit keeps TypeInv, if it leaves the request in a shape of its position.
LEMMA CommitType ==
  ASSUME TypeInv, NEW r \in Req, req[r].cand \in Candidate, Drafted(req[r]),
         NEW event \in Events, NEW result \in Result \cup Grade \cup {NoRow},
         NEW rows \in SUBSET Statement, NEW q \in Request, Shape(q),
         Commit(r, event, result, rows, q)
  PROVE  TypeInv'
<1>1. CommitTables(r) /\ Become(r, q)
  BY DEF Commit
<1>2. /\ cand' \in [Candidate -> CandStatus]
      /\ docs' \subseteq Candidate /\ consents' \subseteq Candidate
      /\ score' \in [Candidate -> Result \cup {NoRow}]
      /\ dossier' \in [Candidate -> Report \cup {NoRow}]
      /\ decisions' \subseteq Decision
      /\ embedding' \in [Vacancy -> Req \cup {NoRow}]
  BY <1>1, CommitTablesType DEF TypeInv
<1>3. audit' \subseteq AuditRow
  <2>1. req[r].basis \in Req \cup {NoRow}
    BY DEF TypeInv, TypeOK, Request
  <2>3. AuditEntry(event, req[r].cand, r, result, rows, req[r].basis) \in AuditRow
    BY <2>1 DEF AuditEntry, AuditRow
  <2>2. QED BY <2>3 DEF Commit, TypeInv, TypeOK
<1>4. req' \in [Req -> Request] /\ \A s \in Req : Shape(req'[s])
  BY <1>1 DEF TypeInv, TypeOK, Become
<1>5. QED BY <1>2, <1>3, <1>4 DEF TypeInv, TypeOK

\* After its commit a request that is not a deletion has nothing left to send.
LEMMA CommittedShape ==
  ASSUME NEW q \in Request, Shape(q), q.todo = {}, q.cand \in Candidate,
         NEW p \in {"score_refresh", "refresh"},
         p = "score_refresh" => q.kind \in Scoring,
         p = "refresh" => q.kind \in {"upload", "dossier", "decision"}
  PROVE  Committed(q, p) \in Request /\ Shape(Committed(q, p))
<1> DEFINE n == Committed(q, p)
<1>1. n \in Request
  BY ZenonT(60) DEF Committed, Request, Steps
<1>2. /\ n.kind = q.kind /\ n.cand = q.cand /\ n.pc = p
      /\ n.todo = {} /\ n.done = {}
  BY DEF Committed, Request
<1> HIDE DEF n
<1>3. Shape(n)
  BY <1>2 DEF Shape, OnCandidate, Scoring, Deleting
<1>4. QED BY <1>1, <1>3 DEF n

\* A commit keeps TypeInv.
LEMMA CommitStepType ==
  ASSUME TypeInv, NEW r \in Req,
         \/ CreateCandidateCommit(r) \/ ScoreCommit(r)
         \/ DossierCommit(r) \/ DecisionCommit(r)
  PROVE  TypeInv'
<1>1. CASE CreateCandidateCommit(r)
  <2>1. /\ At(r, {"upload"}, "flush") /\ req[r].todo = {}
        /\ Commit(r, "cv_parsed", NoRow, {}, Committed(req[r], "refresh"))
    BY <1>1 DEF CreateCandidateCommit, Commit
  <2>2. /\ req[r] \in Request /\ Shape(req[r])
        /\ req[r].kind = "upload" /\ req[r].pc = "flush"
    BY <2>1, AtType
  <2>3. req[r].cand \in Candidate /\ Drafted(req[r])
    BY <2>2 DEF Shape, OnCandidate, Planned, Written, Drafted
  <2>4. /\ Committed(req[r], "refresh") \in Request
        /\ Shape(Committed(req[r], "refresh"))
    BY <2>1, <2>2, <2>3, CommittedShape
  <2>5. "cv_parsed" \in Events /\ {} \in SUBSET Statement
    BY DEF Events
  <2>6. QED BY <2>1, <2>3, <2>4, <2>5, CommitType
<1>2. CASE ScoreCommit(r)
  <2>1. /\ At(r, Scoring, "score_flush") /\ req[r].todo = {}
        /\ Commit(r, "score_computed", req[r].draft, req[r].done \cap {"vacancy"},
                  Committed(req[r], "score_refresh"))
    BY <1>2 DEF ScoreCommit, Commit
  <2>2. /\ req[r] \in Request /\ Shape(req[r])
        /\ req[r].kind \in Scoring /\ req[r].pc = "score_flush"
    BY <2>1, AtType
  <2>3. req[r].cand \in Candidate /\ req[r].draft \in Result /\ Drafted(req[r])
    BY <2>2 DEF Shape, OnCandidate, Planned, Drafted
  <2>4. /\ Committed(req[r], "score_refresh") \in Request
        /\ Shape(Committed(req[r], "score_refresh"))
    BY <2>1, <2>2, <2>3, CommittedShape
  <2>5. "score_computed" \in Events /\ req[r].done \cap {"vacancy"} \in SUBSET Statement
    BY DEF Events, Statement
  <2>6. QED BY <2>1, <2>3, <2>4, <2>5, CommitType
<1>3. CASE DossierCommit(r)
  <2>1. /\ At(r, {"dossier"}, "flush") /\ req[r].todo = {}
        /\ Commit(r, "dossier_generated", req[r].draft, {}, Committed(req[r], "refresh"))
    BY <1>3 DEF DossierCommit, Commit
  <2>2. /\ req[r] \in Request /\ Shape(req[r])
        /\ req[r].kind = "dossier" /\ req[r].pc = "flush"
    BY <2>1, AtType
  <2>3. req[r].cand \in Candidate /\ req[r].draft \in Result /\ Drafted(req[r])
    BY <2>2 DEF Shape, OnCandidate, Planned, Drafted
  <2>4. /\ Committed(req[r], "refresh") \in Request
        /\ Shape(Committed(req[r], "refresh"))
    BY <2>1, <2>2, <2>3, CommittedShape
  <2>5. "dossier_generated" \in Events /\ {} \in SUBSET Statement
    BY DEF Events
  <2>6. QED BY <2>1, <2>3, <2>4, <2>5, CommitType
<1>4. CASE DecisionCommit(r)
  <2>1. /\ At(r, {"decision"}, "flush") /\ req[r].todo = {}
        /\ Commit(r, "decision_recorded", req[r].draft, {}, Committed(req[r], "refresh"))
    BY <1>4 DEF DecisionCommit, Commit
  <2>2. /\ req[r] \in Request /\ Shape(req[r])
        /\ req[r].kind = "decision" /\ req[r].pc = "flush"
    BY <2>1, AtType
  <2>3. req[r].cand \in Candidate /\ req[r].draft \in Grade /\ Drafted(req[r])
    BY <2>2 DEF Shape, OnCandidate, Planned, Drafted, Written
  <2>4. /\ Committed(req[r], "refresh") \in Request
        /\ Shape(Committed(req[r], "refresh"))
    BY <2>1, <2>2, <2>3, CommittedShape
  <2>5. "decision_recorded" \in Events /\ {} \in SUBSET Statement
    BY DEF Events
  <2>6. QED BY <2>1, <2>3, <2>4, <2>5, CommitType
<1>5. QED BY <1>1, <1>2, <1>3, <1>4

\* The commit of an export's audit event keeps TypeInv.
LEMMA ExportCommitType == ASSUME TypeInv, NEW r \in Req, ExportCommit(r) PROVE TypeInv'
<1>1. /\ At(r, {"export"}, "flush")
      /\ Commit(r, "pdf_exported", NoRow, {}, Answered(req[r], "ok"))
  BY DEF ExportCommit
<1>2. /\ req[r] \in Request /\ Shape(req[r])
      /\ req[r].kind = "export" /\ req[r].pc = "flush"
  BY <1>1, AtType
<1>3. req[r].cand \in Candidate /\ Drafted(req[r])
  BY <1>2 DEF Shape, OnCandidate, Planned, Drafted
<1>4. Answered(req[r], "ok") \in Request /\ Shape(Answered(req[r], "ok"))
  BY <1>2, AnsweredShape DEF Codes
<1>5. "pdf_exported" \in Events /\ {} \in SUBSET Statement
  BY DEF Events
<1>6. QED BY <1>1, <1>3, <1>4, <1>5, CommitType

\* The commit of a deletion keeps TypeInv, in a sweep with the rest of the list.
LEMMA DeleteCommitType == ASSUME TypeInv, NEW r \in Req, DeleteCommit(r) PROVE TypeInv'
<1> DEFINE rows == req[r].done \ {"delCand", "cascade"}
<1>1. At(r, Deleting, "flush")
  BY DEF DeleteCommit
<1>2. /\ req[r] \in Request /\ Shape(req[r])
      /\ req[r].kind \in Deleting /\ req[r].pc = "flush"
  BY <1>1, AtType
<1>3. /\ req[r].cand \in Candidate /\ Drafted(req[r])
      /\ rows \in SUBSET Statement
  <2>1. req[r].cand \in Candidate /\ req[r].done \subseteq Purge
    BY <1>2 DEF Shape, OnCandidate, Planned, Deleting
  <2>2. QED BY <2>1 DEF Purge, Written, Drafted, Statement, RowStatement
<1>4. "candidate_deleted" \in Events
  BY DEF Events
<1>5. CASE Commit(r, "candidate_deleted", NoRow, rows, Answered(req[r], "ok"))
  <2>1. Answered(req[r], "ok") \in Request /\ Shape(Answered(req[r], "ok"))
    BY <1>2, AnsweredShape DEF Codes, Deleting
  <2>2. QED BY <1>5, <1>3, <1>4, <2>1, CommitType
<1>6. ASSUME NEW c \in req[r].queue,
             Commit(r, "candidate_deleted", NoRow, rows,
                    Purging(Committed(req[r], "flush"), c))
      PROVE  TypeInv'
  <2> DEFINE q == Committed(req[r], "flush")
  <2>1. /\ q \in Request /\ q.kind = req[r].kind /\ q.done = {}
        /\ c \in Candidate
    BY <1>2 DEF Committed, Request, Steps
  <2> HIDE DEF q
  <2>2. Purging(q, c) \in Request /\ Shape(Purging(q, c))
    BY <2>1, <1>2, PurgingType
  <2>3. Commit(r, "candidate_deleted", NoRow, rows, Purging(q, c))
    BY <1>6 DEF q
  <2>4. QED BY <2>3, <1>3, <1>4, <2>2, CommitType
<1>7. QED BY <1>5, <1>6 DEF DeleteCommit

-----------------------------------------------------------------------------
\* A failure and the end of a deadlock, which roll a transaction back, keep TypeInv.
LEMMA AbortType ==
  ASSUME TypeInv, NEW r \in Req, Fail(r) \/ BreakDeadlock(r) PROVE TypeInv'
<1>1. CASE Fail(r)
  BY <1>1, AnswerType DEF Fail, Active, Codes
<1>2. CASE BreakDeadlock(r)
  <2>1. PICK s \in Req : Waits(r, s)
    BY <1>2 DEF BreakDeadlock
  <2>2. req[r].pc # "idle"
    BY <2>1 DEF Waits, TypeInv, Shape
  <2>3. QED BY <1>2, <2>2, AnswerType DEF BreakDeadlock, Codes
<1>3. QED BY <1>1, <1>2

\* The initial states satisfy TypeInv.
LEMMA InitType == ASSUME Init PROVE TypeInv
<1>1. Idle \in Request /\ Shape(Idle)
  BY DEF Idle, Request, Steps, CandStatus, Column, Shape, OnCandidate, Scoring, Deleting
<1>2. req \in [Req -> Request] /\ \A r \in Req : Shape(req[r])
  BY <1>1 DEF Init
<1>3. audit \subseteq AuditRow
  <2>1. \A c \in Candidate :
          AuditEntry("cv_parsed", c, NoRow, NoRow, {}, NoRow) \in AuditRow
    BY DEF AuditEntry, AuditRow, Events
  <2>2. QED BY <2>1 DEF Init
<1>4. /\ cand \in [Candidate -> CandStatus]
      /\ docs \subseteq Candidate /\ consents \subseteq Candidate
      /\ score \in [Candidate -> Result \cup {NoRow}]
      /\ dossier \in [Candidate -> Report \cup {NoRow}]
      /\ decisions \subseteq Decision /\ embedding \in [Vacancy -> Req \cup {NoRow}]
  BY DEF Init, CandStatus
<1>5. QED BY <1>2, <1>3, <1>4 DEF TypeInv, TypeOK

\* Every step of every request keeps the records well shaped.
LEMMA NextType == ASSUME TypeInv, [Next]_vars PROVE TypeInv'
<1>1. CASE UNCHANGED vars
  BY <1>1 DEF vars, TypeInv, TypeOK, Shape
<1>2. ASSUME NEW r \in Req, Arrive(r) \/ StartTtl(r) \/ BreakDeadlock(r) \/ Fail(r)
      PROVE  TypeInv'
  BY <1>2, ArriveType, StartTtlType, AbortType
<1>3. ASSUME NEW r \in Req, Advance(r) PROVE TypeInv'
  <2>1. CASE Execute(r)
    BY <2>1, ExecuteType
  <2>2. CASE CreateCandidate(r)
    BY <2>2, ParseCvType, CommitStepType, RefreshType DEF CreateCandidate
  <2>3. CASE ScoreCandidate(r)
    <3>1. CASE ScoreGetCandidate(r)
      BY <3>1, GetCandidateType DEF ScoreGetCandidate
    <3>2. CASE ~ScoreGetCandidate(r)
      BY <2>3, <3>2, ScoreCheckConsentType, ScoreLoadDocumentType, ScoreNarrateType,
         CommitStepType, ScoreRefreshType DEF ScoreCandidate
    <3>3. QED BY <3>1, <3>2
  <2>4. CASE GenerateDossier(r)
    BY <2>4, DossierGetCandidateType, DossierCheckConsentType, DossierLoadDocumentType,
       DossierComposeType, CommitStepType, RefreshType DEF GenerateDossier
  <2>5. CASE RecordDecision(r)
    <3>1. CASE DecisionGetCandidate(r)
      BY <3>1, GetCandidateType DEF DecisionGetCandidate
    <3>2. CASE ~DecisionGetCandidate(r)
      BY <2>5, <3>2, DecisionReadDossierType, CommitStepType, RefreshType
      DEF RecordDecision
    <3>3. QED BY <3>1, <3>2
  <2>6. CASE ExportDossierPdf(r)
    <3>1. CASE ExportGetCandidate(r)
      BY <3>1, GetCandidateType DEF ExportGetCandidate
    <3>2. CASE ~ExportGetCandidate(r)
      BY <2>6, <3>2, ExportReadType, ExportCommitType DEF ExportDossierPdf
    <3>3. QED BY <3>1, <3>2
  <2>7. CASE DeleteCandidate(r)
    BY <2>7, DeleteGetCandidateType, FindExpiredType, DeleteCommitType DEF DeleteCandidate
  <2>8. QED BY <1>3, <2>1, <2>2, <2>3, <2>4, <2>5, <2>6, <2>7 DEF Advance
<1>4. QED BY <1>1, <1>2, <1>3 DEF Next

\* In every reachable state each row and each request is well typed, and each
\* request's record has the shape its position calls for.
THEOREM ShapeCorrect == Spec => []TypeInv
BY InitType, NextType, PTL DEF Spec

\* Type correctness of the composed system.
THEOREM TypeCorrect == Spec => []TypeOK
<1>1. TypeInv => TypeOK
  BY DEF TypeInv
<1>2. QED BY <1>1, ShapeCorrect, PTL
=============================================================================
