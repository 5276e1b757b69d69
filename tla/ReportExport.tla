---------------------------- MODULE ReportExport ----------------------------
(* report_pdf.export_dossier_pdf: the dossier, its score and the latest     *)
(* decision are read by separate statements and rendered.  What the report  *)
(* says of them is left out.                                                *)
EXTENDS TalentStore

ExportGetCandidate(r) == GetCandidate(r, "export", "export")

ExportReadDossier(r) ==
  /\ At(r, {"export"}, "export")
  /\ IF dossier[req[r].cand] = NoRow THEN Answer(r, "409")
     ELSE Goto(r, "export_score")
  /\ UNCHANGED <<tables, audit>>

ExportReadScore(r) ==
  /\ At(r, {"export"}, "export_score")
  /\ Become(r, [req[r] EXCEPT !.pc = "export_decision", !.draft = score[req[r].cand]])
  /\ UNCHANGED <<tables, audit>>

\* There may be no decision; whether there was a score is looked at only now.
ExportReadDecision(r) ==
  /\ At(r, {"export"}, "export_decision")
  /\ IF req[r].draft = NoRow THEN Answer(r, "409") ELSE Goto(r, "flush")
  /\ UNCHANGED <<tables, audit>>

ExportCommit(r) ==
  /\ At(r, {"export"}, "flush")
  /\ Commit(r, "pdf_exported", NoRow, {}, Answered(req[r], "ok"))

ExportDossierPdf(r) ==
  \/ ExportGetCandidate(r)
  \/ ExportReadDossier(r)
  \/ ExportReadScore(r)
  \/ ExportReadDecision(r)
  \/ ExportCommit(r)
=============================================================================
