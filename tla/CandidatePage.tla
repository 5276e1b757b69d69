---------------------------- MODULE CandidatePage ----------------------------
(***************************************************************************)
(* The candidate's page in the browser (candidates/[id]/page.tsx) with the *)
(* requests it has under way.  A load gets its rows by one request each and *)
(* hides the sections until it ends; a generated dossier or a saved        *)
(* decision starts another load.  The requests of different sections run   *)
(* side by side, so their loads overlap.  What the backend does with a     *)
(* request is modelled by its checks and commits; CandidateLifecycle has   *)
(* the details.                                                            *)
(***************************************************************************)
EXTENDS Naturals, Sequences, FiniteSets, FiniteSetsExt

CONSTANTS
  MaxCalls,    \* bound on the loads and the user's requests together
  MaxRequests, \* bound on the user's requests
  MaxClock     \* bound on the stamps up to which other users store something

\* The score is left out: its request is one more like the dossier's, and its row
\* decides only whether a card is drawn.
Row == {"candidate", "dossier", "decision"}
Command == {"generate", "decide", "export"}

VARIABLES
  rows,      \* what the backend stores: 0 for nothing, else its stamp
  clock,     \* stamps given so far
  view,      \* the rows that were shown last
  shown,     \* the load they are from, 0 for none
  loading,   \* whether the page shows its loading message
  error,     \* whether it shows an error instead of the sections
  calls,     \* the calls, in the order they were made
  role,      \* what the user the page was opened by may do
  expired    \* whether the access token has expired, which no page renews

page == <<view, shown, loading, error>>
user == <<role, expired>>
vars == <<rows, clock, page, calls, user>>

Nothing == [k \in Row |-> 0]

\* "ui" is what the browser knows of the call and "pc" how far it really is;
\* "mounted" tells whether the section that made it is still there.
Call(kind, pc) ==
  [kind |-> kind, pc |-> pc, ui |-> "waiting", mounted |-> kind # "load", made |-> 0,
   todo |-> IF kind = "load" THEN Row ELSE {}, got |-> Nothing]

\* load() starts: setLoading(true), setError(null) and all requests at once.
Load == Call("load", "reading")

\* The page is opened for a candidate that was uploaded, or that has a dossier.
Init ==
  /\ rows \in {[k \in Row |-> IF k \in there THEN 1 ELSE 0] :
                 there \in {{"candidate"}, {"candidate", "dossier"}}}
  /\ clock = 1
  /\ view = Nothing /\ shown = 0 /\ loading = TRUE /\ error = FALSE
  /\ calls = <<Load>>
  /\ role \in {"writer", "viewer"} /\ expired = FALSE

Calls == DOMAIN calls
Loads == {c \in Calls : calls[c].kind = "load"}
At(c, kind, pc) == c \in Calls /\ calls[c].kind = kind /\ calls[c].pc = pc
Waiting(c) == c \in Calls /\ calls[c].ui = "waiting"
Set(c, pc, ui) == [calls EXCEPT ![c].pc = pc, ![c].ui = ui, ![c].mounted = FALSE]
\* The sections go, with what they knew of their requests.
Unmounted(cs) == [c \in DOMAIN cs |-> [cs[c] EXCEPT !.mounted = FALSE]]
\* What a load had got is let go when it ends.
End(l, pc, ui) ==
  [calls EXCEPT ![l] = [@ EXCEPT !.pc = pc, !.ui = ui, !.todo = {}, !.got = Nothing]]
Goto(c, pc) == calls' = [calls EXCEPT ![c].pc = pc]

-----------------------------------------------------------------------------
(* load().                                                                  *)

\* One GET is answered with the row as it is now, whatever the role; tryGet makes
\* a 404 null.
AnswerRow(l, k) ==
  /\ At(l, "load", "reading") /\ k \in calls[l].todo
  /\ ~expired /\ (k = "candidate" => rows[k] # 0)
  /\ calls' = [calls EXCEPT ![l].todo = @ \ {k}, ![l].got[k] = rows[k]]
  /\ UNCHANGED <<rows, clock, page, user>>

\* Promise.all has them all, and the page shows them.  An error that another
\* load reported meanwhile stays.
ShowLoad(l) ==
  /\ At(l, "load", "reading") /\ calls[l].todo = {}
  /\ view' = calls[l].got /\ shown' = l
  /\ loading' = FALSE
  /\ calls' = End(l, "done", "told")
  /\ UNCHANGED <<rows, clock, error, user>>

\* Variant: setLoading(false) follows the try block and is not its finally.
LoadFailsLoading(l) ==
  /\ At(l, "load", "reading")
  /\ error' = TRUE
  /\ calls' = Unmounted(End(l, "failed", "lost"))
  /\ UNCHANGED <<rows, clock, view, shown, loading, user>>

\* A request fails: the candidate's with 404, all of them with 401, or any for
\* another reason.
LoadFails(l) ==
  /\ At(l, "load", "reading")
  /\ error' = TRUE /\ loading' = FALSE
  /\ calls' = Unmounted(End(l, "failed", "lost"))
  /\ UNCHANGED <<rows, clock, view, shown, user>>

-----------------------------------------------------------------------------
(* onGenerate, onSave and onExport.                                         *)

Visible == ~loading /\ ~error /\ view["candidate"] # 0

\* The button is disabled by the state of its section, which is new each time
\* the sections are mounted again: it knows no request of an earlier mounting.
Busy(kind) ==
  \E c \in Calls : calls[c].kind = kind /\ calls[c].mounted

\* Variant: the two sections do not depend on the dossier.
OfferedAlways(kind) == TRUE

\* Decision and export are offered next to a dossier; nothing asks for the role.
Offered(kind) == kind = "generate" \/ view["dossier"] # 0

Click(kind) ==
  /\ Len(calls) < MaxCalls /\ Cardinality(Calls \ Loads) < MaxRequests
  /\ Visible /\ Offered(kind) /\ ~Busy(kind)
  /\ calls' = Append(calls, Call(kind, "sent"))
  /\ UNCHANGED <<rows, clock, page, user>>

\* Variant: onGenerated and onSaved are not called.
FinishQuietly(c) ==
  /\ Waiting(c) /\ calls[c].pc = "stored"
  /\ calls' = Set(c, "stored", "told")
  /\ UNCHANGED <<rows, clock, page, user>>

\* The answer arrives, also when its section is gone.  onGenerated and onSaved
\* are load(); the loading message unmounts the sections.
Finish(c) ==
  /\ Waiting(c) /\ calls[c].pc = "stored"
  /\ \/ /\ calls[c].kind = "export"
        /\ calls' = Set(c, "stored", "told")
        /\ UNCHANGED page
     \/ /\ calls[c].kind # "export" /\ Len(calls) < MaxCalls
        /\ calls' = Append(Unmounted(Set(c, "stored", "told")), Load)
        /\ loading' = TRUE /\ error' = FALSE
        /\ UNCHANGED <<view, shown>>
  /\ UNCHANGED <<rows, clock, user>>

\* No answer or an error: the section shows it, and nothing is loaded.
Lose(c) ==
  /\ Waiting(c) /\ calls[c].kind \in Command
  /\ calls' = Set(c, calls[c].pc, "lost")
  /\ UNCHANGED <<rows, clock, page, user>>

-----------------------------------------------------------------------------
(* The backend, for this page's requests.                                   *)

Sent(c) == c \in Calls /\ calls[c].pc = "sent"

\* The token is a writer's: the request's transaction starts, with the lookup of
\* the user, and a decision gets that moment as its decided_at.
Admit(c) ==
  /\ Sent(c) /\ ~expired /\ role = "writer"
  /\ IF calls[c].kind = "decide"
       THEN /\ clock' = clock + 1
            /\ calls' = [calls EXCEPT ![c].pc = "arrived", ![c].made = clock + 1]
       ELSE Goto(c, "arrived") /\ clock' = clock
  /\ UNCHANGED <<rows, page, user>>

\* 401 of get_current_user.
Unauthorized(c) ==
  /\ Sent(c) /\ expired
  /\ Goto(c, "unauthorized")
  /\ UNCHANGED <<rows, clock, page, user>>

\* 403 of require_role, which all three endpoints depend on.
Forbid(c) ==
  /\ Sent(c) /\ ~expired /\ role = "viewer"
  /\ Goto(c, "forbidden")
  /\ UNCHANGED <<rows, clock, page, user>>

\* 404 without the candidate, 404 or 409 without the dossier.
Refuse(c) ==
  /\ c \in Calls /\ calls[c].pc = "arrived"
  /\ \/ rows["candidate"] = 0
     \/ calls[c].kind # "generate" /\ rows["dossier"] = 0
  /\ Goto(c, "refused")
  /\ UNCHANGED <<rows, clock, page, user>>

\* generate_dossier commits the dossier.
StoreDossier(c) ==
  /\ At(c, "generate", "arrived") /\ rows["candidate"] # 0
  /\ clock' = clock + 1
  /\ rows' = [rows EXCEPT !["dossier"] = clock + 1]
  /\ calls' = [calls EXCEPT ![c].pc = "stored", ![c].made = clock + 1]
  /\ UNCHANGED <<page, user>>

\* get_latest_decision shows the decision with the latest decided_at.
StoreDecision(c) ==
  /\ At(c, "decide", "arrived") /\ rows["dossier"] # 0
  /\ rows' = [rows EXCEPT !["decision"] = Max({@, calls[c].made})]
  /\ Goto(c, "stored")
  /\ UNCHANGED <<clock, page, user>>

Export(c) ==
  /\ At(c, "export", "arrived") /\ rows["dossier"] # 0
  /\ Goto(c, "stored")
  /\ UNCHANGED <<rows, clock, page, user>>

\* The access token reaches its "exp".
TokenExpires ==
  /\ ~expired /\ expired' = TRUE
  /\ UNCHANGED <<rows, clock, page, calls, role>>

-----------------------------------------------------------------------------
(* Other users of the organization.                                         *)

OtherStores ==
  /\ rows["candidate"] # 0 /\ clock < MaxClock
  /\ clock' = clock + 1
  /\ \E k \in Row \ {"candidate"} :
       /\ k = "decision" => rows["dossier"] # 0
       /\ rows' = [rows EXCEPT ![k] = clock + 1]
  /\ UNCHANGED <<page, calls, user>>

OtherDeletes ==
  /\ rows["candidate"] # 0
  /\ rows' = Nothing
  /\ UNCHANGED <<clock, page, calls, user>>

Proceed(l) == (\E k \in Row : AnswerRow(l, k)) \/ ShowLoad(l) \/ LoadFails(l)

Serve(c) ==
  \/ Admit(c) \/ Unauthorized(c) \/ Forbid(c) \/ Refuse(c)
  \/ StoreDossier(c) \/ StoreDecision(c) \/ Export(c)

Next ==
  \/ OtherStores \/ OtherDeletes \/ TokenExpires
  \/ \E kind \in Command : Click(kind)
  \/ \E c \in Calls : Proceed(c) \/ Serve(c) \/ Finish(c) \/ Lose(c)

Spec == Init /\ [][Next]_vars

\* Every request of a load is answered or fails in the end; nobody has to click,
\* and nothing else has to happen.
FairSpec == Spec /\ \A c \in 1..MaxCalls : WF_vars(Proceed(c))

-----------------------------------------------------------------------------
(* Properties.                                                              *)

\* Rows, the view and the calls are of their types, and the loading message is
\* there on behalf of a load.
TypeOK ==
  /\ rows \in [Row -> 0..clock] /\ view \in [Row -> 0..clock]
  /\ loading \in BOOLEAN /\ error \in BOOLEAN
  /\ shown \in Loads \cup {0}
  /\ \A c \in Calls :
       /\ calls[c].kind \in Command \cup {"load"} /\ calls[c].todo \subseteq Row
       /\ calls[c].ui \in {"waiting", "told", "lost"} /\ calls[c].made \in 0..clock
  /\ role \in {"writer", "viewer"} /\ expired \in BOOLEAN
  /\ loading => \E l \in Loads : Waiting(l)

\* Whatever the page shows may be old when the user clicks, also put together of
\* rows read at different times and shown by the loads in any order; still it never
\* asks for a decision or a report that the backend answers with 404 or 409, but for
\* a deletion (the condition `dossier &&` of the page against the backend's checks).
\* The page knows nothing of the role and of the token's age: what it asks for in vain
\* otherwise is 403 for a viewer, and 401 once the token has expired.
RefusedOnlyWhenDeleted ==
  \A c \in Calls :
    /\ calls[c].pc = "refused" => rows["candidate"] = 0
    /\ calls[c].pc = "forbidden" => role = "viewer"
    /\ calls[c].pc = "unauthorized" => expired

\* When the load that started last is the one that was shown last, the page shows
\* the dossier and the decision its user was told are stored, or newer ones: onSaved
\* loads after the answer, and the answer is after the commit.  The condition is
\* needed: load() does not give up an older load when it starts.
FreshWhenInOrder ==
  (Visible /\ shown = Max(Loads)) =>
    \A c \in Calls : calls[c].ui = "told" =>
      \/ rows["candidate"] = 0
      \/ /\ calls[c].kind = "generate" => view["dossier"] >= calls[c].made
         /\ calls[c].kind = "decide" => view["decision"] >= calls[c].made

\* The loading message goes away, whatever other loads start or fail meanwhile.
LoadingEnds == loading ~> ~loading
=============================================================================
