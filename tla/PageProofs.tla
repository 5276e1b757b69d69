----------------------------- MODULE PageProofs -----------------------------
(***************************************************************************)
(* For every number of calls and of stamps: what the candidate's page      *)
(* shows and asks for is in step with what the backend stores.             *)
(***************************************************************************)
EXTENDS CandidatePage, TLAPS

Kind == Command \cup {"load"}
Denied == {"refused", "forbidden", "unauthorized"}
Place == {"reading", "done", "failed", "sent", "arrived", "stored"} \cup Denied
CallRecord ==
  [kind : Kind, pc : Place, ui : {"waiting", "told", "lost"}, mounted : BOOLEAN,
   made : Nat, todo : SUBSET Row, got : [Row -> Nat]]

Gone == rows["candidate"] = 0

\* The row a request of the user stores.
Stores(c, k) ==
  (calls[c].kind = "generate" /\ k = "dossier") \/ (calls[c].kind = "decide" /\ k = "decision")

\* Everything is of its type, and a load is where only a load can be.
Shape ==
  /\ rows \in [Row -> Nat] /\ clock \in Nat /\ view \in [Row -> Nat]
  /\ loading \in BOOLEAN /\ error \in BOOLEAN
  /\ calls \in Seq(CallRecord)
  /\ \A c \in Calls : calls[c].kind = "load" <=> calls[c].pc \in {"reading", "done", "failed"}

\* Nothing has a stamp that was not given yet.
Stamped ==
  /\ \A k \in Row : rows[k] <= clock /\ view[k] <= clock
  /\ \A c \in Calls : calls[c].made <= clock /\ \A k \in Row : calls[c].got[k] <= clock

\* What is shown comes from a load, and a loading message is some load's.
Shown ==
  /\ shown \in Loads \cup {0}
  /\ loading => \E l \in Loads : Waiting(l)

\* A dossier that was read, or that a request was made next to, is still there
\* until the candidate is deleted, with everything.
DossierStays ==
  /\ Gone => \A k \in Row : rows[k] = 0
  /\ view["dossier"] # 0 => Gone \/ rows["dossier"] # 0
  /\ \A c \in Calls :
       (calls[c].got["dossier"] # 0 \/ calls[c].kind \in {"decide", "export"}) =>
         Gone \/ rows["dossier"] # 0

\* What a request stored is there, or something newer; who was told knows that.
StoredStays ==
  \A c \in Calls :
    /\ calls[c].pc = "stored" => \A k \in Row : Stores(c, k) => Gone \/ rows[k] >= calls[c].made
    /\ calls[c].ui = "told" => calls[c].kind = "load" \/ calls[c].pc = "stored"

\* Load l began after request c was answered: what it has read, and what is shown
\* once it is shown, is at least as new as what the request stored.
Follows(l, c) ==
  \A k \in Row : Stores(c, k) =>
    \/ Gone
    \/ /\ (calls[l].pc = "reading" /\ k \notin calls[l].todo) => calls[l].got[k] >= calls[c].made
       /\ shown = l => view[k] >= calls[c].made

\* The newest load follows every request the user was told about.
NewestFollows ==
  \E l \in Loads :
    /\ \A m \in Loads : m <= l
    /\ \A c \in Calls : calls[c].ui = "told" => Follows(l, c)

\* A request that got nothing but a code has it for a reason, which lasts.
HasReason(pc) ==
  /\ pc = "refused" => Gone
  /\ pc = "forbidden" => role = "viewer"
  /\ pc = "unauthorized" => expired

\* The user, and why requests were denied.
Entitled ==
  /\ role \in {"writer", "viewer"} /\ expired \in BOOLEAN
  /\ \A c \in Calls : HasReason(calls[c].pc)

PageInv ==
  Shape /\ Stamped /\ Shown /\ DossierStays /\ StoredStays /\ NewestFollows /\ Entitled

\* The user of a page stays, and the token only gets older.
UserLasts ==
  /\ role' = role /\ expired' \in BOOLEAN
  /\ expired => expired'

-----------------------------------------------------------------------------
(* What the steps do to the calls.                                          *)

\* The same call, whether its section is mounted or not.
Like(x, y) ==
  /\ x.kind = y.kind /\ x.pc = y.pc /\ x.ui = y.ui
  /\ x.made = y.made /\ x.todo = y.todo /\ x.got = y.got

\* Of these calls only c is another than before, and of the same kind.
Touches(c, cs) ==
  /\ cs \in Seq(CallRecord) /\ DOMAIN cs = Calls
  /\ cs[c].kind = calls[c].kind
  /\ \A d \in Calls : d # c => Like(cs[d], calls[d])

\* The calls of a sequence are numbered from 1.
LEMMA Numbered ==
  ASSUME NEW cs \in Seq(CallRecord)
  PROVE  /\ Len(cs) \in Nat /\ DOMAIN cs = 1..Len(cs)
         /\ \A c \in DOMAIN cs :
              /\ cs[c] \in CallRecord /\ c \in Nat
              /\ cs[c].made \in Nat /\ cs[c].todo \subseteq Row /\ cs[c].got \in [Row -> Nat]
<1>1. Len(cs) \in Nat /\ DOMAIN cs = 1..Len(cs) /\ \A c \in DOMAIN cs : cs[c] \in CallRecord
  OBVIOUS
<1>2. \A r \in CallRecord : r.made \in Nat /\ r.todo \subseteq Row /\ r.got \in [Row -> Nat]
  BY DEF CallRecord
<1> QED
  BY <1>1, <1>2

\* Another record for one call.
LEMMA Replaced ==
  ASSUME calls \in Seq(CallRecord), NEW c \in Calls, NEW r \in CallRecord,
         r.kind = calls[c].kind
  PROVE  /\ Touches(c, [calls EXCEPT ![c] = r])
         /\ [calls EXCEPT ![c] = r][c] = r
<1> DEFINE cs == [calls EXCEPT ![c] = r]
<1>1. Len(calls) \in Nat /\ Calls = 1..Len(calls) /\ \A d \in Calls : calls[d] \in CallRecord
  BY DEF Calls
<1>2. DOMAIN cs = Calls /\ cs[c] = r /\ \A d \in Calls : d # c => cs[d] = calls[d]
  BY DEF Calls
<1>3. cs \in [1..Len(calls) -> CallRecord]
  BY <1>1, <1>2
<1>4. cs \in Seq(CallRecord)
  BY <1>1, <1>3
<1> HIDE DEF cs
<1>5. Touches(c, cs) /\ cs[c] = r
  BY <1>2, <1>4 DEF Touches, Like
<1> QED
  BY <1>5 DEF cs

\* Where a call is and what the browser knows of it.
LEMMA SetEffect ==
  ASSUME calls \in Seq(CallRecord), NEW c \in Calls,
         NEW pc \in Place, NEW ui \in {"waiting", "told", "lost"}
  PROVE  LET cs == Set(c, pc, ui)
         IN /\ Touches(c, cs)
            /\ cs[c].pc = pc /\ cs[c].ui = ui /\ cs[c].made = calls[c].made
            /\ cs[c].todo = calls[c].todo /\ cs[c].got = calls[c].got
<1>1. PICK x : x = calls[c]
  OBVIOUS
<1>2. x \in CallRecord
  BY <1>1, Numbered DEF Calls
<1>3. PICK r : r = [x EXCEPT !.pc = pc, !.ui = ui, !.mounted = FALSE]
  OBVIOUS
<1>4. /\ r \in CallRecord /\ r.kind = x.kind /\ r.pc = pc /\ r.ui = ui
      /\ r.made = x.made /\ r.todo = x.todo /\ r.got = x.got
  BY <1>2, <1>3 DEF CallRecord
<1>5. Set(c, pc, ui) = [calls EXCEPT ![c] = r]
  BY <1>1, <1>3 DEF Set, Calls
<1>6. Touches(c, [calls EXCEPT ![c] = r]) /\ [calls EXCEPT ![c] = r][c] = r
  BY <1>1, <1>4, Replaced
<1> QED
  BY <1>1, <1>4, <1>5, <1>6

\* Where a call is.
LEMMA GotoEffect ==
  ASSUME calls \in Seq(CallRecord), NEW c \in Calls, NEW pc \in Place, Goto(c, pc)
  PROVE  /\ Touches(c, calls')
         /\ calls'[c].pc = pc /\ calls'[c].ui = calls[c].ui /\ calls'[c].made = calls[c].made
         /\ calls'[c].todo = calls[c].todo /\ calls'[c].got = calls[c].got
<1>1. PICK x : x = calls[c]
  OBVIOUS
<1>2. x \in CallRecord
  BY <1>1, Numbered DEF Calls
<1>3. PICK r : r = [x EXCEPT !.pc = pc]
  OBVIOUS
<1>4. /\ r \in CallRecord /\ r.kind = x.kind /\ r.pc = pc /\ r.ui = x.ui
      /\ r.made = x.made /\ r.todo = x.todo /\ r.got = x.got
  BY <1>2, <1>3 DEF CallRecord
<1>5. calls' = [calls EXCEPT ![c] = r]
  BY <1>1, <1>3 DEF Goto, Calls
<1>6. Touches(c, [calls EXCEPT ![c] = r]) /\ [calls EXCEPT ![c] = r][c] = r
  BY <1>1, <1>4, Replaced
<1> QED
  BY <1>1, <1>4, <1>5, <1>6

\* A request gets somewhere, with the stamp of what it stores.
Stamp(c, pc, n) == calls' = [calls EXCEPT ![c].pc = pc, ![c].made = n]

\* Where a request is, and the stamp of what it stores.
LEMMA StampEffect ==
  ASSUME calls \in Seq(CallRecord), NEW c \in Calls, NEW pc \in Place, NEW n \in Nat,
         Stamp(c, pc, n)
  PROVE  /\ Touches(c, calls')
         /\ calls'[c].pc = pc /\ calls'[c].ui = calls[c].ui /\ calls'[c].made = n
         /\ calls'[c].todo = calls[c].todo /\ calls'[c].got = calls[c].got
<1>1. PICK x : x = calls[c]
  OBVIOUS
<1>2. x \in CallRecord
  BY <1>1, Numbered DEF Calls
<1>3. PICK r : r = [x EXCEPT !.pc = pc, !.made = n]
  OBVIOUS
<1>4. /\ r \in CallRecord /\ r.kind = x.kind /\ r.pc = pc /\ r.ui = x.ui
      /\ r.made = n /\ r.todo = x.todo /\ r.got = x.got
  BY <1>2, <1>3 DEF CallRecord
<1>5. calls' = [calls EXCEPT ![c] = r]
  BY <1>1, <1>3 DEF Stamp, Calls
<1>6. Touches(c, [calls EXCEPT ![c] = r]) /\ [calls EXCEPT ![c] = r][c] = r
  BY <1>1, <1>4, Replaced
<1> QED
  BY <1>1, <1>4, <1>5, <1>6

\* A load ends.
LEMMA EndEffect ==
  ASSUME calls \in Seq(CallRecord), NEW l \in Calls,
         NEW pc \in Place, NEW ui \in {"waiting", "told", "lost"}
  PROVE  LET cs == End(l, pc, ui)
         IN /\ Touches(l, cs)
            /\ cs[l].pc = pc /\ cs[l].ui = ui /\ cs[l].made = calls[l].made
            /\ cs[l].todo = {} /\ cs[l].got = Nothing
<1>1. PICK x : x = calls[l]
  OBVIOUS
<1>2. x \in CallRecord
  BY <1>1, Numbered DEF Calls
<1>3. Nothing \in [Row -> Nat]
  BY DEF Nothing
<1>4. PICK r : r = [x EXCEPT !.pc = pc, !.ui = ui, !.todo = {}, !.got = Nothing]
  OBVIOUS
<1>5. /\ r \in CallRecord /\ r.kind = x.kind /\ r.pc = pc /\ r.ui = ui
      /\ r.made = x.made /\ r.todo = {} /\ r.got = Nothing
  BY <1>2, <1>3, <1>4 DEF CallRecord
<1>6. End(l, pc, ui) = [calls EXCEPT ![l] = r]
  BY <1>1, <1>4 DEF End, Calls
<1>7. Touches(l, [calls EXCEPT ![l] = r]) /\ [calls EXCEPT ![l] = r][l] = r
  BY <1>1, <1>5, Replaced
<1> QED
  BY <1>1, <1>5, <1>6, <1>7

\* The sections go: the calls stay what they are.
LEMMA UnmountedEffect ==
  ASSUME NEW cs \in Seq(CallRecord)
  PROVE  /\ Unmounted(cs) \in Seq(CallRecord) /\ DOMAIN Unmounted(cs) = DOMAIN cs
         /\ Len(Unmounted(cs)) = Len(cs)
         /\ \A c \in DOMAIN cs : Like(Unmounted(cs)[c], cs[c])
<1>1. Len(cs) \in Nat /\ DOMAIN cs = 1..Len(cs) /\ \A c \in DOMAIN cs : cs[c] \in CallRecord
  BY Numbered
<1>2. ASSUME NEW x \in CallRecord
      PROVE  [x EXCEPT !.mounted = FALSE] \in CallRecord /\ Like([x EXCEPT !.mounted = FALSE], x)
  BY DEF CallRecord, Like
<1>3. Unmounted(cs) \in [1..Len(cs) -> CallRecord]
  BY <1>1, <1>2 DEF Unmounted
<1>4. \A c \in DOMAIN cs : Like(Unmounted(cs)[c], cs[c])
  BY <1>1, <1>2 DEF Unmounted
<1>5. Unmounted(cs) \in Seq(CallRecord)
  BY <1>1, <1>3
<1> QED
  BY <1>1, <1>3, <1>4, <1>5

\* A load answers one row more.
LEMMA AnswerEffect ==
  ASSUME calls \in Seq(CallRecord), rows \in [Row -> Nat], NEW l \in Calls, NEW k \in Row,
         calls' = [calls EXCEPT ![l].todo = @ \ {k}, ![l].got[k] = rows[k]]
  PROVE  /\ Touches(l, calls')
         /\ calls'[l].pc = calls[l].pc /\ calls'[l].ui = calls[l].ui
         /\ calls'[l].made = calls[l].made /\ calls'[l].todo = calls[l].todo \ {k}
         /\ calls'[l].got = [calls[l].got EXCEPT ![k] = rows[k]]
<1>1. PICK x : x = calls[l]
  OBVIOUS
<1>2. x \in CallRecord /\ x.todo \subseteq Row /\ x.got \in [Row -> Nat]
  BY <1>1, Numbered DEF Calls
<1>3. PICK t : t = x.todo \ {k}
  OBVIOUS
<1>4. PICK g : g = [x.got EXCEPT ![k] = rows[k]]
  OBVIOUS
<1>5. t \in SUBSET Row /\ g \in [Row -> Nat]
  BY <1>2, <1>3, <1>4
<1>6. PICK r : r = [x EXCEPT !.todo = t, !.got = g]
  OBVIOUS
<1>7. /\ r \in CallRecord /\ r.kind = x.kind /\ r.pc = x.pc /\ r.ui = x.ui
      /\ r.made = x.made /\ r.todo = t /\ r.got = g
  BY <1>2, <1>5, <1>6 DEF CallRecord
<1>8. calls' = [calls EXCEPT ![l] = r]
  <2>1. PICK y : y = [x EXCEPT !.todo = t]
    OBVIOUS
  <2>2. y.got = x.got
    BY <1>2, <2>1 DEF CallRecord
  <2>3. r = [y EXCEPT !.got = [y.got EXCEPT ![k] = rows[k]]]
    BY <1>4, <1>6, <2>1, <2>2
  <2> QED
    BY <1>1, <1>3, <2>1, <2>3 DEF Calls
<1>9. Touches(l, [calls EXCEPT ![l] = r]) /\ [calls EXCEPT ![l] = r][l] = r
  BY <1>1, <1>7, Replaced
<1> QED
  BY <1>1, <1>3, <1>4, <1>7, <1>8, <1>9

-----------------------------------------------------------------------------
(* The invariant, step by step.                                             *)

\* When the page is opened its first load has read nothing yet.
LEMMA Opened == Init => PageInv
<1> SUFFICES ASSUME Init PROVE PageInv
  OBVIOUS
<1>1. PICK r : r = Load
  OBVIOUS
<1>2. /\ r \in CallRecord /\ r.kind = "load" /\ r.pc = "reading" /\ r.ui = "waiting"
      /\ r.made = 0 /\ r.todo = Row /\ r.got = Nothing
  BY <1>1 DEF Load, Call, CallRecord, Kind, Place, Nothing
<1>3. Nothing \in [Row -> Nat] /\ \A k \in Row : Nothing[k] = 0
  BY DEF Nothing
<1>4. calls = <<r>> /\ calls \in Seq(CallRecord) /\ Calls = {1} /\ calls[1] = r
  BY <1>1, <1>2 DEF Init, Calls
<1>5. rows \in [Row -> Nat] /\ \A k \in Row : rows[k] <= 1
  BY DEF Init
<1>6. "candidate" \in Row /\ "dossier" \in Row /\ rows["candidate"] # 0
  BY DEF Row, Init
<1>7. Loads = {1}
  BY <1>2, <1>4 DEF Loads
<1>8. Shape
  BY <1>2, <1>3, <1>4, <1>5 DEF Init, Shape
<1>9. Stamped
  BY <1>2, <1>3, <1>4, <1>5 DEF Init, Stamped
<1>10. Shown
  BY <1>2, <1>4, <1>7 DEF Init, Shown, Waiting
<1>11. DossierStays
  BY <1>2, <1>3, <1>4, <1>6 DEF Init, DossierStays, Gone
<1>12. StoredStays
  BY <1>2, <1>4 DEF StoredStays
<1>13. NewestFollows
  BY <1>2, <1>4, <1>7 DEF NewestFollows
<1>14. Entitled
  BY <1>2, <1>4 DEF Init, Entitled, HasReason
<1> QED
  BY <1>8, <1>9, <1>10, <1>11, <1>12, <1>13, <1>14 DEF PageInv

\* A reason to deny a request goes on; a request denied now has to have one.
LEMMA ReasonsLast ==
  ASSUME PageInv, UserLasts, Gone => Gone',
         \A c \in Calls' :
           (c \in Calls /\ calls'[c].pc = calls[c].pc) \/ HasReason(calls[c].pc)'
  PROVE  Entitled'
<1>1. role' \in {"writer", "viewer"} /\ expired' \in BOOLEAN
  BY DEF PageInv, Entitled, UserLasts
<1>2. ASSUME NEW c \in Calls' PROVE HasReason(calls[c].pc)'
  <2>1. CASE c \in Calls /\ calls'[c].pc = calls[c].pc
    <3>1. HasReason(calls[c].pc)
      BY <2>1 DEF PageInv, Entitled
    <3> QED
      BY <2>1, <3>1 DEF HasReason, UserLasts
  <2> QED
    BY <2>1
<1> QED
  BY <1>1, <1>2 DEF Entitled

\* Most steps leave the user alone.
LEMMA SameUser ==
  ASSUME PageInv, UNCHANGED user
  PROVE  UserLasts
  BY DEF PageInv, Entitled, UserLasts, user

\* The rows only get newer stamps, and go all together.
RowsGrow ==
  /\ rows' \in [Row -> Nat] /\ clock' \in Nat /\ clock <= clock'
  /\ \A k \in Row : rows'[k] <= clock'
  /\ Gone => Gone'
  /\ Gone' => \A k \in Row : rows'[k] = 0
  /\ Gone' \/ \A k \in Row : rows[k] <= rows'[k]

\* A step of the backend on request c, with what it stores.
Served(c) ==
  /\ Touches(c, calls') /\ calls[c].pc \in {"sent", "arrived"}
  /\ calls'[c].pc \in {"arrived", "stored"} \cup Denied /\ calls'[c].ui = calls[c].ui
  /\ calls'[c].todo = calls[c].todo /\ calls'[c].got = calls[c].got
  /\ calls'[c].made <= clock'
  /\ UserLasts /\ HasReason(calls[c].pc)'
  /\ calls'[c].pc = "stored" =>
       \A k \in Row : Stores(c, k) => Gone' \/ rows'[k] >= calls'[c].made

\* A step of the backend keeps the invariant.
LEMMA ServedKeeps ==
  ASSUME PageInv, NEW c \in Calls, Served(c), RowsGrow, UNCHANGED page
  PROVE  PageInv'
<1>1. /\ view' = view /\ shown' = shown /\ loading' = loading /\ error' = error
  BY DEF page
<1>2. /\ calls' \in Seq(CallRecord) /\ Calls' = Calls
      /\ calls \in Seq(CallRecord) /\ "dossier" \in Row /\ "candidate" \in Row
  BY DEF PageInv, Shape, Served, Touches, Calls, Row
<1>3. \A d \in Calls : d # c => /\ calls'[d].pc = calls[d].pc /\ calls'[d].ui = calls[d].ui
                                /\ calls'[d].made = calls[d].made
                                /\ calls'[d].todo = calls[d].todo /\ calls'[d].got = calls[d].got
  BY DEF Served, Touches, Like
<1>4. \A d \in Calls : calls'[d].kind = calls[d].kind
  BY DEF Served, Touches, Like
<1>5. /\ calls'[c].ui = calls[c].ui /\ calls'[c].todo = calls[c].todo
      /\ calls'[c].got = calls[c].got
  BY DEF Served
<1>6. \A d \in Calls : /\ calls'[d].ui = calls[d].ui /\ calls'[d].todo = calls[d].todo
                       /\ calls'[d].got = calls[d].got
  BY <1>3, <1>5
<1>7. calls[c].kind # "load" /\ calls[c].ui # "told"
  BY DEF Served, PageInv, Shape, StoredStays
<1>8. Loads' = Loads
  BY <1>2, <1>4 DEF Loads
<1>9. \A d \in Calls, k \in Row : Stores(d, k)' <=> Stores(d, k)
  BY <1>4 DEF Stores
<1>10. /\ \A d \in Calls : /\ calls[d].made \in Nat /\ calls'[d].made \in Nat
                           /\ calls[d].got \in [Row -> Nat]
       /\ rows \in [Row -> Nat] /\ view \in [Row -> Nat] /\ clock \in Nat
  BY <1>2, Numbered DEF PageInv, Shape, Calls
<1>11. Shape'
  <2>1. \A d \in Calls : calls'[d].kind = "load" <=> calls'[d].pc \in {"reading", "done", "failed"}
    BY <1>3, <1>4, <1>7 DEF Served, PageInv, Shape, Denied
  <2> QED
    BY <1>1, <1>2, <2>1 DEF PageInv, Shape, RowsGrow
<1>12. Stamped'
  <2>1. \A k \in Row : rows'[k] <= clock' /\ view'[k] <= clock'
    BY <1>1, <1>10 DEF PageInv, Stamped, RowsGrow
  <2>2. \A d \in Calls : calls'[d].made <= clock'
    BY <1>3, <1>10 DEF PageInv, Stamped, RowsGrow, Served
  <2>3. \A d \in Calls : \A k \in Row : calls'[d].got[k] <= clock'
    BY <1>6, <1>10 DEF PageInv, Stamped, RowsGrow
  <2> QED
    BY <1>2, <2>1, <2>2, <2>3 DEF Stamped
<1>13. Shown'
  <2>1. \A l \in Loads : Waiting(l) => Waiting(l)'
    BY <1>2, <1>6 DEF Waiting
  <2> QED
    BY <1>1, <1>8, <2>1 DEF PageInv, Shown
<1>14. DossierStays'
  <2>1. (Gone \/ rows["dossier"] # 0) => (Gone' \/ rows'["dossier"] # 0)
    BY <1>2, <1>10 DEF RowsGrow
  <2>2. view'["dossier"] # 0 => Gone' \/ rows'["dossier"] # 0
    BY <1>1, <2>1 DEF PageInv, DossierStays
  <2>3. ASSUME NEW d \in Calls,
               calls'[d].got["dossier"] # 0 \/ calls'[d].kind \in {"decide", "export"}
        PROVE  Gone' \/ rows'["dossier"] # 0
    <3>1. calls[d].got["dossier"] # 0 \/ calls[d].kind \in {"decide", "export"}
      BY <1>4, <1>6, <2>3
    <3> QED
      BY <2>1, <3>1 DEF PageInv, DossierStays
  <2> QED
    BY <1>2, <2>2, <2>3 DEF DossierStays, RowsGrow
<1>15. StoredStays'
  <2>1. \A d \in Calls : calls'[d].pc = "stored" =>
          \A k \in Row : Stores(d, k) => Gone' \/ rows'[k] >= calls'[d].made
    <3> SUFFICES ASSUME NEW d \in Calls, calls'[d].pc = "stored", NEW k \in Row, Stores(d, k)
                 PROVE  Gone' \/ rows'[k] >= calls'[d].made
      OBVIOUS
    <3>1. CASE d = c
      BY <3>1 DEF Served
    <3>2. CASE d # c
      <4>1. calls[d].pc = "stored" /\ calls'[d].made = calls[d].made
        BY <1>3, <3>2
      <4>2. Gone \/ rows[k] >= calls[d].made
        BY <4>1 DEF PageInv, StoredStays
      <4> QED
        BY <1>10, <4>1, <4>2 DEF RowsGrow
    <3> QED
      BY <3>1, <3>2
  <2>2. \A d \in Calls : calls'[d].ui = "told" =>
          calls'[d].kind = "load" \/ calls'[d].pc = "stored"
    BY <1>3, <1>4, <1>6, <1>7 DEF PageInv, StoredStays
  <2> QED
    BY <1>2, <1>9, <2>1, <2>2 DEF StoredStays
<1>16. NewestFollows'
  <2>1. PICK l \in Loads : /\ \A m \in Loads : m <= l
                           /\ \A d \in Calls : calls[d].ui = "told" => Follows(l, d)
    BY DEF PageInv, NewestFollows
  <2>2. l # c /\ l \in Calls /\ calls'[l].pc = calls[l].pc
    BY <1>3, <1>7 DEF Loads
  <2>3. ASSUME NEW d \in Calls, calls'[d].ui = "told" PROVE Follows(l, d)'
    <3>1. d # c /\ calls[d].ui = "told" /\ calls'[d].made = calls[d].made
      BY <1>3, <1>6, <1>7, <2>3
    <3>2. Follows(l, d)
      BY <2>1, <3>1
    <3>3. Gone => Gone'
      BY DEF RowsGrow
    <3> QED
      BY <1>1, <1>6, <1>9, <2>2, <3>1, <3>2, <3>3 DEF Follows
  <2> QED
    BY <1>2, <1>8, <2>1, <2>3 DEF NewestFollows
<1>17. Entitled'
  <2>1. \A d \in Calls' : (d \in Calls /\ calls'[d].pc = calls[d].pc) \/ HasReason(calls[d].pc)'
    BY <1>2, <1>3 DEF Served
  <2> QED
    BY <2>1, ReasonsLast DEF Served, RowsGrow
<1> QED
  BY <1>11, <1>12, <1>13, <1>14, <1>15, <1>16, <1>17 DEF PageInv

\* Other users' steps leave the page and its calls alone.
LEMMA OthersKeep ==
  ASSUME PageInv, RowsGrow, UserLasts, UNCHANGED <<page, calls>>
  PROVE  PageInv'
<1>1. /\ view' = view /\ shown' = shown /\ loading' = loading /\ error' = error
      /\ calls' = calls
  BY DEF page
<1>2. /\ Calls' = Calls /\ Loads' = Loads /\ "dossier" \in Row /\ "candidate" \in Row
  BY <1>1 DEF Calls, Loads, Row
<1>3. \A d \in Calls, k \in Row : Stores(d, k)' <=> Stores(d, k)
  BY <1>1 DEF Stores
<1>4. /\ \A d \in Calls : calls[d].made \in Nat /\ calls[d].got \in [Row -> Nat]
      /\ rows \in [Row -> Nat] /\ view \in [Row -> Nat] /\ clock \in Nat
  BY Numbered DEF PageInv, Shape, Calls
<1>5. Shape'
  BY <1>1, <1>2 DEF PageInv, Shape, RowsGrow
<1>6. Stamped'
  <2>1. \A k \in Row : rows'[k] <= clock' /\ view'[k] <= clock'
    BY <1>1, <1>4 DEF PageInv, Stamped, RowsGrow
  <2>2. \A d \in Calls : calls'[d].made <= clock' /\ \A k \in Row : calls'[d].got[k] <= clock'
    BY <1>1, <1>4 DEF PageInv, Stamped, RowsGrow
  <2> QED
    BY <1>2, <2>1, <2>2 DEF Stamped
<1>7. Shown'
  BY <1>1, <1>2 DEF PageInv, Shown, Waiting
<1>8. DossierStays'
  <2>1. (Gone \/ rows["dossier"] # 0) => (Gone' \/ rows'["dossier"] # 0)
    BY <1>2, <1>4 DEF RowsGrow
  <2>2. view'["dossier"] # 0 => Gone' \/ rows'["dossier"] # 0
    BY <1>1, <2>1 DEF PageInv, DossierStays
  <2>3. \A d \in Calls : (calls'[d].got["dossier"] # 0 \/ calls'[d].kind \in {"decide", "export"})
                           => Gone' \/ rows'["dossier"] # 0
    BY <1>1, <2>1 DEF PageInv, DossierStays
  <2> QED
    BY <1>2, <2>2, <2>3 DEF DossierStays, RowsGrow
<1>9. StoredStays'
  <2>1. ASSUME NEW d \in Calls, calls'[d].pc = "stored", NEW k \in Row, Stores(d, k)
        PROVE  Gone' \/ rows'[k] >= calls'[d].made
    <3>1. Gone \/ rows[k] >= calls[d].made
      BY <1>1, <2>1 DEF PageInv, StoredStays
    <3> QED
      BY <1>1, <1>4, <3>1 DEF RowsGrow
  <2>2. \A d \in Calls : calls'[d].ui = "told" =>
          calls'[d].kind = "load" \/ calls'[d].pc = "stored"
    BY <1>1 DEF PageInv, StoredStays
  <2> QED
    BY <1>2, <1>3, <2>1, <2>2 DEF StoredStays
<1>10. NewestFollows'
  <2>1. PICK l \in Loads : /\ \A m \in Loads : m <= l
                           /\ \A d \in Calls : calls[d].ui = "told" => Follows(l, d)
    BY DEF PageInv, NewestFollows
  <2>2. ASSUME NEW d \in Calls, calls'[d].ui = "told" PROVE Follows(l, d)'
    <3>1. Follows(l, d) /\ (Gone => Gone')
      BY <1>1, <2>1, <2>2 DEF RowsGrow
    <3> QED
      BY <1>1, <1>3, <3>1 DEF Follows
  <2> QED
    BY <1>2, <2>1, <2>2 DEF NewestFollows
<1>11. Entitled'
  BY <1>1, <1>2, ReasonsLast DEF RowsGrow
<1> QED
  BY <1>5, <1>6, <1>7, <1>8, <1>9, <1>10, <1>11 DEF PageInv

\* A row of the candidate's that stays the same or gets a newer stamp.
LEMMA NewerRow ==
  ASSUME PageInv, rows["candidate"] # 0, NEW k \in Row \ {"candidate"}, NEW n \in Nat,
         clock' = clock \/ clock' = clock + 1, n <= clock', rows[k] <= n,
         rows' = [rows EXCEPT ![k] = n]
  PROVE  RowsGrow
<1>1. rows \in [Row -> Nat] /\ clock \in Nat /\ "candidate" \in Row
  BY DEF PageInv, Shape, Row
<1>2. rows' \in [Row -> Nat] /\ clock' \in Nat /\ clock <= clock' /\ rows'["candidate"] # 0
  BY <1>1
<1>3. \A j \in Row : rows'[j] = IF j = k THEN n ELSE rows[j]
  BY <1>1
<1>4. \A j \in Row : rows[j] \in Nat /\ rows[j] <= clock
  BY <1>1 DEF PageInv, Stamped
<1>5. \A j \in Row : rows[j] <= rows'[j] /\ rows'[j] <= clock'
  <2> SUFFICES ASSUME NEW j \in Row PROVE rows[j] <= rows'[j] /\ rows'[j] <= clock'
    OBVIOUS
  <2> QED
    BY <1>1, <1>2, <1>3, <1>4
<1>6. ~Gone /\ ~Gone'
  BY <1>2 DEF Gone
<1> QED
  BY <1>2, <1>5, <1>6 DEF RowsGrow

\* No row changes; the clock may tick.
LEMMA SameRows ==
  ASSUME PageInv, rows' = rows, clock' = clock \/ clock' = clock + 1
  PROVE  RowsGrow
<1>1. rows \in [Row -> Nat] /\ clock \in Nat
  BY DEF PageInv, Shape
<1>2. \A k \in Row : rows[k] \in Nat /\ rows[k] <= clock
  BY <1>1 DEF PageInv, Stamped
<1>3. clock' \in Nat /\ clock <= clock'
  BY <1>1
<1>4. \A k \in Row : rows'[k] <= clock' /\ rows[k] <= rows'[k]
  BY <1>1, <1>2, <1>3
<1>5. (Gone => Gone') /\ (Gone' => \A k \in Row : rows'[k] = 0)
  BY DEF Gone, PageInv, DossierStays
<1> QED
  BY <1>1, <1>3, <1>4, <1>5 DEF RowsGrow

\* The later of two stamps.
LEMMA LaterStamp ==
  ASSUME NEW a \in Nat, NEW b \in Nat
  PROVE  Max({a, b}) \in {a, b} /\ Max({a, b}) >= a /\ Max({a, b}) >= b
<1>1. \E x \in {a, b} : \A y \in {a, b} : x >= y
  OBVIOUS
<1>2. Max({a, b}) \in {a, b} /\ \A y \in {a, b} : Max({a, b}) >= y
  BY <1>1 DEF Max
<1> QED
  BY <1>2

\* The backend's steps on a request of the page.
LEMMA ServeKeeps ==
  ASSUME PageInv, NEW c \in Calls, Serve(c)
  PROVE  PageInv'
<1>1. /\ calls \in Seq(CallRecord) /\ clock \in Nat /\ rows \in [Row -> Nat]
      /\ "dossier" \in Row \ {"candidate"} /\ "decision" \in Row \ {"candidate"}
  BY DEF PageInv, Shape, Row
<1>2. calls[c].made \in Nat /\ calls[c].made <= clock /\ calls[c] \in CallRecord
  BY <1>1, Numbered DEF PageInv, Stamped, Calls
<1>3. {"arrived", "stored"} \cup Denied \subseteq Place /\ {"arrived", "stored"} \cap Denied = {}
  BY DEF Place, Denied
<1>4. PICK n \in Nat : n = clock + 1
  BY <1>1
<1>5. ASSUME NEW pc \in {"arrived"} \cup Denied, Goto(c, pc), UNCHANGED <<rows, clock, page, user>>,
             calls[c].pc \in {"sent", "arrived"}, HasReason(pc)
      PROVE  PageInv'
  <2>1. /\ Touches(c, calls')
        /\ calls'[c].pc = pc /\ calls'[c].ui = calls[c].ui
        /\ calls'[c].made = calls[c].made
        /\ calls'[c].todo = calls[c].todo /\ calls'[c].got = calls[c].got
    BY <1>1, <1>3, <1>5, GotoEffect
  <2>2. HasReason(calls[c].pc)' /\ UserLasts
    BY <1>5, <2>1, SameUser DEF HasReason, Gone, user
  <2>3. Served(c)
    BY <1>2, <1>3, <1>5, <2>1, <2>2 DEF Served
  <2>4. RowsGrow
    BY <1>5, SameRows
  <2> QED
    BY <1>5, <2>3, <2>4, ServedKeeps
<1>6. CASE Refuse(c)
  <2>1. calls[c].kind \in {"generate", "decide", "export"}
    <3>1. calls[c].kind # "load"
      BY <1>6 DEF Refuse, PageInv, Shape
    <3> QED
      BY <1>2, <3>1 DEF CallRecord, Kind, Command
  <2>2. HasReason("refused")
    BY <1>6, <2>1 DEF Refuse, PageInv, DossierStays, HasReason, Gone
  <2> QED
    BY <1>5, <1>6, <2>2 DEF Refuse, Denied
<1>7. CASE Unauthorized(c) \/ Forbid(c)
  <2>1. HasReason("unauthorized") \/ ~Unauthorized(c)
    BY DEF Unauthorized, HasReason
  <2>2. HasReason("forbidden") \/ ~Forbid(c)
    BY DEF Forbid, HasReason
  <2> QED
    BY <1>5, <1>7, <2>1, <2>2 DEF Unauthorized, Forbid, Sent, Denied
<1>8. CASE Admit(c)
  <2>1. CASE calls[c].kind = "decide"
    <3>1. /\ calls[c].pc = "sent" /\ clock' = n /\ rows' = rows
          /\ Stamp(c, "arrived", n) /\ UNCHANGED <<page, user>>
      BY <1>4, <1>8, <2>1 DEF Admit, Sent, Stamp
    <3>2. /\ Touches(c, calls')
          /\ calls'[c].pc = "arrived" /\ calls'[c].ui = calls[c].ui
          /\ calls'[c].made = n
          /\ calls'[c].todo = calls[c].todo /\ calls'[c].got = calls[c].got
      BY <1>1, <1>3, <3>1, StampEffect
    <3>3. Served(c)
      BY <3>1, <3>2, SameUser DEF Served, HasReason
    <3>4. RowsGrow
      BY <1>4, <3>1, SameRows
    <3> QED
      BY <3>1, <3>3, <3>4, ServedKeeps
  <2>2. CASE calls[c].kind # "decide"
    <3>1. HasReason("arrived")
      BY DEF HasReason
    <3> QED
      BY <1>5, <1>8, <2>2, <3>1 DEF Admit, Sent
  <2> QED
    BY <2>1, <2>2
<1>9. CASE StoreDossier(c)
  <2>1. /\ calls[c].kind = "generate" /\ calls[c].pc = "arrived" /\ rows["candidate"] # 0
        /\ clock' = n /\ rows' = [rows EXCEPT !["dossier"] = n]
        /\ Stamp(c, "stored", n)
        /\ UNCHANGED <<page, user>>
    BY <1>4, <1>9 DEF StoreDossier, At, Stamp
  <2>2. rows["dossier"] <= n /\ rows'["dossier"] = n /\ n <= clock'
    <3>1. rows["dossier"] \in Nat /\ rows["dossier"] <= clock
      BY <1>1 DEF PageInv, Stamped
    <3> QED
      BY <1>1, <1>4, <2>1, <3>1
  <2>3. /\ Touches(c, calls')
        /\ calls'[c].pc = "stored" /\ calls'[c].ui = calls[c].ui
        /\ calls'[c].made = n
        /\ calls'[c].todo = calls[c].todo /\ calls'[c].got = calls[c].got
    BY <1>1, <1>3, <2>1, StampEffect
  <2>4. \A k \in Row : Stores(c, k) => rows'[k] >= calls'[c].made
    BY <2>1, <2>2, <2>3 DEF Stores
  <2>5. Served(c)
    BY <2>1, <2>2, <2>3, <2>4, SameUser DEF Served, HasReason
  <2>6. RowsGrow
    BY <1>1, <1>4, <2>1, <2>2, NewerRow
  <2> QED
    BY <2>1, <2>5, <2>6, ServedKeeps
<1>10. CASE StoreDecision(c)
  <2>1. /\ calls[c].kind = "decide" /\ calls[c].pc = "arrived" /\ rows["dossier"] # 0
        /\ clock' = clock /\ Goto(c, "stored")
        /\ rows' = [rows EXCEPT !["decision"] = Max({@, calls[c].made})]
        /\ UNCHANGED <<page, user>>
    BY <1>10 DEF StoreDecision, At
  <2>2. PICK stamp : stamp = Max({rows["decision"], calls[c].made})
    OBVIOUS
  <2>3. /\ stamp \in Nat /\ stamp <= clock' /\ rows["decision"] <= stamp /\ calls[c].made <= stamp
        /\ rows' = [rows EXCEPT !["decision"] = stamp] /\ rows'["decision"] = stamp
    <3>1. rows["decision"] \in Nat /\ rows["decision"] <= clock
      BY <1>1 DEF PageInv, Stamped
    <3>2. /\ stamp \in {rows["decision"], calls[c].made}
          /\ stamp >= rows["decision"] /\ stamp >= calls[c].made
      BY <1>2, <2>2, <3>1, LaterStamp
    <3> QED
      BY <1>1, <1>2, <2>1, <2>2, <3>1, <3>2
  <2>4. /\ Touches(c, calls')
        /\ calls'[c].pc = "stored" /\ calls'[c].ui = calls[c].ui
        /\ calls'[c].made = calls[c].made
        /\ calls'[c].todo = calls[c].todo /\ calls'[c].got = calls[c].got
    BY <1>1, <1>3, <2>1, GotoEffect
  <2>5. \A k \in Row : Stores(c, k) => rows'[k] >= calls'[c].made
    BY <1>2, <2>1, <2>3, <2>4 DEF Stores
  <2>6. Served(c)
    BY <1>2, <2>1, <2>4, <2>5, SameUser DEF Served, HasReason
  <2>7. RowsGrow
    <3>1. rows["candidate"] # 0
      BY <1>1, <2>1 DEF PageInv, DossierStays, Gone
    <3> QED
      BY <1>1, <2>1, <2>3, <3>1, NewerRow
  <2> QED
    BY <2>1, <2>6, <2>7, ServedKeeps
<1>11. CASE Export(c)
  <2>1. /\ calls[c].kind = "export" /\ calls[c].pc = "arrived" /\ Goto(c, "stored")
        /\ UNCHANGED <<rows, clock, page, user>>
    BY <1>11 DEF Export, At
  <2>2. /\ Touches(c, calls')
        /\ calls'[c].pc = "stored" /\ calls'[c].ui = calls[c].ui
        /\ calls'[c].made = calls[c].made
        /\ calls'[c].todo = calls[c].todo /\ calls'[c].got = calls[c].got
    BY <1>1, <1>3, <2>1, GotoEffect
  <2>3. \A k \in Row : ~Stores(c, k)
    BY <2>1 DEF Stores
  <2>4. Served(c)
    BY <1>2, <2>1, <2>2, <2>3, SameUser DEF Served, HasReason
  <2>5. RowsGrow
    BY <2>1, SameRows
  <2> QED
    BY <2>1, <2>4, <2>5, ServedKeeps
<1> QED
  BY <1>6, <1>7, <1>8, <1>9, <1>10, <1>11 DEF Serve

\* Other users store rows, or delete the candidate with all of them; the token
\* expires.
LEMMA OtherStepsKeep ==
  ASSUME PageInv, OtherStores \/ OtherDeletes \/ TokenExpires
  PROVE  PageInv'
<1>1. CASE OtherStores
  <2>1. PICK k \in Row \ {"candidate"} : rows' = [rows EXCEPT ![k] = clock + 1]
    BY <1>1 DEF OtherStores
  <2>2. rows["candidate"] # 0 /\ clock' = clock + 1 /\ UNCHANGED <<page, calls, user>>
    BY <1>1 DEF OtherStores
  <2>3. PICK n \in Nat : n = clock + 1
    BY DEF PageInv, Shape
  <2>4. rows[k] <= n /\ n <= clock'
    <3>1. clock \in Nat /\ rows[k] \in Nat /\ rows[k] <= clock
      BY DEF PageInv, Shape, Stamped
    <3> QED
      BY <2>2, <2>3, <3>1
  <2>5. RowsGrow
    BY <2>1, <2>2, <2>3, <2>4, NewerRow
  <2> QED
    BY <2>2, <2>5, OthersKeep, SameUser
<1>2. CASE OtherDeletes
  <2>1. rows' = Nothing /\ clock' = clock /\ UNCHANGED <<page, calls, user>>
    BY <1>2 DEF OtherDeletes
  <2>2. rows' \in [Row -> Nat] /\ \A k \in Row : rows'[k] = 0
    BY <2>1 DEF Nothing
  <2>3. Gone'
    BY <2>2 DEF Gone, Row
  <2>4. clock \in Nat /\ \A k \in Row : rows'[k] <= clock
    BY <2>2 DEF PageInv, Shape
  <2>5. RowsGrow
    BY <2>1, <2>2, <2>3, <2>4 DEF RowsGrow
  <2> QED
    BY <2>1, <2>5, OthersKeep, SameUser
<1>3. CASE TokenExpires
  <2>1. UserLasts
    BY <1>3 DEF TokenExpires, UserLasts
  <2>2. RowsGrow
    BY <1>3, SameRows DEF TokenExpires
  <2> QED
    BY <1>3, <2>1, <2>2, OthersKeep DEF TokenExpires
<1> QED
  BY <1>1, <1>2, <1>3

\* What a step in the browser that touches one call leaves alone.
LEMMA BrowserFrame ==
  ASSUME PageInv, NEW c \in Calls, Touches(c, calls'), rows' = rows, clock' = clock
  PROVE  /\ calls' \in Seq(CallRecord) /\ Calls' = Calls /\ Loads' = Loads
         /\ \A d \in Calls : calls'[d].kind = calls[d].kind
         /\ \A d \in Calls : d # c =>
              /\ calls'[d].pc = calls[d].pc /\ calls'[d].ui = calls[d].ui
              /\ calls'[d].made = calls[d].made
              /\ calls'[d].todo = calls[d].todo /\ calls'[d].got = calls[d].got
         /\ \A d \in Calls, k \in Row : Stores(d, k)' <=> Stores(d, k)
         /\ Gone' <=> Gone
         /\ "dossier" \in Row
<1>1. calls' \in Seq(CallRecord) /\ Calls' = Calls
  BY DEF Touches, Calls
<1>2. \A d \in Calls : calls'[d].kind = calls[d].kind
  BY DEF Touches, Like
<1>3. \A d \in Calls : d # c =>
        /\ calls'[d].pc = calls[d].pc /\ calls'[d].ui = calls[d].ui
        /\ calls'[d].made = calls[d].made
        /\ calls'[d].todo = calls[d].todo /\ calls'[d].got = calls[d].got
  BY DEF Touches, Like
<1>4. Loads' = Loads
  BY <1>1, <1>2 DEF Loads
<1>5. \A d \in Calls, k \in Row : Stores(d, k)' <=> Stores(d, k)
  BY <1>2 DEF Stores
<1> QED
  BY <1>1, <1>2, <1>3, <1>4, <1>5 DEF Gone, Row

\* A load gets one more row.
LEMMA AnswerKeeps ==
  ASSUME PageInv, NEW l \in Calls, NEW k \in Row, AnswerRow(l, k)
  PROVE  PageInv'
<1>1. /\ calls[l].kind = "load" /\ calls[l].pc = "reading" /\ k \in calls[l].todo
      /\ rows' = rows /\ clock' = clock
      /\ view' = view /\ shown' = shown /\ loading' = loading /\ error' = error
  BY DEF AnswerRow, At, page
<1>2. /\ Touches(l, calls')
      /\ calls'[l].pc = calls[l].pc /\ calls'[l].ui = calls[l].ui
      /\ calls'[l].made = calls[l].made /\ calls'[l].todo = calls[l].todo \ {k}
      /\ calls'[l].got = [calls[l].got EXCEPT ![k] = rows[k]]
  BY AnswerEffect DEF AnswerRow, PageInv, Shape
<1>3. /\ calls' \in Seq(CallRecord) /\ Calls' = Calls /\ Loads' = Loads
      /\ \A d \in Calls : calls'[d].kind = calls[d].kind
      /\ \A d \in Calls : d # l =>
           /\ calls'[d].pc = calls[d].pc /\ calls'[d].ui = calls[d].ui
           /\ calls'[d].made = calls[d].made
           /\ calls'[d].todo = calls[d].todo /\ calls'[d].got = calls[d].got
      /\ \A d \in Calls, j \in Row : Stores(d, j)' <=> Stores(d, j)
      /\ Gone' <=> Gone
      /\ "dossier" \in Row
  BY <1>1, <1>2, BrowserFrame
<1>4. \A d \in Calls : /\ calls'[d].pc = calls[d].pc /\ calls'[d].ui = calls[d].ui
                       /\ calls'[d].made = calls[d].made
  BY <1>2, <1>3
<1>5. calls[l].got \in [Row -> Nat] /\ rows \in [Row -> Nat] /\ clock \in Nat
  BY Numbered DEF PageInv, Shape, Calls
<1>6. \A j \in Row : calls'[l].got[j] = IF j = k THEN rows[k] ELSE calls[l].got[j]
  BY <1>2, <1>5
<1>7. Shape'
  BY <1>1, <1>3, <1>4 DEF PageInv, Shape
<1>8. Stamped'
  <2>1. \A d \in Calls : calls'[d].made <= clock'
    BY <1>1, <1>4 DEF PageInv, Stamped
  <2>2. ASSUME NEW d \in Calls, NEW j \in Row PROVE calls'[d].got[j] <= clock'
    BY <1>1, <1>3, <1>6 DEF PageInv, Stamped
  <2> QED
    BY <1>1, <1>3, <2>1, <2>2 DEF PageInv, Stamped
<1>9. Shown'
  BY <1>1, <1>3, <1>4 DEF PageInv, Shown, Waiting
<1>10. DossierStays'
  <2>1. ASSUME NEW d \in Calls,
               calls'[d].got["dossier"] # 0 \/ calls'[d].kind \in {"decide", "export"}
        PROVE  Gone' \/ rows'["dossier"] # 0
    <3>1. CASE d = l
      BY <1>1, <1>3, <1>6, <2>1, <3>1 DEF PageInv, DossierStays
    <3>2. CASE d # l
      BY <1>1, <1>3, <2>1, <3>2 DEF PageInv, DossierStays
    <3> QED
      BY <3>1, <3>2
  <2> QED
    BY <1>1, <1>3, <2>1 DEF PageInv, DossierStays
<1>11. StoredStays'
  BY <1>1, <1>3, <1>4 DEF PageInv, StoredStays
<1>12. NewestFollows'
  <2>1. PICK m \in Loads : /\ \A n \in Loads : n <= m
                           /\ \A d \in Calls : calls[d].ui = "told" => Follows(m, d)
    BY DEF PageInv, NewestFollows
  <2>2. m \in Calls
    BY DEF Loads
  <2>3. ASSUME NEW d \in Calls, calls'[d].ui = "told" PROVE Follows(m, d)'
    <3> SUFFICES ASSUME NEW j \in Row, Stores(d, j), ~Gone
                 PROVE  /\ (calls'[m].pc = "reading" /\ j \notin calls'[m].todo) =>
                             calls'[m].got[j] >= calls'[d].made
                        /\ shown' = m => view'[j] >= calls'[d].made
      BY <1>3 DEF Follows
    <3>1. Follows(m, d) /\ calls'[d].made = calls[d].made
      BY <1>4, <2>1, <2>3
    <3>2. /\ (calls[m].pc = "reading" /\ j \notin calls[m].todo) =>
                calls[m].got[j] >= calls[d].made
          /\ shown = m => view[j] >= calls[d].made
      BY <3>1 DEF Follows
    <3>3. rows[j] >= calls[d].made
      <4>1. calls[d].kind # "load" /\ calls[d].ui = "told"
        BY <1>4, <2>3 DEF Stores
      <4>2. calls[d].pc = "stored"
        BY <4>1 DEF PageInv, StoredStays
      <4> QED
        BY <4>2 DEF PageInv, StoredStays
    <3>4. CASE m = l
      BY <1>1, <1>2, <1>6, <3>1, <3>2, <3>3, <3>4
    <3>5. CASE m # l
      BY <1>1, <1>3, <2>2, <3>1, <3>2, <3>5
    <3> QED
      BY <3>4, <3>5
  <2> QED
    BY <1>3, <2>1, <2>3 DEF NewestFollows
<1>13. Entitled'
  <2>1. UserLasts
    BY SameUser DEF AnswerRow
  <2> QED
    BY <1>3, <1>4, <2>1, ReasonsLast
<1> QED
  BY <1>7, <1>8, <1>9, <1>10, <1>11, <1>12, <1>13 DEF PageInv

\* How a load ends: its rows are shown, or none of them.
Ended(l) ==
  /\ Touches(l, calls') /\ calls[l].kind = "load" /\ calls[l].pc = "reading"
  /\ calls'[l].pc \in {"done", "failed"} /\ calls'[l].ui \in {"told", "lost"}
  /\ calls'[l].made = calls[l].made /\ calls'[l].todo = {} /\ calls'[l].got = Nothing
  /\ rows' = rows /\ clock' = clock /\ loading' = FALSE /\ error' \in BOOLEAN
  /\ \/ view' = view /\ shown' = shown
     \/ view' = calls[l].got /\ shown' = l /\ calls[l].todo = {}
  /\ UserLasts

\* A load that ends keeps the invariant.
LEMMA EndedKeeps ==
  ASSUME PageInv, NEW l \in Calls, Ended(l)
  PROVE  PageInv'
<1>1. /\ calls[l].kind = "load" /\ calls[l].pc = "reading"
      /\ calls'[l].pc \in {"done", "failed"} /\ calls'[l].ui \in {"told", "lost"}
      /\ calls'[l].made = calls[l].made /\ calls'[l].got = Nothing
      /\ rows' = rows /\ clock' = clock /\ loading' = FALSE /\ error' \in BOOLEAN
  BY DEF Ended
<1>2. \/ view' = view /\ shown' = shown
      \/ view' = calls[l].got /\ shown' = l /\ calls[l].todo = {}
  BY DEF Ended
<1>3. /\ calls' \in Seq(CallRecord) /\ Calls' = Calls /\ Loads' = Loads
      /\ \A d \in Calls : calls'[d].kind = calls[d].kind
      /\ \A d \in Calls : d # l =>
           /\ calls'[d].pc = calls[d].pc /\ calls'[d].ui = calls[d].ui
           /\ calls'[d].made = calls[d].made
           /\ calls'[d].todo = calls[d].todo /\ calls'[d].got = calls[d].got
      /\ \A d \in Calls, j \in Row : Stores(d, j)' <=> Stores(d, j)
      /\ Gone' <=> Gone
      /\ "dossier" \in Row
  BY BrowserFrame DEF Ended
<1>4. l \in Loads
  BY <1>1 DEF Loads
<1>5. /\ calls[l].got \in [Row -> Nat] /\ rows \in [Row -> Nat] /\ clock \in Nat
      /\ view \in [Row -> Nat] /\ \A j \in Row : Nothing[j] = 0
  BY Numbered DEF PageInv, Shape, Calls, Nothing
<1>6. \A d \in Calls : calls'[d].made = calls[d].made
  BY <1>1, <1>3
<1>7. view' \in [Row -> Nat] /\ \A j \in Row : view'[j] <= clock
  BY <1>2, <1>5 DEF PageInv, Stamped
<1>8. Shape'
  <2>1. \A d \in Calls : calls'[d].kind = "load" <=> calls'[d].pc \in {"reading", "done", "failed"}
    BY <1>1, <1>3 DEF PageInv, Shape
  <2> QED
    BY <1>1, <1>3, <1>7, <2>1 DEF PageInv, Shape
<1>9. Stamped'
  <2>1. \A d \in Calls : calls'[d].made <= clock'
    BY <1>1, <1>6 DEF PageInv, Stamped
  <2>2. ASSUME NEW d \in Calls, NEW j \in Row PROVE calls'[d].got[j] <= clock'
    BY <1>1, <1>3, <1>5 DEF PageInv, Stamped
  <2> QED
    BY <1>1, <1>3, <1>7, <2>1, <2>2 DEF PageInv, Stamped
<1>10. Shown'
  BY <1>1, <1>2, <1>3, <1>4 DEF PageInv, Shown
<1>11. DossierStays'
  <2>1. view'["dossier"] # 0 => Gone' \/ rows'["dossier"] # 0
    BY <1>1, <1>2, <1>3 DEF PageInv, DossierStays
  <2>2. ASSUME NEW d \in Calls,
               calls'[d].got["dossier"] # 0 \/ calls'[d].kind \in {"decide", "export"}
        PROVE  Gone' \/ rows'["dossier"] # 0
    <3>1. d # l
      BY <1>1, <1>3, <1>5, <2>2
    <3> QED
      BY <1>1, <1>3, <2>2, <3>1 DEF PageInv, DossierStays
  <2> QED
    BY <1>1, <1>3, <2>1, <2>2 DEF PageInv, DossierStays
<1>12. StoredStays'
  <2>1. ASSUME NEW d \in Calls
        PROVE  /\ calls'[d].pc = "stored" =>
                    \A j \in Row : Stores(d, j) => Gone' \/ rows'[j] >= calls'[d].made
               /\ calls'[d].ui = "told" => calls'[d].kind = "load" \/ calls'[d].pc = "stored"
    <3>1. CASE d = l
      BY <1>1, <1>3, <3>1
    <3>2. CASE d # l
      BY <1>1, <1>3, <3>2 DEF PageInv, StoredStays
    <3> QED
      BY <3>1, <3>2
  <2> QED
    BY <1>3, <2>1 DEF StoredStays
<1>13. NewestFollows'
  <2>1. PICK m \in Loads : /\ \A n \in Loads : n <= m
                           /\ \A d \in Calls : calls[d].ui = "told" => Follows(m, d)
    BY DEF PageInv, NewestFollows
  <2>2. m \in Calls
    BY DEF Loads
  <2>3. ASSUME NEW d \in Calls, calls'[d].ui = "told" PROVE Follows(m, d)'
    <3> SUFFICES ASSUME NEW j \in Row, Stores(d, j), ~Gone
                 PROVE  /\ (calls'[m].pc = "reading" /\ j \notin calls'[m].todo) =>
                             calls'[m].got[j] >= calls'[d].made
                        /\ shown' = m => view'[j] >= calls'[d].made
      BY <1>3 DEF Follows
    <3>1. d # l /\ calls[d].ui = "told" /\ calls'[d].made = calls[d].made
      BY <1>1, <1>3, <1>6, <2>3 DEF Stores
    <3>2. /\ (calls[m].pc = "reading" /\ j \notin calls[m].todo) =>
                calls[m].got[j] >= calls[d].made
          /\ shown = m => view[j] >= calls[d].made
      BY <2>1, <3>1 DEF Follows
    <3>3. CASE m = l
      BY <1>1, <1>2, <3>1, <3>2, <3>3
    <3>4. CASE m # l
      BY <1>2, <1>3, <2>2, <3>1, <3>2, <3>4
    <3> QED
      BY <3>3, <3>4
  <2> QED
    BY <1>3, <2>1, <2>3 DEF NewestFollows
<1>14. Entitled'
  <2>1. HasReason(calls[l].pc)'
    BY <1>1 DEF HasReason
  <2>2. \A d \in Calls' : (d \in Calls /\ calls'[d].pc = calls[d].pc) \/ HasReason(calls[d].pc)'
    BY <1>3, <2>1
  <2> QED
    BY <1>3, <2>2, ReasonsLast DEF Ended
<1> QED
  BY <1>8, <1>9, <1>10, <1>11, <1>12, <1>13, <1>14 DEF PageInv

\* Both ways for a load to end.
LEMMA LoadEndKeeps ==
  ASSUME PageInv, NEW l \in Calls, ShowLoad(l) \/ LoadFails(l)
  PROVE  PageInv'
<1>1. /\ calls \in Seq(CallRecord) /\ error \in BOOLEAN
      /\ "done" \in Place /\ "failed" \in Place
  BY DEF PageInv, Shape, Place
<1>2. CASE ShowLoad(l)
  <2>1. /\ calls[l].kind = "load" /\ calls[l].pc = "reading" /\ calls[l].todo = {}
        /\ view' = calls[l].got /\ shown' = l /\ loading' = FALSE
        /\ calls' = End(l, "done", "told") /\ UNCHANGED <<rows, clock, error, user>>
    BY <1>2 DEF ShowLoad, At
  <2>2. /\ Touches(l, calls')
        /\ calls'[l].pc = "done" /\ calls'[l].ui = "told" /\ calls'[l].made = calls[l].made
        /\ calls'[l].todo = {} /\ calls'[l].got = Nothing
    BY <1>1, <2>1, EndEffect
  <2>3. Ended(l)
    BY <1>1, <2>1, <2>2, SameUser DEF Ended
  <2> QED
    BY <2>3, EndedKeeps
<1>3. CASE LoadFails(l)
  <2>1. PICK cs : cs = End(l, "failed", "lost")
    OBVIOUS
  <2>2. /\ calls[l].kind = "load" /\ calls[l].pc = "reading"
        /\ error' = TRUE /\ loading' = FALSE
        /\ calls' = Unmounted(cs) /\ UNCHANGED <<rows, clock, view, shown, user>>
    BY <1>3, <2>1 DEF LoadFails, At
  <2>3. /\ Touches(l, cs)
        /\ cs[l].pc = "failed" /\ cs[l].ui = "lost" /\ cs[l].made = calls[l].made
        /\ cs[l].todo = {} /\ cs[l].got = Nothing
    BY <1>1, <2>1, EndEffect
  <2>4. /\ Unmounted(cs) \in Seq(CallRecord) /\ DOMAIN Unmounted(cs) = DOMAIN cs
        /\ \A c \in DOMAIN cs : Like(Unmounted(cs)[c], cs[c])
    BY <2>3, UnmountedEffect DEF Touches
  <2>5. Touches(l, calls') /\ Like(calls'[l], cs[l])
    BY <2>2, <2>3, <2>4 DEF Touches, Like, Calls
  <2>6. Ended(l)
    BY <2>2, <2>3, <2>5, SameUser DEF Ended, Like
  <2> QED
    BY <2>6, EndedKeeps
<1> QED
  BY <1>2, <1>3

\* The user is told of an export, or told nothing.
Told(c) ==
  /\ Touches(c, calls') /\ calls[c].kind # "load"
  /\ calls'[c].pc = calls[c].pc /\ calls'[c].made = calls[c].made
  /\ calls'[c].todo = calls[c].todo /\ calls'[c].got = calls[c].got
  /\ \/ calls'[c].ui = "lost"
     \/ calls'[c].ui = "told" /\ calls[c].kind = "export" /\ calls[c].pc = "stored"
  /\ rows' = rows /\ clock' = clock /\ UNCHANGED page /\ UserLasts

\* What the browser learns of a request without loading keeps the invariant.
LEMMA ToldKeeps ==
  ASSUME PageInv, NEW c \in Calls, Told(c)
  PROVE  PageInv'
<1>1. /\ calls[c].kind # "load"
      /\ calls'[c].pc = calls[c].pc /\ calls'[c].made = calls[c].made
      /\ calls'[c].todo = calls[c].todo /\ calls'[c].got = calls[c].got
      /\ calls'[c].ui = "told" => calls[c].kind = "export" /\ calls[c].pc = "stored"
      /\ rows' = rows /\ clock' = clock
      /\ view' = view /\ shown' = shown /\ loading' = loading /\ error' = error
  BY DEF Told, page
<1>2. /\ calls' \in Seq(CallRecord) /\ Calls' = Calls /\ Loads' = Loads
      /\ \A d \in Calls : calls'[d].kind = calls[d].kind
      /\ \A d \in Calls : d # c =>
           /\ calls'[d].pc = calls[d].pc /\ calls'[d].ui = calls[d].ui
           /\ calls'[d].made = calls[d].made
           /\ calls'[d].todo = calls[d].todo /\ calls'[d].got = calls[d].got
      /\ \A d \in Calls, j \in Row : Stores(d, j)' <=> Stores(d, j)
      /\ Gone' <=> Gone
      /\ "dossier" \in Row
  BY BrowserFrame DEF Told
<1>3. \A d \in Calls : /\ calls'[d].pc = calls[d].pc /\ calls'[d].made = calls[d].made
                       /\ calls'[d].todo = calls[d].todo /\ calls'[d].got = calls[d].got
  BY <1>1, <1>2
<1>4. Shape'
  BY <1>1, <1>2, <1>3 DEF PageInv, Shape
<1>5. Stamped'
  BY <1>1, <1>2, <1>3 DEF PageInv, Stamped
<1>6. Shown'
  <2>1. \A l \in Loads : l \in Calls /\ l # c
    BY <1>1 DEF Loads
  <2>2. \A l \in Loads : Waiting(l) => Waiting(l)'
    BY <1>2, <2>1 DEF Waiting
  <2> QED
    BY <1>1, <1>2, <2>2 DEF PageInv, Shown
<1>7. DossierStays'
  <2>1. \A d \in Calls : (calls'[d].got["dossier"] # 0 \/ calls'[d].kind \in {"decide", "export"})
                           => Gone' \/ rows'["dossier"] # 0
    BY <1>1, <1>2, <1>3 DEF PageInv, DossierStays
  <2> QED
    BY <1>1, <1>2, <2>1 DEF PageInv, DossierStays
<1>8. StoredStays'
  <2>1. ASSUME NEW d \in Calls
        PROVE  /\ calls'[d].pc = "stored" =>
                    \A j \in Row : Stores(d, j) => Gone' \/ rows'[j] >= calls'[d].made
               /\ calls'[d].ui = "told" => calls'[d].kind = "load" \/ calls'[d].pc = "stored"
    <3>1. CASE d = c
      BY <1>1, <1>2, <3>1 DEF PageInv, StoredStays
    <3>2. CASE d # c
      BY <1>1, <1>2, <3>2 DEF PageInv, StoredStays
    <3> QED
      BY <3>1, <3>2
  <2> QED
    BY <1>2, <2>1 DEF StoredStays
<1>9. NewestFollows'
  <2>1. PICK m \in Loads : /\ \A n \in Loads : n <= m
                           /\ \A d \in Calls : calls[d].ui = "told" => Follows(m, d)
    BY DEF PageInv, NewestFollows
  <2>2. m \in Calls
    BY DEF Loads
  <2>3. ASSUME NEW d \in Calls, calls'[d].ui = "told" PROVE Follows(m, d)'
    <3> SUFFICES ASSUME NEW j \in Row, Stores(d, j), ~Gone
                 PROVE  /\ (calls'[m].pc = "reading" /\ j \notin calls'[m].todo) =>
                             calls'[m].got[j] >= calls'[d].made
                        /\ shown' = m => view'[j] >= calls'[d].made
      BY <1>2 DEF Follows
    <3>1. d # c /\ calls[d].ui = "told" /\ calls'[d].made = calls[d].made
      BY <1>1, <1>2, <1>3, <2>3 DEF Stores
    <3>2. /\ (calls[m].pc = "reading" /\ j \notin calls[m].todo) =>
                calls[m].got[j] >= calls[d].made
          /\ shown = m => view[j] >= calls[d].made
      BY <2>1, <3>1 DEF Follows
    <3> QED
      BY <1>1, <1>3, <2>2, <3>1, <3>2
  <2> QED
    BY <1>2, <2>1, <2>3 DEF NewestFollows
<1>10. Entitled'
  BY <1>2, <1>3, ReasonsLast DEF Told
<1> QED
  BY <1>4, <1>5, <1>6, <1>7, <1>8, <1>9, <1>10 DEF PageInv

\* One call more at the end, new and with nothing read.
LEMMA OneMore ==
  ASSUME NEW cs \in Seq(CallRecord), NEW r \in CallRecord
  PROVE  /\ Append(cs, r) \in Seq(CallRecord)
         /\ Len(cs) + 1 \in Nat \ {0} /\ Len(cs) + 1 \notin DOMAIN cs
         /\ \A c \in DOMAIN cs : c <= Len(cs) + 1
         /\ DOMAIN Append(cs, r) = DOMAIN cs \cup {Len(cs) + 1}
         /\ Append(cs, r)[Len(cs) + 1] = r
         /\ \A c \in DOMAIN cs : Append(cs, r)[c] = cs[c]
<1>1. Len(cs) \in Nat /\ DOMAIN cs = 1..Len(cs)
  OBVIOUS
<1> QED
  BY <1>1

\* A call n is new, and of the others at most their place in the browser changed.
Added(n) ==
  /\ calls' \in Seq(CallRecord) /\ Calls' = Calls \cup {n} /\ n \notin Calls /\ n \in Nat \ {0}
  /\ \A c \in Calls : c <= n
  /\ calls'[n].made = 0 /\ calls'[n].got = Nothing /\ calls'[n].ui = "waiting"
  /\ rows' = rows /\ clock' = clock /\ view' = view /\ shown' = shown
  /\ loading' \in BOOLEAN /\ error' \in BOOLEAN
  /\ \A d \in Calls :
       /\ calls'[d].kind = calls[d].kind /\ calls'[d].pc = calls[d].pc
       /\ calls'[d].made = calls[d].made
       /\ calls'[d].todo = calls[d].todo /\ calls'[d].got = calls[d].got
  /\ UserLasts

\* All of the invariant but what is told and shown, when a call is added.
LEMMA AddedKeeps ==
  ASSUME PageInv, NEW n, Added(n),
         calls'[n].kind = "load" <=> calls'[n].pc = "reading",
         calls'[n].pc \in {"reading", "sent"},
         calls'[n].kind \in {"decide", "export"} => view["dossier"] # 0
  PROVE  /\ Shape' /\ Stamped' /\ DossierStays' /\ Entitled'
         /\ \A d \in Calls, j \in Row : Stores(d, j)' <=> Stores(d, j)
         /\ Loads \subseteq Loads' /\ Loads' \subseteq Loads \cup {n}
         /\ Gone' <=> Gone
<1>1. /\ calls' \in Seq(CallRecord) /\ Calls' = Calls \cup {n} /\ n \notin Calls
      /\ calls'[n].made = 0 /\ calls'[n].got = Nothing /\ calls'[n].ui = "waiting"
      /\ rows' = rows /\ clock' = clock /\ view' = view /\ shown' = shown
      /\ loading' \in BOOLEAN /\ error' \in BOOLEAN
  BY DEF Added
<1>2. \A d \in Calls :
        /\ calls'[d].kind = calls[d].kind /\ calls'[d].pc = calls[d].pc
        /\ calls'[d].made = calls[d].made
        /\ calls'[d].todo = calls[d].todo /\ calls'[d].got = calls[d].got
  BY DEF Added
<1>3. /\ clock \in Nat /\ "dossier" \in Row /\ \A j \in Row : Nothing[j] = 0
  BY DEF PageInv, Shape, Row, Nothing
<1>4. \A d \in Calls, j \in Row : Stores(d, j)' <=> Stores(d, j)
  BY <1>2 DEF Stores
<1>5. Loads \subseteq Loads' /\ Loads' \subseteq Loads \cup {n}
  BY <1>1, <1>2 DEF Loads
<1>6. Gone' <=> Gone
  BY <1>1 DEF Gone
<1>7. Shape'
  <2>1. \A d \in Calls' : calls'[d].kind = "load" <=> calls'[d].pc \in {"reading", "done", "failed"}
    BY <1>1, <1>2 DEF PageInv, Shape
  <2> QED
    BY <1>1, <2>1 DEF PageInv, Shape
<1>8. Stamped'
  <2>1. \A d \in Calls' : calls'[d].made <= clock
    BY <1>1, <1>2, <1>3 DEF PageInv, Stamped
  <2>2. ASSUME NEW d \in Calls', NEW j \in Row PROVE calls'[d].got[j] <= clock
    BY <1>1, <1>2, <1>3 DEF PageInv, Stamped
  <2> QED
    BY <1>1, <2>1, <2>2 DEF PageInv, Stamped
<1>9. DossierStays'
  <2>1. ASSUME NEW d \in Calls',
               calls'[d].got["dossier"] # 0 \/ calls'[d].kind \in {"decide", "export"}
        PROVE  Gone' \/ rows'["dossier"] # 0
    <3>1. CASE d = n
      BY <1>1, <1>3, <1>6, <2>1, <3>1 DEF PageInv, DossierStays
    <3>2. CASE d # n
      <4>1. /\ d \in Calls
            /\ calls[d].got["dossier"] # 0 \/ calls[d].kind \in {"decide", "export"}
        BY <1>1, <1>2, <2>1, <3>2
      <4> QED
        BY <1>1, <1>6, <4>1 DEF PageInv, DossierStays
    <3> QED
      BY <3>1, <3>2
  <2> QED
    BY <1>1, <1>6, <2>1 DEF PageInv, DossierStays
<1>10. Entitled'
  <2>1. HasReason(calls[n].pc)'
    BY DEF HasReason
  <2>2. \A d \in Calls' : (d \in Calls /\ calls'[d].pc = calls[d].pc) \/ HasReason(calls[d].pc)'
    BY <1>1, <1>2, <2>1
  <2> QED
    BY <1>6, <2>2, ReasonsLast DEF Added
<1> QED
  BY <1>4, <1>5, <1>6, <1>7, <1>8, <1>9, <1>10

\* The user clicks.
LEMMA ClickKeeps ==
  ASSUME PageInv, NEW kind \in Command, Click(kind)
  PROVE  PageInv'
<1>1. PICK r : r = Call(kind, "sent")
  OBVIOUS
<1>2. /\ r \in CallRecord /\ r.kind = kind /\ r.kind # "load" /\ r.pc = "sent"
      /\ r.ui = "waiting" /\ r.made = 0 /\ r.got = Nothing
  BY <1>1 DEF Call, CallRecord, Kind, Place, Nothing, Command
<1>3. PICK n : n = Len(calls) + 1
  OBVIOUS
<1>4. calls \in Seq(CallRecord) /\ loading \in BOOLEAN /\ error \in BOOLEAN
  BY DEF PageInv, Shape
<1>5. /\ calls' = Append(calls, r) /\ rows' = rows /\ clock' = clock
      /\ view' = view /\ shown' = shown /\ loading' = loading /\ error' = error
      /\ kind \in {"decide", "export"} => view["dossier"] # 0
      /\ UNCHANGED user
  BY <1>1 DEF Click, Offered, page
<1>6. /\ calls' \in Seq(CallRecord) /\ Calls' = Calls \cup {n} /\ n \notin Calls
      /\ n \in Nat \ {0} /\ calls'[n] = r /\ \A d \in Calls : calls'[d] = calls[d] /\ d <= n
  BY <1>2, <1>3, <1>4, <1>5, OneMore DEF Calls
<1>7. Added(n)
  BY <1>2, <1>4, <1>5, <1>6, SameUser DEF Added
<1>8. /\ Shape' /\ Stamped' /\ DossierStays' /\ Entitled'
      /\ \A d \in Calls, j \in Row : Stores(d, j)' <=> Stores(d, j)
      /\ Loads \subseteq Loads' /\ Loads' \subseteq Loads \cup {n} /\ (Gone' <=> Gone)
  BY <1>2, <1>5, <1>6, <1>7, AddedKeeps
<1>9. Loads' = Loads
  BY <1>2, <1>6, <1>8 DEF Loads
<1>10. Shown'
  <2>1. \A l \in Loads : Waiting(l) => Waiting(l)'
    BY <1>6 DEF Waiting, Loads
  <2> QED
    BY <1>5, <1>9, <2>1 DEF PageInv, Shown
<1>11. StoredStays'
  BY <1>2, <1>5, <1>6, <1>8 DEF PageInv, StoredStays
<1>12. NewestFollows'
  <2>1. PICK m \in Loads : /\ \A l \in Loads : l <= m
                           /\ \A d \in Calls : calls[d].ui = "told" => Follows(m, d)
    BY DEF PageInv, NewestFollows
  <2>2. m \in Calls /\ calls'[m] = calls[m]
    BY <1>6 DEF Loads
  <2>3. ASSUME NEW d \in Calls', calls'[d].ui = "told" PROVE Follows(m, d)'
    <3>1. d \in Calls /\ calls'[d] = calls[d]
      BY <1>2, <1>6, <2>3
    <3>2. Follows(m, d)
      BY <2>1, <2>3, <3>1
    <3> QED
      BY <1>5, <1>8, <2>2, <3>1, <3>2 DEF Follows
  <2> QED
    BY <1>9, <2>1, <2>3 DEF NewestFollows
<1> QED
  BY <1>8, <1>10, <1>11, <1>12 DEF PageInv

\* The answer to a request: a report just ends, and after the others the page loads.
LEMMA FinishKeeps ==
  ASSUME PageInv, NEW c \in Calls, Finish(c)
  PROVE  PageInv'
<1>1. /\ calls \in Seq(CallRecord) /\ loading \in BOOLEAN /\ error \in BOOLEAN
      /\ "stored" \in Place
  BY DEF PageInv, Shape, Place
<1>2. PICK cs : cs = Set(c, "stored", "told")
  OBVIOUS
<1>3. /\ Touches(c, cs)
      /\ cs[c].pc = "stored" /\ cs[c].ui = "told" /\ cs[c].made = calls[c].made
      /\ cs[c].todo = calls[c].todo /\ cs[c].got = calls[c].got
  BY <1>1, <1>2, SetEffect
<1>4. /\ calls[c].pc = "stored" /\ rows' = rows /\ clock' = clock /\ UNCHANGED user
      /\ \/ calls[c].kind = "export" /\ calls' = cs /\ UNCHANGED page
         \/ /\ calls[c].kind # "export" /\ calls' = Append(Unmounted(cs), Load)
            /\ loading' = TRUE /\ error' = FALSE /\ UNCHANGED <<view, shown>>
  BY <1>2 DEF Finish
<1>5. calls[c].kind # "load"
  BY <1>4 DEF PageInv, Shape
<1>6. CASE calls[c].kind = "export" /\ calls' = cs /\ UNCHANGED page
  <2>1. Told(c)
    BY <1>3, <1>4, <1>5, <1>6, SameUser DEF Told
  <2> QED
    BY <2>1, ToldKeeps
<1>7. CASE /\ calls[c].kind # "export" /\ calls' = Append(Unmounted(cs), Load)
           /\ loading' = TRUE /\ error' = FALSE /\ UNCHANGED <<view, shown>>
  <2>1. PICK us : us = Unmounted(cs)
    OBVIOUS
  <2>2. PICK r : r = Load
    OBVIOUS
  <2>3. /\ r \in CallRecord /\ r.kind = "load" /\ r.pc = "reading" /\ r.ui = "waiting"
        /\ r.made = 0 /\ r.todo = Row /\ r.got = Nothing
    BY <2>2 DEF Load, Call, CallRecord, Kind, Place, Nothing
  <2>4. us \in Seq(CallRecord) /\ DOMAIN us = DOMAIN cs /\ \A d \in DOMAIN cs : Like(us[d], cs[d])
    BY <1>3, <2>1, UnmountedEffect DEF Touches
  <2>5. /\ DOMAIN us = Calls /\ Like(us[c], cs[c])
        /\ \A d \in Calls : us[d].kind = calls[d].kind
        /\ \A d \in Calls : d # c => Like(us[d], calls[d])
    BY <1>3, <2>4 DEF Touches, Like
  <2>6. PICK n : n = Len(us) + 1
    OBVIOUS
  <2>7. /\ calls' \in Seq(CallRecord) /\ Calls' = Calls \cup {n} /\ n \notin Calls
        /\ n \in Nat \ {0} /\ calls'[n] = r /\ \A d \in Calls : calls'[d] = us[d] /\ d <= n
    BY <1>7, <2>1, <2>2, <2>3, <2>4, <2>5, <2>6, OneMore DEF Calls
  <2>8. \A d \in Calls :
          /\ calls'[d].kind = calls[d].kind /\ calls'[d].pc = calls[d].pc
          /\ calls'[d].made = calls[d].made
          /\ calls'[d].todo = calls[d].todo /\ calls'[d].got = calls[d].got
    BY <1>3, <1>4, <2>5, <2>7 DEF Like
  <2>9. \A d \in Calls : d # c => calls'[d].ui = calls[d].ui
    BY <2>5, <2>7 DEF Like
  <2>10. Added(n)
    BY <1>4, <1>7, <2>3, <2>7, <2>8, SameUser DEF Added
  <2>11. /\ Shape' /\ Stamped' /\ DossierStays' /\ Entitled'
         /\ \A d \in Calls, j \in Row : Stores(d, j)' <=> Stores(d, j)
         /\ Loads \subseteq Loads' /\ Loads' \subseteq Loads \cup {n} /\ (Gone' <=> Gone)
    BY <2>3, <2>7, <2>10, AddedKeeps
  <2>12. n \in Loads' /\ Waiting(n)'
    BY <2>3, <2>7 DEF Loads, Waiting
  <2>13. Shown'
    BY <1>7, <2>11, <2>12 DEF PageInv, Shown
  <2>14. StoredStays'
    <3>1. ASSUME NEW d \in Calls
          PROVE  /\ calls'[d].pc = "stored" =>
                      \A j \in Row : Stores(d, j)' => Gone' \/ rows'[j] >= calls'[d].made
                 /\ calls'[d].ui = "told" => calls'[d].kind = "load" \/ calls'[d].pc = "stored"
      <4>1. calls'[d].pc = "stored" =>
              \A j \in Row : Stores(d, j)' => Gone' \/ rows'[j] >= calls'[d].made
        BY <1>4, <2>8, <2>11 DEF PageInv, StoredStays
      <4>2. calls'[d].ui = "told" => calls'[d].kind = "load" \/ calls'[d].pc = "stored"
        BY <1>4, <2>8, <2>9 DEF PageInv, StoredStays
      <4> QED
        BY <4>1, <4>2
    <3>2. calls'[n].pc # "stored" /\ calls'[n].ui # "told"
      BY <2>3, <2>7
    <3> QED
      BY <2>7, <3>1, <3>2 DEF StoredStays
  <2>15. NewestFollows'
    <3>1. \A m \in Loads' : m <= n
      BY <2>7 DEF Loads
    <3>2. shown' # n
      <4>1. shown \in Calls \cup {0}
        BY DEF PageInv, Shown, Loads
      <4> QED
        BY <1>7, <2>7, <4>1
    <3>3. ASSUME NEW d \in Calls' PROVE Follows(n, d)'
      BY <2>3, <2>7, <3>2 DEF Follows
    <3> QED
      BY <2>12, <3>1, <3>3 DEF NewestFollows
  <2> QED
    BY <2>11, <2>13, <2>14, <2>15 DEF PageInv
<1> QED
  BY <1>4, <1>6, <1>7

\* An answer that does not come, or is an error.
LEMMA LoseKeeps ==
  ASSUME PageInv, NEW c \in Calls, Lose(c)
  PROVE  PageInv'
<1>1. /\ calls \in Seq(CallRecord) /\ calls[c] \in CallRecord
  BY Numbered DEF PageInv, Shape, Calls
<1>2. PICK pc \in Place : pc = calls[c].pc
  BY <1>1 DEF CallRecord
<1>3. /\ calls[c].kind \in Command /\ calls' = Set(c, pc, "lost")
      /\ UNCHANGED <<rows, clock, page, user>>
  BY <1>2 DEF Lose
<1>4. /\ Touches(c, calls')
      /\ calls'[c].pc = pc /\ calls'[c].ui = "lost" /\ calls'[c].made = calls[c].made
      /\ calls'[c].todo = calls[c].todo /\ calls'[c].got = calls[c].got
  BY <1>1, <1>3, SetEffect
<1>5. Told(c)
  BY <1>2, <1>3, <1>4, SameUser DEF Told, Command
<1> QED
  BY <1>5, ToldKeeps

\* Every step keeps the invariant.
LEMMA PageSteps == PageInv /\ [Next]_vars => PageInv'
<1> SUFFICES ASSUME PageInv, [Next]_vars PROVE PageInv'
  OBVIOUS
<1>1. CASE OtherStores \/ OtherDeletes \/ TokenExpires
  BY <1>1, OtherStepsKeep
<1>2. CASE \E kind \in Command : Click(kind)
  BY <1>2, ClickKeeps
<1>3. CASE \E c \in Calls : Proceed(c) \/ Serve(c) \/ Finish(c) \/ Lose(c)
  <2> PICK c \in Calls : Proceed(c) \/ Serve(c) \/ Finish(c) \/ Lose(c)
    BY <1>3
  <2>1. CASE Proceed(c)
    BY <2>1, AnswerKeeps, LoadEndKeeps DEF Proceed
  <2>2. CASE Serve(c)
    BY <2>2, ServeKeeps
  <2>3. CASE Finish(c)
    BY <2>3, FinishKeeps
  <2>4. CASE Lose(c)
    BY <2>4, LoseKeeps
  <2> QED
    BY <2>1, <2>2, <2>3, <2>4
<1>4. CASE UNCHANGED vars
  <2>1. rows' = rows /\ clock' = clock /\ UNCHANGED <<page, calls, user>>
    BY <1>4 DEF vars
  <2>2. RowsGrow
    BY <2>1, SameRows
  <2> QED
    BY <2>1, <2>2, OthersKeep, SameUser
<1> QED
  BY <1>1, <1>2, <1>3, <1>4 DEF Next

\* PageInv holds in every state of the page.
THEOREM PageInvariant == Spec => []PageInv
  BY Opened, PageSteps, PTL DEF Spec

-----------------------------------------------------------------------------
(* What the invariant gives.                                                *)

\* The state of the page is of its types, and a loading message is some load's.
THEOREM PageTypeCorrect == Spec => []TypeOK
<1>1. PageInv => TypeOK
  <2> SUFFICES ASSUME PageInv PROVE TypeOK
    OBVIOUS
  <2>1. /\ rows \in [Row -> Nat] /\ view \in [Row -> Nat] /\ clock \in Nat
        /\ loading \in BOOLEAN /\ error \in BOOLEAN /\ calls \in Seq(CallRecord)
    BY DEF PageInv, Shape
  <2>2. rows \in [Row -> 0..clock] /\ view \in [Row -> 0..clock]
    BY <2>1 DEF PageInv, Stamped
  <2>3. ASSUME NEW c \in Calls
        PROVE  /\ calls[c].kind \in Command \cup {"load"} /\ calls[c].todo \subseteq Row
               /\ calls[c].ui \in {"waiting", "told", "lost"} /\ calls[c].made \in 0..clock
    <3>1. calls[c] \in CallRecord
      BY <2>1, Numbered DEF Calls
    <3>2. /\ calls[c].kind \in Kind /\ calls[c].todo \subseteq Row
          /\ calls[c].ui \in {"waiting", "told", "lost"} /\ calls[c].made \in Nat
      BY <3>1 DEF CallRecord
    <3>3. calls[c].made <= clock
      BY DEF PageInv, Stamped
    <3> QED
      BY <2>1, <3>2, <3>3 DEF Kind
  <2> QED
    BY <2>1, <2>2, <2>3 DEF TypeOK, PageInv, Shown, Entitled
<1> QED
  BY <1>1, PageInvariant, PTL

\* However old what the page shows is, it gets no 404 or 409 but for a deletion, no
\* 403 but as a viewer's, and no 401 but with an expired token.
THEOREM OffersAreGood == Spec => []RefusedOnlyWhenDeleted
<1>1. PageInv => RefusedOnlyWhenDeleted
  BY DEF PageInv, Entitled, HasReason, RefusedOnlyWhenDeleted, Gone
<1> QED
  BY <1>1, PageInvariant, PTL

\* A page whose newest load was shown last shows what its user was told is stored.
THEOREM PageIsFresh == Spec => []FreshWhenInOrder
<1>1. PageInv => FreshWhenInOrder
  <2> SUFFICES ASSUME PageInv, shown = Max(Loads), NEW c \in Calls, calls[c].ui = "told", ~Gone
               PROVE  /\ calls[c].kind = "generate" => view["dossier"] >= calls[c].made
                      /\ calls[c].kind = "decide" => view["decision"] >= calls[c].made
    BY DEF FreshWhenInOrder, Gone
  <2>1. PICK l \in Loads : /\ \A m \in Loads : m <= l
                           /\ \A d \in Calls : calls[d].ui = "told" => Follows(l, d)
    BY DEF PageInv, NewestFollows
  <2>2. Loads \subseteq Nat
    BY Numbered DEF PageInv, Shape, Calls, Loads
  <2>3. \E x \in Loads : \A y \in Loads : x >= y
    BY <2>1, <2>2
  <2>4. Max(Loads) \in Loads /\ \A y \in Loads : Max(Loads) >= y
    BY <2>3 DEF Max
  <2>5. shown = l
    <3>1. shown \in Loads /\ shown \in Nat /\ l \in Nat
      BY <2>2, <2>4
    <3>2. shown <= l /\ shown >= l
      BY <2>1, <2>4, <3>1
    <3> QED
      BY <3>1, <3>2
  <2>6. "dossier" \in Row /\ "decision" \in Row
    BY DEF Row
  <2> QED
    BY <2>1, <2>5, <2>6 DEF Follows, Stores
<1> QED
  BY <1>1, PageInvariant, PTL
=============================================================================
