---------------------------- MODULE IncidentProofs ----------------------------
(***************************************************************************)
(* Proofs about the incidents and the service orders of Platform, and that  *)
(* its services implement TitleRegistry, for every set of pieces, users,    *)
(* staff, workers and row identifiers.  They rest on the invariant of       *)
(* PlatformProofs: no request is left without its row.                      *)
(***************************************************************************)
EXTENDS PlatformProofs

\* What a client can ask of a piece by hand: never that it is stolen or lost,
\* and never that it is sold.
ByHand == {"IN_STOCK", "AVAILABLE", "IN_SERVICE", "RETIRED"}

\* The status a request in flight is about to write by hand.
TargetsByHand ==
  \A w \in Worker : req[w].op = "setStatus" => req[w].target \in ByHand

\* The order an open transaction of complete has locked is still to be done,
\* and no other transaction holds it.
Completes(w, s) == req[w].op = "complete" /\ req[w].service = s

CompletingIsLive ==
  \A w \in Worker, s \in ServiceId : Completes(w, s) => Completable(s)

CompletingIsAlone ==
  \A v, w \in Worker, s \in ServiceId :
    Completes(v, s) /\ Completes(w, s) => v = w

\* The inductive invariant.
IncidentInv ==
  /\ TitleInv
  /\ TargetsByHand
  /\ CompletingIsLive
  /\ CompletingIsAlone
  /\ OneOpenIncident
  /\ ReportedHasOpenIncident

-----------------------------------------------------------------------------
(* The slots. *)

\* What a request may be when it enters a slot.
Admitted(w) ==
  \/ req'[w].op \notin {"setStatus", "request", "complete"}
  \/ req'[w].op = "setStatus" /\ req'[w].target \in ByHand
  \/ /\ req'[w].op = "request"
     /\ UNCHANGED rows
     /\ IsOwner(req'[w].piece, req'[w].from)
  \/ /\ req'[w].op = "complete"
     /\ UNCHANGED service
     /\ req'[w].service \in ServiceId
     /\ Completable(req'[w].service)
     /\ ~ServiceLocked(req'[w].service)

OneSlot(w) ==
  /\ \A v \in Worker : v # w => req'[v] = req[v]
  /\ Admitted(w)

LEMMA SlotTaken ==
  ASSUME TitleInv, NEW w \in Worker, NEW r \in Request, Serve(w, r),
         r.op \notin {"setStatus", "request", "complete"}
  PROVE OneSlot(w)
  BY SlotServed DEF OneSlot, Admitted, TitleInv

LEMMA SlotEmptied ==
  ASSUME TitleInv, NEW w \in Worker, Finish(w)
  PROVE OneSlot(w)
  BY FinishSound DEF OneSlot, Admitted, Idle

LEMMA PieceSlots ==
  ASSUME TitleInv, PieceNext
  PROVE UNCHANGED req \/ \E w \in Worker : OneSlot(w)
<1>1. ASSUME NEW p \in Piece, Register(p)
      PROVE UNCHANGED req
  BY <1>1 DEF Register
<1>2. ASSUME NEW w \in Worker, NEW p \in Piece, NEW s \in PieceStatus,
             UpdateStatusLoad(w, p, s)
      PROVE OneSlot(w)
  <2>1. s \in ByHand
    BY <1>2 DEF UpdateStatusLoad, AllowedTransitions, ByHand, PieceStatus
  <2>. QED
    BY <1>2, <2>1, SlotServed, RequestForms
    DEF UpdateStatusLoad, OneSlot, Admitted, TitleInv
<1>3. ASSUME NEW w \in Worker, NEW p \in Piece, RetireLoad(w, p)
      PROVE OneSlot(w)
  <2>. DEFINE r == [op |-> "setStatus", piece |-> p, target |-> "RETIRED"]
  <2>1. r \in Request /\ Serve(w, r)
    BY <1>3, RequestForms DEF RetireLoad, PieceStatus
  <2>2. r.op = "setStatus" /\ r.target \in ByHand
    BY DEF ByHand
  <2>. HIDE DEF r
  <2>. QED  BY <2>1, <2>2, SlotServed DEF OneSlot, Admitted, TitleInv
<1>4. ASSUME NEW w \in Worker, SetStatus(w)
      PROVE OneSlot(w)
  BY <1>4, SlotEmptied DEF SetStatus
<1>. QED  BY <1>1, <1>2, <1>3, <1>4 DEF PieceNext

LEMMA SaleSlots ==
  ASSUME TitleInv, SaleNext
  PROVE \E w \in Worker : OneSlot(w)
<1>1. ASSUME NEW w \in Worker, NEW p \in Piece, NEW u \in User,
             SaleCheck(w, p, u)
      PROVE OneSlot(w)
  <2>. DEFINE r == [op |-> "sale", piece |-> p, buyer |-> u]
  <2>1. r \in Request /\ Serve(w, r) /\ r.op = "sale"
    BY <1>1, RequestForms DEF SaleCheck
  <2>. HIDE DEF r
  <2>. QED  BY <2>1, SlotTaken
<1>2. ASSUME NEW w \in Worker, SaleCommit(w) \/ SaleConflict(w)
      PROVE OneSlot(w)
  BY <1>2, SlotEmptied DEF SaleCommit, SaleConflict
<1>. QED  BY <1>1, <1>2 DEF SaleNext

LEMMA ClaimSlots ==
  ASSUME TitleInv, ClaimNext
  PROVE UNCHANGED req \/ \E w \in Worker : OneSlot(w)
<1>1. ASSUME NEW w \in Worker, NEW p \in Piece, RedeemCheck(w, p)
      PROVE OneSlot(w)
  <2>1. sale[p] \in User
    BY <1>1 DEF RedeemCheck, Redeemable, ClaimSpentIffOwned, TypeOK, TitleInv
  <2>. DEFINE r == [op |-> "redeem", piece |-> p, actor |-> sale[p]]
  <2>2. r \in Request /\ Serve(w, r) /\ r.op = "redeem"
    BY <1>1, <2>1, RequestForms DEF RedeemCheck
  <2>. HIDE DEF r
  <2>. QED  BY <2>2, SlotTaken
<1>2. ASSUME NEW w \in Worker, RedeemExec(w)
      PROVE OneSlot(w)
  <2>. DEFINE r == [op |-> "redeeming", piece |-> req[w].piece,
                    actor |-> req[w].actor]
  <2>1. /\ [req[w] EXCEPT !.op = "redeeming"] = r
        /\ req[w].piece \in Piece /\ req[w].actor \in User
    BY <1>2, RequestFields DEF RedeemExec, TypeOK, TitleInv
  <2>2. Serve(w, r) /\ r \in Request /\ r.op = "redeeming"
    BY <1>2, <2>1, RequestForms DEF RedeemExec
  <2>. HIDE DEF r
  <2>. QED
    BY <2>2, SlotServed DEF OneSlot, Admitted, TitleInv
<1>3. ASSUME NEW w \in Worker, RedeemRefused(w) \/ RedeemCommit(w)
      PROVE OneSlot(w)
  BY <1>3, SlotEmptied DEF RedeemRefused, RedeemCommit
<1>4. ASSUME NEW p \in Piece, ClaimLapses(p)
      PROVE UNCHANGED req
  BY <1>4 DEF ClaimLapses
<1>. QED  BY <1>1, <1>2, <1>3, <1>4 DEF ClaimNext

LEMMA TransferSlots ==
  ASSUME TitleInv, TransferNext
  PROVE UNCHANGED req \/ \E w \in Worker : OneSlot(w)
<1>1. ASSUME NEW w \in Worker, NEW p \in Piece, NEW from \in User,
             NEW to \in User, RequestCheck(w, p, from, to)
      PROVE OneSlot(w)
  <2>. DEFINE r == [op |-> "request", piece |-> p, from |-> from, to |-> to]
  <2>1. r \in Request /\ Serve(w, r) /\ r.op = "request"
    BY <1>1, RequestForms DEF RequestCheck
  <2>2. r.piece = p /\ r.from = from
    OBVIOUS
  <2>3. IsOwner(p, from) /\ UNCHANGED rows
    BY <1>1 DEF RequestCheck
  <2>. HIDE DEF r
  <2>. QED
    BY <2>1, <2>2, <2>3, SlotServed DEF OneSlot, Admitted, TitleInv
<1>2. ASSUME NEW w \in Worker,
             \/ \E t \in TransferId : RequestCreate(w, t)
             \/ RequestConflict(w) \/ AcceptCommit(w)
      PROVE OneSlot(w)
  BY <1>2, SlotEmptied
  DEF RequestCreate, RequestConflict, AcceptCommit
<1>3. ASSUME NEW w \in Worker, NEW t \in TransferId, AcceptExec(w, t)
      PROVE OneSlot(w)
  <2>1. transfer[t].piece \in Piece
    BY <1>3 DEF AcceptExec, Answerable, TypeOK, TransferRow, Absent, TitleInv
  <2>2. OpenRows(transfer[t].piece) \in SUBSET Nat
    BY <2>1 DEF OpenRows, TypeOK, TitleInv
  <2>. QED
    BY <1>3, <2>2, SlotServed, RequestForms
    DEF AcceptExec, OneSlot, Admitted, TitleInv
<1>4. ASSUME NEW t \in TransferId, Reject(t) \/ Cancel(t) \/ Expire(t)
                                   \/ TransferLapses(t)
      PROVE UNCHANGED req
  BY <1>4 DEF Reject, Cancel, Settle, Expire, TransferLapses
<1>. QED  BY <1>1, <1>2, <1>3, <1>4 DEF TransferNext

LEMMA IncidentSlots ==
  ASSUME TitleInv, IncidentNext
  PROVE \E w \in Worker : OneSlot(w)
<1>1. ASSUME NEW w \in Worker, NEW p \in Piece, NEW y \in IncidentType,
             ReportCheck(w, p, y)
      PROVE OneSlot(w)
  BY <1>1, SlotServed, RequestForms DEF ReportCheck, OneSlot, Admitted, TitleInv
<1>2. ASSUME NEW w \in Worker, NEW i \in IncidentId,
             \/ AddReportLoad(w, i) \/ ReviewLoad(w, i)
             \/ \E o \in {"RECOVERED", "RESOLVED"} : CloseLoad(w, i, o)
      PROVE OneSlot(w)
  <2>1. PICK r \in Request :
          Serve(w, r) /\ r.op \in {"addReport", "review", "close"}
    BY <1>2, RequestForms DEF AddReportLoad, ReviewLoad, CloseLoad
  <2>. QED  BY <2>1, SlotTaken
<1>3. ASSUME NEW w \in Worker,
             \/ \E i \in IncidentId : ReportCommit(w, i)
             \/ ReportConflict(w) \/ AddReportCreate(w) \/ ReviewWrite(w)
             \/ ReviewConflict(w) \/ CloseWrite(w)
      PROVE OneSlot(w)
  BY <1>3, SlotEmptied
  DEF ReportCommit, ReportConflict, AddReportCreate, ReviewWrite,
      ReviewConflict, CloseWrite
<1>. QED  BY <1>1, <1>2, <1>3 DEF IncidentNext

LEMMA ServiceSlots ==
  ASSUME TitleInv, ServiceNext
  PROVE UNCHANGED req \/ \E w \in Worker : OneSlot(w)
<1>1. ASSUME NEW s \in ServiceId,
             (\E p \in Piece : Create(p, s)) \/ Start(s) \/ CancelOrder(s)
      PROVE UNCHANGED req
  BY <1>1 DEF Create, Start, CancelOrder
<1>2. ASSUME NEW w \in Worker, NEW s \in ServiceId, CompleteExec(w, s)
      PROVE OneSlot(w)
  <2>. DEFINE r == [op |-> "complete", service |-> s,
                    free |-> status[service[s].piece] = "IN_SERVICE"]
  <2>1. r \in Request /\ Serve(w, r)
    BY <1>2, RequestForms DEF CompleteExec
  <2>2. r.op = "complete" /\ r.service = s
    OBVIOUS
  <2>3. Completable(s) /\ ~ServiceLocked(s) /\ UNCHANGED service
    BY <1>2 DEF CompleteExec
  <2>. HIDE DEF r
  <2>. QED  BY <2>1, <2>2, <2>3, SlotServed DEF OneSlot, Admitted, TitleInv
<1>3. ASSUME NEW w \in Worker, CompleteCommit(w)
      PROVE OneSlot(w)
  BY <1>3, SlotEmptied DEF CompleteCommit
<1>. QED  BY <1>1, <1>2, <1>3 DEF ServiceNext

\* A step changes one slot at most, and leaves it empty or with a request that
\* was just checked.
LEMMA NextSlots ==
  ASSUME TitleInv, Next
  PROVE UNCHANGED req \/ \E w \in Worker : OneSlot(w)
<1>1. ASSUME NEW w \in Worker, Abort(w)
      PROVE OneSlot(w)
  BY <1>1, SlotEmptied DEF Abort
<1>. QED
  BY <1>1, PieceSlots, SaleSlots, ClaimSlots, TransferSlots, IncidentSlots,
     ServiceSlots DEF Next

-----------------------------------------------------------------------------
(* The service orders. *)

\* Who writes an order: create, start and cancel a row nobody has locked, and
\* the transaction of complete the row it has.
Settled == {"COMPLETED", "CANCELLED"}

OrderWritten(s) ==
  /\ \A u \in ServiceId : u # s => service'[u] = service[u]
  /\ service[s].status \notin Settled
  /\ \/ UNCHANGED req /\ (service[s] = Absent \/ ~ServiceLocked(s))
     \/ \E w \in Worker : Completes(w, s) /\ Finish(w)

LEMMA OrderWriters ==
  ASSUME IncidentInv, Next
  PROVE UNCHANGED service \/ \E s \in ServiceId : OrderWritten(s)
<1>1. ASSUME NEW s \in ServiceId, NEW p \in Piece, Create(p, s)
      PROVE OrderWritten(s)
  BY <1>1
  DEF Create, OrderWritten, Settled, Absent, IncidentInv, TitleInv, TypeOK
<1>2. ASSUME NEW s \in ServiceId, Start(s) \/ CancelOrder(s)
      PROVE OrderWritten(s)
  BY <1>2
  DEF Start, CancelOrder, OrderWritten, Settled, IncidentInv, TitleInv, TypeOK
<1>3. ASSUME NEW w \in Worker, CompleteCommit(w)
      PROVE \E s \in ServiceId : OrderWritten(s)
  <2>. DEFINE s == req[w].service
  <2>1. s \in ServiceId /\ req[w].op = "complete"
    BY <1>3, RequestFields DEF CompleteCommit, IncidentInv, TitleInv, TypeOK
  <2>2. Completes(w, s) /\ Completable(s)
    BY <2>1 DEF Completes, IncidentInv, CompletingIsLive
  <2>3. \A u \in ServiceId : u # s => service'[u] = service[u]
    BY <1>3 DEF CompleteCommit, IncidentInv, TitleInv, TypeOK
  <2>. QED
    BY <1>3, <2>1, <2>2, <2>3
    DEF CompleteCommit, OrderWritten, Completable, Settled
<1>4. PieceNext \/ SaleNext \/ ClaimNext => UNCHANGED service
  BY DEF PieceNext, Register, UpdateStatusLoad, RetireLoad, SetStatus,
         SaleNext, SaleCheck, SaleCommit, SaleConflict, ClaimNext, RedeemCheck,
         RedeemExec, RedeemRefused, RedeemCommit, ClaimLapses
<1>5. TransferNext => UNCHANGED service
  BY DEF TransferNext, RequestCheck, RequestCreate, RequestConflict,
         AcceptExec, AcceptCommit, Reject, Cancel, Settle, Expire,
         TransferLapses
<1>6. IncidentNext => UNCHANGED service
  BY DEF IncidentNext, ReportCheck, ReportCommit, ReportConflict,
         AddReportLoad, AddReportCreate, ReviewLoad, ReviewWrite,
         ReviewConflict, CloseLoad, CloseWrite
<1>7. \A w \in Worker : Abort(w) => UNCHANGED service
  BY DEF Abort
<1>8. \A w \in Worker, s \in ServiceId : CompleteExec(w, s) => UNCHANGED service
  BY DEF CompleteExec
<1>. QED
  BY <1>1, <1>2, <1>3, <1>4, <1>5, <1>6, <1>7, <1>8 DEF Next, ServiceNext

\* A request that holds an order after the step held it before, or has just
\* found it to be done and held by nobody.
LEMMA HoldersAreOld ==
  ASSUME IncidentInv, Next, NEW w \in Worker, NEW s \in ServiceId,
         Completes(w, s)'
  PROVE \/ Completes(w, s) /\ req'[w] = req[w]
        \/ /\ UNCHANGED service
           /\ Completable(s)
           /\ ~ServiceLocked(s)
           /\ \A v \in Worker : v # w => req'[v] = req[v]
<1>1. CASE req'[w] = req[w]
  BY <1>1 DEF Completes
<1>2. CASE req'[w] # req[w]
  <2>1. OneSlot(w)
    BY <1>2, NextSlots DEF IncidentInv, OneSlot
  <2>2. req'[w].op = "complete" /\ req'[w].service = s
    BY DEF Completes
  <2>. QED  BY <2>1, <2>2 DEF OneSlot, Admitted
<1>. QED  BY <1>1, <1>2

LEMMA LiveStep ==
  ASSUME IncidentInv, Next
  PROVE CompletingIsLive'
<1>. SUFFICES ASSUME NEW w \in Worker, NEW s \in ServiceId, Completes(w, s)'
              PROVE Completable(s)'
  BY DEF CompletingIsLive
<1>1. CASE UNCHANGED service /\ Completable(s)
  BY <1>1 DEF Completable
<1>2. CASE Completes(w, s) /\ req'[w] = req[w]
  <2>1. Completable(s) /\ ServiceLocked(s) /\ service[s] # Absent
    BY <1>2 DEF Completes, IncidentInv, CompletingIsLive, ServiceLocked,
                Completable, Absent
  <2>2. ASSUME NEW u \in ServiceId, OrderWritten(u)
        PROVE u # s
    <3>. SUFFICES ASSUME u = s PROVE FALSE
      OBVIOUS
    <3>1. PICK v \in Worker : Completes(v, s) /\ Finish(v)
      BY <2>1, <2>2 DEF OrderWritten
    <3>2. v = w
      BY <1>2, <3>1 DEF IncidentInv, CompletingIsAlone
    <3>3. req'[w] = Idle
      BY <3>1, <3>2, FinishSound DEF IncidentInv
    <3>. QED  BY <1>2, <3>3 DEF Completes, Idle
  <2>3. service'[s] = service[s]
    BY <2>2, OrderWriters DEF OrderWritten
  <2>. QED  BY <2>1, <2>3 DEF Completable
<1>. QED  BY <1>1, <1>2, HoldersAreOld

LEMMA AloneStep ==
  ASSUME IncidentInv, Next
  PROVE CompletingIsAlone'
<1>. SUFFICES ASSUME NEW v \in Worker, NEW w \in Worker, NEW s \in ServiceId,
                     Completes(v, s)', Completes(w, s)', v # w
              PROVE FALSE
  BY DEF CompletingIsAlone
<1>1. ASSUME NEW a \in Worker, NEW b \in Worker, a # b,
             Completes(a, s)', ~ServiceLocked(s), req'[a] = req[a]
      PROVE FALSE
  BY <1>1 DEF Completes, ServiceLocked
<1>2. CASE Completes(v, s) /\ Completes(w, s)
  BY <1>2 DEF IncidentInv, CompletingIsAlone
<1>3. CASE ~ServiceLocked(s) /\ \A u \in Worker : u # v => req'[u] = req[u]
  BY <1>1, <1>3
<1>4. CASE ~ServiceLocked(s) /\ \A u \in Worker : u # w => req'[u] = req[u]
  BY <1>1, <1>4
<1>. QED  BY <1>2, <1>3, <1>4, HoldersAreOld

-----------------------------------------------------------------------------
(* The incidents. *)

\* Statuses that say a piece is missing.
Missing == {"REPORTED_STOLEN", "LOST"}

\* A step that writes no incident leaves every status alone or replaces it by
\* one that does not say so.
Harmless ==
  /\ UNCHANGED incident
  /\ \A q \in Piece : status'[q] = status[q] \/ status'[q] \notin Missing

LEMMA IncidentWriters ==
  ASSUME IncidentInv, Next
  PROVE \/ Harmless
        \/ \E w \in Worker, i \in IncidentId : ReportCommit(w, i)
        \/ \E w \in Worker :
             AddReportCreate(w) \/ ReviewWrite(w) \/ CloseWrite(w)
<1>1. PieceNext => Harmless
  <2>1. ASSUME NEW w \in Worker, SetStatus(w)
        PROVE Harmless
    <3>1. req[w].target \in ByHand
      BY <2>1 DEF SetStatus, IncidentInv, TargetsByHand
    <3>. QED
      BY <2>1, <3>1
      DEF SetStatus, Harmless, ByHand, Missing, IncidentInv, TitleInv, TypeOK
  <2>2. ASSUME NEW p \in Piece, Register(p)
        PROVE Harmless
    BY <2>2 DEF Register, Harmless, Missing, IncidentInv, TitleInv, TypeOK
  <2>. QED
    BY <2>1, <2>2 DEF PieceNext, UpdateStatusLoad, RetireLoad, Harmless
<1>2. SaleNext => Harmless
  BY DEF SaleNext, SaleCheck, SaleCommit, SaleConflict, Harmless, Missing,
         IncidentInv, TitleInv, TypeOK
<1>3. ClaimNext => Harmless
  BY DEF ClaimNext, RedeemCheck, RedeemExec, RedeemRefused, RedeemCommit,
         ClaimLapses, Harmless
<1>4. TransferNext => Harmless
  BY DEF TransferNext, RequestCheck, RequestCreate, RequestConflict,
         AcceptExec, AcceptCommit, Reject, Cancel, Settle, Expire,
         TransferLapses, Harmless
<1>5. ServiceNext => Harmless
  <2>. DEFINE f == [q \in Piece |-> status[q]]
  <2>1. status = f
    BY DEF IncidentInv, TitleInv, TypeOK
  <2>. HIDE DEF f
  <2>2. ASSUME NEW s \in ServiceId, Start(s)
        PROVE Harmless
    BY <2>1, <2>2 DEF Start, Harmless, Missing, f
  <2>3. ASSUME NEW w \in Worker, CompleteCommit(w)
        PROVE Harmless
    BY <2>1, <2>3 DEF CompleteCommit, Harmless, Missing, f
  <2>4. ASSUME NEW s \in ServiceId,
               \/ \E p \in Piece : Create(p, s)
               \/ CancelOrder(s)
               \/ \E w \in Worker : CompleteExec(w, s)
        PROVE Harmless
    BY <2>4 DEF Create, CancelOrder, CompleteExec, Harmless
  <2>. QED  BY <2>2, <2>3, <2>4 DEF ServiceNext
<1>6. \A w \in Worker : Abort(w) => Harmless
  BY DEF Abort, Harmless
<1>7. IncidentNext =>
        \/ Harmless
        \/ \E w \in Worker, i \in IncidentId : ReportCommit(w, i)
        \/ \E w \in Worker :
             AddReportCreate(w) \/ ReviewWrite(w) \/ CloseWrite(w)
  BY DEF IncidentNext, ReportCheck, ReportConflict, AddReportLoad, ReviewLoad,
         ReviewConflict, CloseLoad, Harmless
<1>. QED  BY <1>1, <1>2, <1>3, <1>4, <1>5, <1>6, <1>7 DEF Next

\* What ReportCommit leaves behind: one open incident of the piece, the new
\* one, and every other piece as it was.
LEMMA ReportLeaves ==
  ASSUME IncidentInv, NEW w \in Worker, NEW i \in IncidentId, ReportCommit(w, i)
  PROVE \E p \in Piece :
          /\ OpenIncidents(p)' = {i}
          /\ \A q \in Piece : q # p =>
               /\ OpenIncidents(q)' = OpenIncidents(q)
               /\ status'[q] = status[q]
<1>1. PICK p \in Piece : p = req[w].piece
  BY RequestFields DEF ReportCommit, IncidentInv, TitleInv, TypeOK
<1>. DEFINE x == [status |-> "ACTIVE", piece |-> p, type |-> req[w].type,
                  reports |-> {"SUBMITTED"}]
<1>2. /\ incident'[i] = x
      /\ \A j \in IncidentId : j # i => incident'[j] = incident[j]
  BY <1>1 DEF ReportCommit, IncidentInv, TitleInv, TypeOK
<1>3. x.status = "ACTIVE" /\ x.piece = p
  OBVIOUS
<1>4. i \notin OpenIncidents(p) /\ OpenIncidents(p) \subseteq {i}
  BY <1>1 DEF ReportCommit, IndexAllows, OpenIncidents, OpenIncidentStatus, Absent
<1>. HIDE DEF x
<1>5. OpenIncidents(p)' = {i}
  BY <1>2, <1>3, <1>4 DEF OpenIncidents, OpenIncidentStatus
<1>6. ASSUME NEW q \in Piece, q # p
      PROVE OpenIncidents(q)' = OpenIncidents(q) /\ status'[q] = status[q]
  <2>1. i \notin OpenIncidents(q) /\ i \notin OpenIncidents(q)'
    BY <1>2, <1>3, <1>6
    DEF ReportCommit, OpenIncidents, OpenIncidentStatus, Absent
  <2>2. \A j \in IncidentId :
          j # i => (j \in OpenIncidents(q)' <=> j \in OpenIncidents(q))
    BY <1>2 DEF OpenIncidents
  <2>3. OpenIncidents(q)' = OpenIncidents(q)
    BY <2>1, <2>2 DEF OpenIncidents
  <2>4. status'[q] = status[q]
    BY <1>1, <1>6 DEF ReportCommit, IncidentInv, TitleInv, TypeOK
  <2>. QED  BY <2>3, <2>4
<1>. QED  BY <1>1, <1>5, <1>6

\* What the writes to an existing incident of piece p leave behind: at most the
\* incidents that were open, or the one written and no other; and as long as
\* p is missing none of them is closed.
LEMMA RewriteLeaves ==
  ASSUME IncidentInv, NEW w \in Worker,
         AddReportCreate(w) \/ ReviewWrite(w) \/ CloseWrite(w)
  PROVE \E i \in IncidentId, p \in Piece :
          /\ \/ OpenIncidents(p)' \subseteq OpenIncidents(p)
             \/ OpenIncidents(p)' \subseteq {i}
          /\ \/ /\ OpenIncidents(p) \subseteq OpenIncidents(p)'
                /\ status'[p] = status[p]
             \/ status'[p] \notin Missing
          /\ \A q \in Piece : q # p =>
               /\ OpenIncidents(q)' = OpenIncidents(q)
               /\ status'[q] = status[q]
<1>1. PICK i \in IncidentId, x \in IncidentRow :
        /\ i = req[w].incident /\ incident[i] \in IncidentRow
        /\ incident' = [incident EXCEPT ![i] = x]
  BY IncidentRewritten DEF IncidentInv
<1>2. PICK p \in Piece : p = incident[i].piece
  BY <1>1 DEF IncidentRow
<1>3. /\ incident'[i] = x
      /\ \A j \in IncidentId : j # i => incident'[j] = incident[j]
  BY <1>1 DEF IncidentInv, TitleInv, TypeOK
<1>4. /\ incident'[i].piece = p
      /\ AddReportCreate(w) => incident'[i].status = incident[i].status
      /\ ReviewWrite(w) => incident'[i].status = "UNDER_REVIEW"
      /\ CloseWrite(w) => incident'[i].status = req[w].outcome
  <2>1. CASE AddReportCreate(w)
    <3>1. incident'[i] =
            [incident[i] EXCEPT !.reports = @ \cup {"SUBMITTED"}]
      BY <1>1, <2>1 DEF AddReportCreate, IncidentInv, TitleInv, TypeOK
    <3>2. /\ incident'[i].piece = incident[i].piece
          /\ incident'[i].status = incident[i].status
      BY <1>1, <3>1 DEF IncidentRow
    <3>3. ~ReviewWrite(w) /\ ~CloseWrite(w)
      BY <2>1 DEF AddReportCreate, ReviewWrite, CloseWrite
    <3>. QED  BY <1>2, <3>2, <3>3
  <2>2. CASE ReviewWrite(w)
    <3>1. incident'[i] = [incident[i] EXCEPT !.status = "UNDER_REVIEW",
                                             !.reports = {"VERIFIED"}]
      BY <1>1, <2>2 DEF ReviewWrite, IncidentInv, TitleInv, TypeOK
    <3>2. /\ incident'[i].piece = incident[i].piece
          /\ incident'[i].status = "UNDER_REVIEW"
      <4>1. PICK z \in IncidentRow : z = incident[i]
        BY <1>1
      <4>2. LET n == [z EXCEPT !.status = "UNDER_REVIEW",
                               !.reports = {"VERIFIED"}]
            IN n.piece = z.piece /\ n.status = "UNDER_REVIEW"
        BY DEF IncidentRow
      <4>. QED  BY <3>1, <4>1, <4>2
    <3>3. ~AddReportCreate(w) /\ ~CloseWrite(w)
      BY <2>2 DEF AddReportCreate, ReviewWrite, CloseWrite
    <3>. QED  BY <1>2, <3>2, <3>3
  <2>3. CASE CloseWrite(w)
    <3>1. incident'[i] = [incident[i] EXCEPT !.status = req[w].outcome]
      BY <1>1, <2>3 DEF CloseWrite, IncidentInv, TitleInv, TypeOK
    <3>2. /\ incident'[i].piece = incident[i].piece
          /\ incident'[i].status = req[w].outcome
      BY <1>1, <3>1 DEF IncidentRow
    <3>3. ~AddReportCreate(w) /\ ~ReviewWrite(w)
      BY <2>3 DEF AddReportCreate, ReviewWrite, CloseWrite
    <3>. QED  BY <1>2, <3>2, <3>3
  <2>. QED  BY <2>1, <2>2, <2>3
<1>5. \A q \in Piece, j \in IncidentId :
        j # i => (j \in OpenIncidents(q)' <=> j \in OpenIncidents(q))
  BY <1>3 DEF OpenIncidents
<1>6. ASSUME NEW q \in Piece, q # p
      PROVE OpenIncidents(q)' = OpenIncidents(q) /\ status'[q] = status[q]
  <2>1. i \notin OpenIncidents(q) /\ i \notin OpenIncidents(q)'
    BY <1>2, <1>4, <1>6 DEF OpenIncidents
  <2>2. OpenIncidents(q)' = OpenIncidents(q)
    BY <1>5, <2>1 DEF OpenIncidents
  <2>3. status'[q] = status[q]
    BY <1>1, <1>2, <1>6
    DEF AddReportCreate, ReviewWrite, CloseWrite, IncidentInv, TitleInv, TypeOK
  <2>. QED  BY <2>2, <2>3
<1>7. CASE AddReportCreate(w)
  <2>1. incident'[i].status = incident[i].status /\ UNCHANGED status
    BY <1>4, <1>7 DEF AddReportCreate
  <2>2. i \in OpenIncidents(p)' <=> i \in OpenIncidents(p)
    BY <1>2, <1>4, <2>1 DEF OpenIncidents
  <2>3. OpenIncidents(p)' = OpenIncidents(p)
    BY <1>2, <1>5, <2>2 DEF OpenIncidents
  <2>. QED  BY <1>2, <1>6, <2>1, <2>3
<1>8. CASE ReviewWrite(w)
  <2>1. incident'[i].status = "UNDER_REVIEW" /\ UNCHANGED status
    BY <1>4, <1>8 DEF ReviewWrite
  <2>2. OpenIncidents(p) \subseteq {i}
    BY <1>1, <1>2, <1>8 DEF ReviewWrite, IndexAllows
  <2>3. OpenIncidents(p)' \subseteq {i}
    BY <1>2, <1>5, <2>2 DEF OpenIncidents
  <2>4. i \in OpenIncidents(p)'
    BY <1>4, <2>1 DEF OpenIncidents, OpenIncidentStatus
  <2>. QED  BY <1>2, <1>6, <2>1, <2>2, <2>3, <2>4
<1>9. CASE CloseWrite(w)
  <2>1. req[w].outcome \in {"RECOVERED", "RESOLVED"}
    BY <1>9, RequestFields DEF CloseWrite, IncidentInv, TitleInv, TypeOK
  <2>2. incident'[i].status = req[w].outcome
    BY <1>4, <1>9
  <2>3. i \notin OpenIncidents(p)'
    BY <2>1, <2>2 DEF OpenIncidents, OpenIncidentStatus
  <2>4. OpenIncidents(p)' \subseteq OpenIncidents(p)
    BY <1>2, <1>5, <2>3 DEF OpenIncidents
  <2>5. status'[p] = Freed(status[p])
    BY <1>1, <1>2, <1>9 DEF CloseWrite, IncidentInv, TitleInv, TypeOK
  <2>6. status'[p] \notin Missing
    BY <2>5 DEF Freed, Missing
  <2>. QED  BY <1>2, <1>6, <2>4, <2>6
<1>. QED  BY <1>7, <1>8, <1>9

LEMMA OneOpenStep ==
  ASSUME IncidentInv, Next
  PROVE OneOpenIncident' /\ ReportedHasOpenIncident'
<1>. USE DEF IncidentInv, OneOpenIncident, ReportedHasOpenIncident,
             HasOpenIncident, Missing
<1>1. CASE Harmless
  <2>1. \A q \in Piece : OpenIncidents(q)' = OpenIncidents(q)
    BY <1>1 DEF Harmless, OpenIncidents
  <2>. QED  BY <1>1, <2>1 DEF Harmless
<1>2. ASSUME NEW w \in Worker, NEW i \in IncidentId, ReportCommit(w, i)
      PROVE OneOpenIncident' /\ ReportedHasOpenIncident'
  <2>1. PICK p \in Piece :
          /\ OpenIncidents(p)' = {i}
          /\ \A q \in Piece : q # p =>
               /\ OpenIncidents(q)' = OpenIncidents(q)
               /\ status'[q] = status[q]
    BY <1>2, ReportLeaves
  <2>2. OneOpenIncident'
    BY <2>1
  <2>3. ReportedHasOpenIncident'
    BY <2>1
  <2>. QED  BY <2>2, <2>3
<1>3. ASSUME NEW w \in Worker,
             AddReportCreate(w) \/ ReviewWrite(w) \/ CloseWrite(w)
      PROVE OneOpenIncident' /\ ReportedHasOpenIncident'
  <2>1. PICK i \in IncidentId, p \in Piece :
          /\ \/ OpenIncidents(p)' \subseteq OpenIncidents(p)
             \/ OpenIncidents(p)' \subseteq {i}
          /\ \/ /\ OpenIncidents(p) \subseteq OpenIncidents(p)'
                /\ status'[p] = status[p]
             \/ status'[p] \notin Missing
          /\ \A q \in Piece : q # p =>
               /\ OpenIncidents(q)' = OpenIncidents(q)
               /\ status'[q] = status[q]
    BY <1>3, RewriteLeaves
  <2>2. OneOpenIncident'
    BY <2>1
  <2>3. ReportedHasOpenIncident'
    BY <2>1
  <2>. QED  BY <2>2, <2>3
<1>. QED  BY <1>1, <1>2, <1>3, IncidentWriters

-----------------------------------------------------------------------------
(* The inductive step. *)

LEMMA TargetsStep ==
  ASSUME IncidentInv, Next
  PROVE TargetsByHand'
<1>. SUFFICES ASSUME NEW w \in Worker, req'[w].op = "setStatus"
              PROVE req'[w].target \in ByHand
  BY DEF TargetsByHand
<1>1. CASE req'[w] = req[w]
  BY <1>1 DEF IncidentInv, TargetsByHand
<1>2. CASE req'[w] # req[w]
  BY <1>2, NextSlots DEF IncidentInv, OneSlot, Admitted
<1>. QED  BY <1>1, <1>2

LEMMA NextIncident ==
  ASSUME IncidentInv, [Next]_vars
  PROVE IncidentInv'
<1>1. CASE Next
  <2>1. TitleInv'
    BY <1>1, NextTitle DEF IncidentInv
  <2>. QED
    BY <1>1, <2>1, TargetsStep, LiveStep, AloneStep, OneOpenStep DEF IncidentInv
<1>2. CASE UNCHANGED vars
  <2>1. TitleInv'
    BY <1>2, NextTitle DEF IncidentInv
  <2>2. TargetsByHand' /\ CompletingIsLive' /\ CompletingIsAlone'
    BY <1>2 DEF vars, IncidentInv, TargetsByHand, CompletingIsLive,
                CompletingIsAlone, Completes, Completable
  <2>3. OneOpenIncident' /\ ReportedHasOpenIncident'
    BY <1>2 DEF vars, IncidentInv, OneOpenIncident, ReportedHasOpenIncident,
                HasOpenIncident, OpenIncidents
  <2>. QED  BY <2>1, <2>2, <2>3 DEF IncidentInv
<1>. QED  BY <1>1, <1>2

LEMMA InitIncident == Init => IncidentInv
<1>. SUFFICES ASSUME Init PROVE IncidentInv
  OBVIOUS
<1>1. TargetsByHand /\ CompletingIsLive /\ CompletingIsAlone
  BY DEF Init, StoreInit, TargetsByHand, CompletingIsLive, CompletingIsAlone,
         Completes, Idle
<1>2. OneOpenIncident /\ ReportedHasOpenIncident
  BY DEF Init, StoreInit, OneOpenIncident, ReportedHasOpenIncident,
         OpenIncidents, OpenIncidentStatus, Absent
<1>. QED  BY <1>1, <1>2, InitTitle DEF IncidentInv

-----------------------------------------------------------------------------
(* The results. *)

\* In every state the requests in flight write only statuses a client may
\* choose, every open transaction of complete holds an order still to be
\* done and holds it alone, and incidents and statuses agree.
THEOREM IncidentInvariant == Spec => []IncidentInv
<1>1. Init => IncidentInv
  BY InitIncident
<1>2. IncidentInv /\ [Next]_vars => IncidentInv'
  BY NextIncident
<1>. QED  BY <1>1, <1>2, PTL DEF Spec

\* A piece never has two open incidents, although report, review and close
\* check first and write later: the index refuses what a check missed.
THEOREM OneIncident == Spec => []OneOpenIncident
<1>1. IncidentInv => OneOpenIncident
  BY DEF IncidentInv
<1>. QED  BY <1>1, IncidentInvariant, PTL

\* A piece is stolen or lost only while an incident says so.
THEOREM MissingIsReported == Spec => []ReportedHasOpenIncident
<1>1. IncidentInv => ReportedHasOpenIncident
  BY DEF IncidentInv
<1>. QED  BY <1>1, IncidentInvariant, PTL

\* A service order that is completed or cancelled is never written again,
\* whichever of start, complete and cancel raced to it.
THEOREM OrdersStaySettled == Spec => OrderSettledOnce
<1>. DEFINE Kept(s) == service[s].status \in {"COMPLETED", "CANCELLED"} =>
                         service'[s] = service[s]
<1>1. ASSUME IncidentInv, Next, NEW s \in ServiceId
      PROVE Kept(s)
  BY <1>1, OrderWriters DEF OrderWritten, Settled
<1>2. IncidentInv /\ [Next]_vars => [\A s \in ServiceId : Kept(s)]_vars
  BY <1>1 DEF vars
<1>. QED  BY <1>2, IncidentInvariant, PTL DEF Spec, OrderSettledOnce

-----------------------------------------------------------------------------
(* The services implement TitleRegistry.  Of the abstract steps only        *)
(* MakeOffer needs more than the invariant of title: that the request in    *)
(* flight was made in the name of somebody who held the piece.              *)

\* The refinement mapping, named.
Held == [p \in Piece |-> [k \in 1..Len(rows[p]) |-> rows[p][k].owner]]
Offered ==
  [p \in Piece |-> {[from |-> transfer[t].from, to |-> transfer[t].to]
                      : t \in PendingOn(p)}]

\* A request for a transfer names somebody who holds, or has held, the piece.
AskedByHolder ==
  \A w \in Worker : req[w].op = "request" =>
    \E k \in 1..Len(rows[req[w].piece]) :
      rows[req[w].piece][k].owner = req[w].from

RefinementInv == TitleInv /\ AskedByHolder

-----------------------------------------------------------------------------

\* Who has held a piece has held it for ever.
LEMMA OwnersKept ==
  ASSUME TitleInv, Next, NEW p \in Piece, NEW k \in 1..Len(rows[p])
  PROVE k \in 1..Len(rows'[p]) /\ rows'[p][k].owner = rows[p][k].owner
<1>1. rows[p] \in Seq(OwnershipRow) /\ Len(rows[p]) \in Nat
  BY DEF TitleInv, TypeOK
<1>2. CASE rows'[p] = rows[p]
  BY <1>2
<1>3. ASSUME NEW w \in Worker, RedeemCommit(w), rows'[p] # rows[p]
      PROVE k \in 1..Len(rows'[p]) /\ rows'[p][k].owner = rows[p][k].owner
  <2>1. req[w].piece \in Piece /\ req[w].actor \in User
    BY <1>3, RequestFields DEF RedeemCommit, TitleInv, TypeOK
  <2>. DEFINE r == [owner |-> req[w].actor, transfer |-> None, open |-> TRUE]
  <2>2. r \in OwnershipRow
    BY <2>1 DEF OwnershipRow
  <2>3. rows'[p] = Append(rows[p], r)
    BY <1>3, <2>1 DEF RedeemCommit, TitleInv, TypeOK
  <2>. HIDE DEF r
  <2>. QED  BY <1>1, <2>2, <2>3
<1>4. ASSUME NEW w \in Worker, AcceptCommit(w), rows'[p] # rows[p]
      PROVE k \in 1..Len(rows'[p]) /\ rows'[p][k].owner = rows[p][k].owner
  <2>. DEFINE t == req[w].transfer
              g == Closed(rows[p], req[w].closes)
              r == [owner |-> transfer[t].to, transfer |-> t, open |-> TRUE]
  <2>1. t \in TransferId /\ transfer[t] \in TransferRow
    BY <1>4, AcceptingFacts DEF AcceptCommit
  <2>2. r \in OwnershipRow
    BY <2>1 DEF OwnershipRow, TransferRow
  <2>3. rows'[p] = Append(g, r)
    BY <1>4, <2>1 DEF AcceptCommit, TitleInv, TypeOK
  <2>4. /\ g \in Seq(OwnershipRow) /\ Len(g) = Len(rows[p])
        /\ g[k].owner = rows[p][k].owner
    BY <1>1, ClosedRows
  <2>. HIDE DEF g, r
  <2>. QED  BY <1>1, <2>2, <2>3, <2>4
<1>. QED  BY <1>2, <1>3, <1>4, TitleWriters

LEMMA NextAsked ==
  ASSUME RefinementInv, Next
  PROVE AskedByHolder'
<1>. SUFFICES ASSUME NEW w \in Worker, req'[w].op = "request"
              PROVE \E k \in 1..Len(rows'[req'[w].piece]) :
                      rows'[req'[w].piece][k].owner = req'[w].from
  BY DEF AskedByHolder
<1>1. CASE req'[w] = req[w]
  <2>1. PICK p \in Piece : p = req[w].piece
    BY <1>1, RequestFields DEF RefinementInv, TitleInv, TypeOK
  <2>2. PICK k \in 1..Len(rows[p]) : rows[p][k].owner = req[w].from
    BY <1>1, <2>1 DEF RefinementInv, AskedByHolder
  <2>3. k \in 1..Len(rows'[p]) /\ rows'[p][k].owner = rows[p][k].owner
    BY OwnersKept DEF RefinementInv
  <2>. QED  BY <1>1, <2>1, <2>2, <2>3
<1>2. CASE req'[w] # req[w]
  <2>1. IsOwner(req'[w].piece, req'[w].from) /\ UNCHANGED rows
    BY <1>2, NextSlots DEF RefinementInv, OneSlot, Admitted
  <2>. QED  BY <2>1 DEF IsOwner, OpenRows
<1>. QED  BY <1>1, <1>2

LEMMA NextRefinement ==
  ASSUME RefinementInv, [Next]_vars
  PROVE RefinementInv'
<1>1. TitleInv'
  BY NextTitle DEF RefinementInv
<1>2. CASE Next
  BY <1>1, <1>2, NextAsked DEF RefinementInv
<1>3. CASE UNCHANGED vars
  BY <1>1, <1>3 DEF vars, RefinementInv, AskedByHolder
<1>. QED  BY <1>2, <1>3

-----------------------------------------------------------------------------
(* Each step of the services is a step of the registry, or none. *)

\* What no transfer's answer touches is the same registry.
LEMMA StutterMaps ==
  ASSUME UNCHANGED <<sale, rows, transfer>>
  PROVE UNCHANGED <<sale, Held, Offered>>
  BY DEF Held, Offered, PendingOn

LEMMA SellMaps ==
  ASSUME TitleInv, NEW w \in Worker, SaleCommit(w)
  PROVE \E p \in Piece, u \in User : Registry!Sell(p, u)
<1>1. req[w].piece \in Piece /\ req[w].buyer \in User
  BY RequestFields DEF SaleCommit, TitleInv, TypeOK
<1>2. UNCHANGED <<Held, Offered>>
  BY DEF SaleCommit, Held, Offered, PendingOn
<1>3. Registry!Sell(req[w].piece, req[w].buyer)
  BY <1>2 DEF SaleCommit, Unsold, Registry!Sell, Held, Offered
<1>. QED  BY <1>1, <1>3

LEMMA ClaimMaps ==
  ASSUME TitleInv, NEW w \in Worker, RedeemCommit(w)
  PROVE \E p \in Piece : Registry!Claim(p)
<1>1. PICK p \in Piece : p = req[w].piece /\ req[w].actor \in User
  BY RequestFields DEF RedeemCommit, TitleInv, TypeOK
<1>2. /\ claim[p].status = "PENDING" /\ sale[p] = req[w].actor
      /\ sale[p] # None
  BY <1>1, StoreAssumption DEF RedeemCommit, TitleInv, InFlight, Sound
<1>3. rows[p] = <<>>
  BY <1>2, NoTitleYet
<1>. DEFINE row == [owner |-> req[w].actor, transfer |-> None, open |-> TRUE]
<1>4. Len(rows'[p]) = 1 /\ rows'[p][1] = row
  <2>1. rows'[p] = Append(rows[p], row)
    BY <1>1 DEF RedeemCommit, TitleInv, TypeOK
  <2>. HIDE DEF row
  <2>. QED  BY <1>3, <2>1
<1>5. Held[p] = <<>>
  <2>1. Len(rows[p]) = 0
    BY <1>3
  <2>2. Held[p] = [k \in 1..0 |-> rows[p][k].owner]
    BY <2>1 DEF Held
  <2>3. Held[p] \in Seq(User) /\ Len(Held[p]) = 0
    BY <2>2
  <2>. QED  BY <2>3
<1>6. Held'[p] = <<sale[p]>>
  <2>1. Held'[p] = [k \in 1..1 |-> rows'[p][k].owner]
    BY <1>4 DEF Held
  <2>2. \A k \in 1..1 : rows'[p][k].owner = sale[p]
    BY <1>2, <1>4
  <2>3. Held'[p] = [k \in 1..1 |-> sale[p]]
    BY <2>1, <2>2
  <2>. QED  BY <2>3
<1>7. Held' = [Held EXCEPT ![p] = <<sale[p]>>]
  <2>1. \A q \in Piece : q # p => Held'[q] = Held[q]
    BY <1>1 DEF RedeemCommit, Held, TitleInv, TypeOK
  <2>. QED  BY <1>6, <2>1 DEF Held
<1>8. UNCHANGED <<sale, Offered>>
  BY DEF RedeemCommit, Offered, PendingOn
<1>9. Registry!Claim(p)
  BY <1>2, <1>5, <1>7, <1>8 DEF Registry!Claim, Held, Offered
<1>. QED  BY <1>9

LEMMA OfferMaps ==
  ASSUME RefinementInv, NEW w \in Worker, NEW t \in TransferId,
         RequestCreate(w, t)
  PROVE \E p \in Piece : \E o \in Registry!Offer : Registry!MakeOffer(p, o)
<1>1. PICK p \in Piece : p = req[w].piece /\ req[w].from \in User
                         /\ req[w].to \in User
  BY RequestFields DEF RequestCreate, RefinementInv, TitleInv, TypeOK
<1>. DEFINE o == [from |-> req[w].from, to |-> req[w].to]
            x == [status |-> "PENDING", piece |-> p, from |-> req[w].from,
                  to |-> req[w].to, overdue |-> FALSE]
<1>2. /\ transfer[t] = Absent /\ transfer'[t] = x
      /\ \A u \in TransferId : u # t => transfer'[u] = transfer[u]
      /\ UNCHANGED <<sale, rows>>
  BY <1>1 DEF RequestCreate, RefinementInv, TitleInv, TypeOK
<1>3. /\ x.status = "PENDING" /\ x.piece = p
      /\ [from |-> x.from, to |-> x.to] = o
  OBVIOUS
<1>. HIDE DEF x
<1>4. PendingOn(p) = {}
  BY <1>1 DEF RequestCreate, IndexFree
<1>5. \A q \in Piece : t \notin PendingOn(q)
  BY <1>2 DEF PendingOn, Absent
<1>6. PendingOn(p)' = {t}
  BY <1>2, <1>3, <1>4 DEF PendingOn
<1>7. \A q \in Piece : q # p => PendingOn(q)' = PendingOn(q)
  BY <1>2, <1>3, <1>5 DEF PendingOn
<1>8. Offered[p] = {}
  BY <1>4 DEF Offered
<1>9. Offered'[p] = {o}
  BY <1>2, <1>3, <1>6 DEF Offered
<1>10. ASSUME NEW q \in Piece, q # p
       PROVE Offered'[q] = Offered[q]
  <2>1. \A u \in PendingOn(q) : transfer'[u] = transfer[u]
    BY <1>2, <1>5 DEF PendingOn
  <2>. QED  BY <1>7, <1>10, <2>1 DEF Offered
<1>11. Offered' = [Offered EXCEPT ![p] = {o}]
  BY <1>9, <1>10 DEF Offered
<1>12. \E k \in 1..Len(Held[p]) : Held[p][k] = o.from
  <2>1. PICK k \in 1..Len(rows[p]) : rows[p][k].owner = req[w].from
    BY <1>1 DEF RefinementInv, AskedByHolder, RequestCreate
  <2>2. Len(rows[p]) \in Nat
    BY DEF RefinementInv, TitleInv, TypeOK
  <2>3. Held[p] = [j \in 1..Len(rows[p]) |-> rows[p][j].owner]
    BY DEF Held
  <2>4. \A j \in 1..Len(rows[p]) : rows[p][j].owner \in User
    <3>1. \A j \in 1..Len(rows[p]) : rows[p][j] \in OwnershipRow
      BY DEF RefinementInv, TitleInv, TypeOK
    <3>. QED  BY <3>1 DEF OwnershipRow
  <2>5. Held[p] \in Seq(User) /\ Len(Held[p]) = Len(rows[p])
    BY <2>2, <2>3, <2>4
  <2>. QED  BY <2>1, <2>3, <2>5
<1>13. UNCHANGED <<sale, Held>>
  BY <1>2 DEF Held
<1>14. PICK z \in Registry!Offer : z = o
  BY <1>1 DEF Registry!Offer
<1>. HIDE DEF o
<1>15. Registry!MakeOffer(p, z)
  BY <1>14, <1>8, <1>11, <1>12, <1>13 DEF Registry!MakeOffer, Held, Offered
<1>. QED  BY <1>15

\* While a transfer is pending it is the only one of its piece, so when it is
\* settled no offer stands, and those of other pieces are as they were.
LEMMA SettledOffer ==
  ASSUME TitleInv, NEW t \in TransferId, NEW p \in Piece,
         transfer[t] \in TransferRow, transfer[t].status = "PENDING",
         transfer[t].piece = p,
         transfer'[t].status # "PENDING",
         \A u \in TransferId : u # t => transfer'[u] = transfer[u]
  PROVE /\ Offered[p] = {[from |-> transfer[t].from, to |-> transfer[t].to]}
        /\ Offered' = [Offered EXCEPT ![p] = {}]
<1>1. PendingOn(p) = {t}
  BY DEF PendingOn, TitleInv, OnePending
<1>2. PendingOn(p)' = {}
  BY <1>1 DEF PendingOn
<1>3. ASSUME NEW q \in Piece, q # p
      PROVE Offered'[q] = Offered[q]
  <2>1. PendingOn(q)' = PendingOn(q) /\ t \notin PendingOn(q)
    BY <1>3 DEF PendingOn
  <2>2. \A u \in PendingOn(q) : transfer'[u] = transfer[u]
    BY <2>1 DEF PendingOn
  <2>. QED  BY <1>3, <2>1, <2>2 DEF Offered
<1>4. Offered[p] = {[from |-> transfer[t].from, to |-> transfer[t].to]}
  BY <1>1 DEF Offered
<1>5. Offered'[p] = {}
  BY <1>2 DEF Offered
<1>6. Offered' = [Offered EXCEPT ![p] = {}]
  BY <1>3, <1>5 DEF Offered
<1>. QED  BY <1>4, <1>6

LEMMA WithdrawMaps ==
  ASSUME TitleInv, NEW t \in TransferId, Reject(t) \/ Cancel(t) \/ Expire(t)
  PROVE \E p \in Piece : Registry!Withdraw(p)
<1>1. PICK s \in {"REJECTED", "CANCELLED", "EXPIRED"} :
        /\ transfer' = [transfer EXCEPT ![t].status = s]
        /\ transfer[t].status = "PENDING"
        /\ UNCHANGED <<sale, rows>>
  BY DEF Reject, Cancel, Settle, Expire, Answerable, Lapsed
<1>2. transfer[t] \in TransferRow
  BY <1>1 DEF TitleInv, TypeOK, Absent
<1>3. PICK p \in Piece : p = transfer[t].piece
  BY <1>2 DEF TransferRow
<1>4. /\ transfer'[t].status = s
      /\ \A u \in TransferId : u # t => transfer'[u] = transfer[u]
  <2>1. PICK r \in TransferRow : r = transfer[t]
    BY <1>2
  <2>2. PICK y : y = [r EXCEPT !.status = s]
    OBVIOUS
  <2>3. y.status = s
    BY <2>2 DEF TransferRow
  <2>4. transfer' = [transfer EXCEPT ![t] = y]
    BY <1>1, <2>1, <2>2
  <2>5. /\ transfer'[t] = y
        /\ \A u \in TransferId : u # t => transfer'[u] = transfer[u]
    <3>1. DOMAIN transfer = TransferId
      BY DEF TitleInv, TypeOK
    <3>. QED  BY <2>4, <3>1
  <2>. QED  BY <2>3, <2>5
<1>5. Offered[p] # {} /\ Offered' = [Offered EXCEPT ![p] = {}]
  <2>1. transfer[t].status = "PENDING" /\ transfer[t].piece = p
    BY <1>1, <1>3
  <2>2. /\ transfer'[t].status # "PENDING"
        /\ \A u \in TransferId : u # t => transfer'[u] = transfer[u]
    BY <1>4
  <2>3. /\ Offered[p] = {[from |-> transfer[t].from, to |-> transfer[t].to]}
        /\ Offered' = [Offered EXCEPT ![p] = {}]
    BY <1>2, <2>1, <2>2, SettledOffer
  <2>. QED  BY <2>3
<1>6. UNCHANGED <<sale, Held>>
  BY <1>1 DEF Held
<1>7. Registry!Withdraw(p)
  BY <1>5, <1>6 DEF Registry!Withdraw, Held, Offered
<1>. QED  BY <1>7

LEMMA LapseMaps ==
  ASSUME TitleInv, NEW t \in TransferId, TransferLapses(t)
  PROVE UNCHANGED <<sale, Held, Offered>>
<1>1. transfer[t].status = "PENDING" /\ transfer[t] \in TransferRow
  BY DEF TransferLapses, Answerable, TitleInv, TypeOK, Absent
<1>2. /\ transfer'[t].status = transfer[t].status
      /\ transfer'[t].piece = transfer[t].piece
      /\ transfer'[t].from = transfer[t].from
      /\ transfer'[t].to = transfer[t].to
      /\ \A u \in TransferId : u # t => transfer'[u] = transfer[u]
  BY <1>1 DEF TransferLapses, TitleInv, TypeOK, TransferRow
<1>3. ASSUME NEW q \in Piece
      PROVE Offered'[q] = Offered[q]
  <2>1. PendingOn(q)' = PendingOn(q)
    BY <1>2 DEF PendingOn
  <2>2. \A u \in TransferId :
          transfer'[u].from = transfer[u].from /\ transfer'[u].to = transfer[u].to
    BY <1>2
  <2>3. PendingOn(q) \subseteq TransferId
    BY DEF PendingOn
  <2>. QED  BY <2>1, <2>2, <2>3 DEF Offered
<1>4. UNCHANGED Offered
  BY <1>3 DEF Offered
<1>5. UNCHANGED <<sale, Held>>
  BY DEF TransferLapses, Held
<1>. QED  BY <1>4, <1>5

LEMMA ConveyMaps ==
  ASSUME TitleInv, NEW w \in Worker, AcceptCommit(w)
  PROVE \E p \in Piece : Registry!Convey(p)
<1>1. PICK t \in TransferId : t = req[w].transfer /\ transfer[t] \in TransferRow
  BY AcceptingFacts DEF AcceptCommit
<1>2. PICK p \in Piece : p = transfer[t].piece
  BY <1>1, AcceptingFacts DEF AcceptCommit
<1>3. PICK n \in Nat \ {0} : n = Len(rows[p])
  BY <1>1, <1>2, AcceptingFacts DEF AcceptCommit
<1>4. /\ transfer[t].status = "PENDING" /\ rows[p] \in Seq(OwnershipRow)
      /\ rows[p][n].owner = transfer[t].from
  BY <1>1, <1>2, <1>3, AcceptingFacts DEF AcceptCommit
<1>. DEFINE g == Closed(rows[p], req[w].closes)
            last == [owner |-> transfer[t].to, transfer |-> t, open |-> TRUE]
            o == [from |-> transfer[t].from, to |-> transfer[t].to]
<1>5. /\ transfer'[t].status = "ACCEPTED"
      /\ \A u \in TransferId : u # t => transfer'[u] = transfer[u]
      /\ \A q \in Piece : q # p => rows'[q] = rows[q]
      /\ rows'[p] = Append(g, last)
      /\ UNCHANGED sale
  BY <1>1, <1>2 DEF AcceptCommit, TitleInv, TypeOK, TransferRow
<1>6. /\ g \in Seq(OwnershipRow) /\ Len(g) = n
      /\ \A k \in 1..n : g[k].owner = rows[p][k].owner
  BY <1>3, <1>4, ClosedRows
<1>7. last \in OwnershipRow /\ last.owner = transfer[t].to
  BY <1>1 DEF TransferRow, OwnershipRow
<1>8. /\ Len(rows'[p]) = n + 1
      /\ rows'[p][n + 1].owner = transfer[t].to
      /\ \A k \in 1..n : rows'[p][k].owner = rows[p][k].owner
  <2>. HIDE DEF g, last
  <2>. QED  BY <1>5, <1>6, <1>7
<1>9. Offered[p] = {o} /\ Offered' = [Offered EXCEPT ![p] = {}]
  BY <1>1, <1>2, <1>4, <1>5, SettledOffer
<1>10. /\ Held[p] = [k \in 1..n |-> rows[p][k].owner]
       /\ Held[p] \in Seq(User) /\ Len(Held[p]) = n
  <2>1. Held[p] = [k \in 1..n |-> rows[p][k].owner]
    BY <1>3 DEF Held
  <2>2. \A k \in 1..n : rows[p][k].owner \in User
    <3>1. \A k \in 1..n : rows[p][k] \in OwnershipRow
      BY <1>3, <1>4
    <3>. QED  BY <3>1 DEF OwnershipRow
  <2>. QED  BY <2>1, <2>2
<1>11. transfer[t].to \in User
  BY <1>1 DEF TransferRow
<1>12. Held'[p] = Append(Held[p], transfer[t].to)
  <2>1. Held'[p] = [k \in 1..(n + 1) |-> rows'[p][k].owner]
    BY <1>8 DEF Held
  <2>. DEFINE a == Append(Held[p], transfer[t].to)
  <2>2. /\ a \in Seq(User) /\ Len(a) = n + 1
        /\ a[n + 1] = transfer[t].to
        /\ \A k \in 1..n : a[k] = Held[p][k]
    <3>. DEFINE h == Held[p]
                z == transfer[t].to
    <3>. HIDE DEF h, z
    <3>. QED  BY <1>10, <1>11 DEF h, z
  <2>. HIDE DEF a
  <2>3. \A k \in 1..(n + 1) : a[k] = rows'[p][k].owner
    <3>1. \A k \in 1..(n + 1) : k \in 1..n \/ k = n + 1
      OBVIOUS
    <3>2. \A k \in 1..n : a[k] = rows'[p][k].owner
      BY <1>8, <1>10, <2>2
    <3>. QED  BY <1>8, <2>2, <3>1, <3>2
  <2>4. a = [k \in 1..(n + 1) |-> a[k]]
    BY <2>2
  <2>. QED  BY <2>1, <2>3, <2>4 DEF a
<1>13. Held' = [Held EXCEPT ![p] = Append(@, transfer[t].to)]
  <2>1. \A q \in Piece : q # p => Held'[q] = Held[q]
    BY <1>5 DEF Held
  <2>. QED  BY <1>12, <2>1 DEF Held
<1>14. Held[p] # <<>> /\ o.from = Held[p][Len(Held[p])]
  BY <1>3, <1>4, <1>10
<1>15. o.to = transfer[t].to
  OBVIOUS
<1>. HIDE DEF o
<1>16. Registry!Convey(p)
  BY <1>5, <1>9, <1>13, <1>14, <1>15 DEF Registry!Convey, Held, Offered
<1>. QED  BY <1>16

-----------------------------------------------------------------------------
(* The result. *)

LEMMA StepMaps ==
  ASSUME RefinementInv, [Next]_vars
  PROVE [Registry!Next]_<<sale, Held, Offered>>
<1>. USE DEF RefinementInv
<1>1. CASE UNCHANGED vars
  BY <1>1, StutterMaps DEF vars
<1>2. CASE Next /\ UNCHANGED <<rows, transfer>>
  <2>1. CASE UNCHANGED sale
    BY <1>2, <2>1, StutterMaps
  <2>2. CASE ~UNCHANGED sale
    <3>1. PICK w \in Worker : SaleCommit(w)
      <4>1. PieceNext \/ ClaimNext => UNCHANGED sale
        BY DEF PieceNext, Register, UpdateStatusLoad, RetireLoad, SetStatus,
               ClaimNext, RedeemCheck, RedeemExec, RedeemRefused, RedeemCommit,
               ClaimLapses
      <4>2. TransferNext => UNCHANGED sale
        BY DEF TransferNext, RequestCheck, RequestCreate, RequestConflict,
               AcceptExec, AcceptCommit, Reject, Cancel, Settle, Expire,
               TransferLapses
      <4>3. IncidentNext => UNCHANGED sale
        BY DEF IncidentNext, ReportCheck, ReportCommit, ReportConflict,
               AddReportLoad, AddReportCreate, ReviewLoad, ReviewWrite,
               ReviewConflict, CloseLoad, CloseWrite
      <4>4. ServiceNext => UNCHANGED sale
        BY DEF ServiceNext, Create, Start, CompleteExec, CompleteCommit,
               CancelOrder
      <4>5. \A v \in Worker : Abort(v) => UNCHANGED sale
        BY DEF Abort
      <4>6. SaleNext => UNCHANGED sale \/ \E v \in Worker : SaleCommit(v)
        BY DEF SaleNext, SaleCheck, SaleConflict
      <4>. QED
        BY <1>2, <2>2, <4>1, <4>2, <4>3, <4>4, <4>5, <4>6 DEF Next
    <3>2. \E p \in Piece, u \in User : Registry!Sell(p, u)
      BY <3>1, SellMaps
    <3>. QED  BY <3>2 DEF Registry!Next
  <2>. QED  BY <2>1, <2>2
<1>3. ASSUME NEW w \in Worker, RedeemCommit(w)
      PROVE Registry!Next
  BY <1>3, ClaimMaps DEF Registry!Next
<1>4. ASSUME NEW w \in Worker, AcceptCommit(w)
      PROVE Registry!Next
  BY <1>4, ConveyMaps DEF Registry!Next
<1>5. ASSUME NEW w \in Worker, NEW t \in TransferId, RequestCreate(w, t)
      PROVE Registry!Next
  BY <1>5, OfferMaps DEF Registry!Next
<1>6. ASSUME NEW t \in TransferId, Reject(t) \/ Cancel(t) \/ Expire(t)
      PROVE Registry!Next
  BY <1>6, WithdrawMaps DEF Registry!Next
<1>7. ASSUME NEW t \in TransferId, TransferLapses(t)
      PROVE UNCHANGED <<sale, Held, Offered>>
  BY <1>7, LapseMaps
<1>. QED
  BY <1>1, <1>2, <1>3, <1>4, <1>5, <1>6, <1>7, TitleWriters

LEMMA InitMaps == Init => Registry!Init
<1>. SUFFICES ASSUME Init PROVE Registry!Init
  OBVIOUS
<1>1. \A p \in Piece : PendingOn(p) = {}
  BY DEF Init, StoreInit, PendingOn, Absent
<1>2. Offered = [p \in Piece |-> {}]
  BY <1>1 DEF Offered
<1>3. ASSUME NEW p \in Piece
      PROVE [k \in 1..Len(rows[p]) |-> rows[p][k].owner] = <<>>
  <2>1. rows[p] = <<>> /\ Len(rows[p]) = 0
    BY DEF Init, StoreInit
  <2>. DEFINE h == [k \in 1..Len(rows[p]) |-> rows[p][k].owner]
  <2>2. h = [k \in 1..0 |-> rows[p][k].owner]
    BY <2>1
  <2>3. h \in Seq(User) /\ Len(h) = 0
    BY <2>2
  <2>. QED  BY <2>3
<1>4. Held = [p \in Piece |-> <<>>]
  BY <1>3 DEF Held
<1>5. sale = [p \in Piece |-> None]
  BY DEF Init, StoreInit
<1>. QED  BY <1>2, <1>4, <1>5 DEF Registry!Init, Held, Offered

\* The six services implement the registry of titles: a piece is sold once, its
\* buyer becomes the first holder, and title moves only by taking up the one
\* offer standing on the piece, made by its present holder; requests, locks,
\* transactions, incidents and service orders are invisible in it.
THEOREM TitleIsRegistry == Spec => ImplementsRegistry
<1>1. Init => RefinementInv
  BY InitTitle
  DEF RefinementInv, AskedByHolder, Init, StoreInit, Idle
<1>2. RefinementInv /\ [Next]_vars => RefinementInv'
  BY NextRefinement
<1>3. RefinementInv /\ [Next]_vars => [Registry!Next]_(Registry!registry)
  <2>1. Registry!registry = <<sale, Held, Offered>>
    BY DEF Registry!registry, Held, Offered
  <2>. QED  BY <2>1, StepMaps DEF Registry!registry, Held, Offered
<1>. QED
  BY <1>1, <1>2, <1>3, InitMaps, PTL DEF Spec, ImplementsRegistry, Registry!Spec
=============================================================================
